----------------------------- MODULE RuleDispatch -----------------------------
(***************************************************************************)
(* Rules: the rows a client edits through the rule service, and the        *)
(* dispatcher that runs the enabled ones when the activity log publishes   *)
(* an event about a note or a directory.  The bus awaits the dispatcher    *)
(* and swallows what it raises.  The actions of a rule raise no events.    *)
(***************************************************************************)
EXTENDS Naturals, FiniteSets

CONSTANTS
    Rules,          \* ids of rules
    Folders,        \* directories
    Above,          \* Above[d]: the first parent of d, or Top
    OnShelf,        \* the directories standing on the shelf
    Tags,
    TheNote, TheShelf, Top,
    Rows,           \* the rows that clients create
    Changes,        \* the changes they make: the fields given, with a row to take them from
    Editors,        \* requests of the rule service in flight
    MaxEdits,       \* bound: requests begun
    MaxEvents       \* bound: events published

Entities == Folders \cup {TheNote}
Anchors == Folders \cup {TheNote, TheShelf}
Row == [on : Anchors, kind : {"add_to_directory", "add_tag"}, arg : Folders \cup Tags,
        enabled : BOOLEAN]

Fields == {"on", "kind", "arg", "enabled"}

\* deserialise_action: the context has the field its type asks for.
Fits(kind, arg) == arg \in (IF kind = "add_tag" THEN Tags ELSE Folders)

VARIABLES
    ruleRow,        \* the rows, Top where there is none
    inFolders,      \* the directories of the note
    tagged,         \* the tags of each subject
    disp,           \* the dispatch under way
    editor,         \* requests of the rule service
    edits, events,
    crossed,        \* history: rules that two requests edited at once
    moved           \* history: the note was moved while its event was dispatched

ASSUME RulesAssumption ==
    /\ Top \notin Rules /\ Rows \subseteq Row
    /\ \A change \in Changes : change.give \subseteq Fields /\ change.row \in Row
    /\ Above \in [Folders -> Folders \cup {Top}]
    /\ MaxEdits \in Nat /\ MaxEvents \in Nat

ruleVars == <<ruleRow, inFolders, tagged, disp, editor, edits, events, crossed, moved>>

NoDispatch == [stage |-> "idle", subject |-> TheNote, listed |-> {}, left |-> {},
               matched |-> {}, skipped |-> {}, folders |-> {}, tags |-> {}]
NoEdit == [rule |-> Top, change |-> Top]

RuleInit ==
    /\ ruleRow \in [Rules -> {r \in Rows : Fits(r.kind, r.arg)} \cup {Top}]
    /\ inFolders \in SUBSET Folders \ {{}}
    /\ tagged = [s \in Entities |-> {}]
    /\ disp = NoDispatch
    /\ editor = [e \in Editors |-> NoEdit]
    /\ edits = 0 /\ events = 0 /\ crossed = {} /\ moved = FALSE

-----------------------------------------------------------------------------
(* The rule service.  Permission checks stand in front and change nothing.   *)

\* The database makes up the id: one that no request knows.
CreateRule(r, row) ==
    /\ ruleRow[r] = Top /\ Fits(row.kind, row.arg)
    /\ \A e \in Editors : editor[e].rule # r
    /\ edits < MaxEdits
    /\ edits' = edits + 1
    /\ ruleRow' = [ruleRow EXCEPT ![r] = row]
    /\ UNCHANGED <<inFolders, tagged, disp, editor, events, crossed, moved>>

DeleteRule(r) ==
    /\ ruleRow[r] # Top
    /\ edits < MaxEdits
    /\ edits' = edits + 1
    /\ ruleRow' = [ruleRow EXCEPT ![r] = Top]
    /\ UNCHANGED <<inFolders, tagged, disp, editor, events, crossed, moved>>

\* The row as it will be: a field that is not given keeps its value.
Merged(old, change) ==
    [f \in Fields |-> IF f \in change.give THEN change.row[f] ELSE old[f]]

\* Seeded fault: an action given in part is not validated.
ValidWholeUpdate(old, change) ==
    {"kind", "arg"} \subseteq change.give => Fits(change.row.kind, change.row.arg)

\* update_rule, first half: the existing row is read, and an action given in
\* part is validated with the other part of that row.
ValidUpdate(old, change) ==
    change.give \cap {"kind", "arg"} # {} =>
        LET new == Merged(old, change) IN Fits(new.kind, new.arg)

BeginUpdate(e, r, change) ==
    /\ editor[e] = NoEdit
    /\ ruleRow[r] # Top
    /\ edits < MaxEdits
    /\ ValidUpdate(ruleRow[r], change)
    /\ edits' = edits + 1
    /\ editor' = [editor EXCEPT ![e] = [rule |-> r, change |-> change]]
    /\ crossed' = crossed \cup {x \in {r} : \E o \in Editors : editor[o].rule = r}
    /\ UNCHANGED <<ruleRow, inFolders, tagged, disp, events, moved>>

\* Second half: the columns given are written, whatever the row has become.
WriteUpdate(e) ==
    /\ editor[e] # NoEdit
    /\ LET r == editor[e].rule
       IN ruleRow' = IF ruleRow[r] = Top THEN ruleRow
                     ELSE [ruleRow EXCEPT ![r] = Merged(@, editor[e].change)]
    /\ editor' = [editor EXCEPT ![e] = NoEdit]
    /\ UNCHANGED <<inFolders, tagged, disp, edits, events, crossed, moved>>

-----------------------------------------------------------------------------
(* The dispatcher.                                                           *)

\* list_rules_for_event: the enabled rules, as they are now.
Publish(subject) ==
    /\ disp = NoDispatch
    /\ events < MaxEvents
    /\ events' = events + 1
    /\ LET stored == {r \in Rules : ruleRow[r] # Top}
           listed == {x \in {[id |-> r, row |-> ruleRow[r]] : r \in stored} : x.row.enabled}
       IN disp' = [NoDispatch EXCEPT !.stage = "scope", !.subject = subject,
                                     !.folders = inFolders, !.tags = tagged[subject],
                                     !.listed = listed, !.left = listed]
    /\ moved' = FALSE
    /\ UNCHANGED <<ruleRow, inFolders, tagged, editor, edits, crossed>>

\* directory_ancestor_ids: the chain of first parents, without d itself.
Ancestors(d) ==
    LET step[k \in 0..Cardinality(Folders)] ==
            IF k = 0 THEN {Above[d]} \ {Top}
            ELSE step[k - 1] \cup ({Above[x] : x \in step[k - 1]} \ {Top})
    IN step[Cardinality(Folders)]

\* _scope_matches, for a subject whose (first) directory is d.
Matches(row, subject, d) ==
    \/ row.on = subject
    \/ row.on \in Folders /\ row.on \in Ancestors(d)
    \/ row.on = TheShelf /\ d \in OnShelf

\* parents[0] of a note is any of its directories.
PlaceOf(subject) == IF subject = TheNote THEN inFolders ELSE {subject}

\* The scope of every rule is looked up before the first one runs; a lookup
\* that fails is no match.
Filter(x, works) ==
    /\ disp.stage = "scope" /\ x \in disp.left
    /\ \E d \in PlaceOf(disp.subject) :
          disp' = [disp EXCEPT !.left = @ \ {x},
                               !.matched = IF works /\ Matches(x.row, disp.subject, d)
                                           THEN @ \cup {x} ELSE @,
                               !.skipped = IF works THEN @ ELSE @ \cup {x}]
    /\ UNCHANGED <<ruleRow, inFolders, tagged, editor, edits, events, crossed, moved>>

Filtered ==
    /\ disp.stage = "scope" /\ disp.left = {}
    /\ disp' = [disp EXCEPT !.stage = "run", !.left = disp.matched]
    /\ UNCHANGED <<ruleRow, inFolders, tagged, editor, edits, events, crossed, moved>>

\* _execute_action; a directory is added to no directory.
Effect(row, subject) ==
    /\ inFolders' = IF row.kind = "add_to_directory" /\ subject = TheNote
                    THEN inFolders \cup {row.arg} ELSE inFolders
    /\ tagged' = IF row.kind = "add_tag" THEN [tagged EXCEPT ![subject] = @ \cup {row.arg}] ELSE tagged

\* Seeded fault: the first rule that fails ends the dispatch.
RunRuleOrStop(x, works) ==
    /\ disp.stage = "run" /\ x \in disp.left
    /\ IF works /\ Fits(x.row.kind, x.row.arg)
       THEN /\ Effect(x.row, disp.subject)
            /\ disp' = [disp EXCEPT !.left = @ \ {x}]
       ELSE /\ UNCHANGED <<inFolders, tagged>>
            /\ disp' = [disp EXCEPT !.left = {}, !.skipped = @ \cup {x}]
    /\ UNCHANGED <<ruleRow, editor, edits, events, crossed, moved>>

\* One rule: its condition does not hold, its action does not parse or fails,
\* all of which is logged only; or the action is done.
RunRule(x, works) ==
    /\ disp.stage = "run" /\ x \in disp.left
    /\ IF works /\ Fits(x.row.kind, x.row.arg)
       THEN /\ Effect(x.row, disp.subject)
            /\ disp' = [disp EXCEPT !.left = @ \ {x}]
       ELSE /\ UNCHANGED <<inFolders, tagged>>
            /\ disp' = [disp EXCEPT !.left = @ \ {x}, !.skipped = @ \cup {x}]
    /\ UNCHANGED <<ruleRow, editor, edits, events, crossed, moved>>

Dispatched ==
    /\ disp.stage = "run" /\ disp.left = {}
    /\ disp' = NoDispatch
    /\ UNCHANGED <<ruleRow, inFolders, tagged, editor, edits, events, crossed, moved>>

\* Somebody moves the note meanwhile.
MoveNote(to) ==
    /\ disp.stage # "idle" /\ ~moved
    /\ inFolders' = to
    /\ moved' = TRUE
    /\ UNCHANGED <<ruleRow, tagged, disp, editor, edits, events, crossed>>

RuleNext ==
    \/ \E r \in Rules : DeleteRule(r) \/ \E row \in Rows : CreateRule(r, row)
    \/ \E e \in Editors : \/ \E r \in Rules, change \in Changes : BeginUpdate(e, r, change)
                          \/ WriteUpdate(e)
    \/ \E s \in Entities : Publish(s)
    \/ \E x \in disp.left, works \in BOOLEAN : Filter(x, works) \/ RunRule(x, works)
    \/ Filtered \/ Dispatched
    \/ \E to \in SUBSET Folders \ {{}} : MoveNote(to)

RuleSpec == RuleInit /\ [][RuleNext]_ruleVars

-----------------------------------------------------------------------------
(* Rows, requests and the dispatch have their types. *)
RuleTypeOK ==
    /\ \A r \in Rules : ruleRow[r] = Top \/ ruleRow[r] \in Row
    /\ inFolders \subseteq Folders /\ tagged \in [Entities -> SUBSET Tags]
    /\ disp.stage \in {"idle", "scope", "run"} /\ disp.subject \in Entities
    /\ \A x \in disp.listed : x.id \in Rules /\ x.row \in Row
    /\ disp.left \subseteq disp.listed /\ disp.matched \subseteq disp.listed
    /\ disp.skipped \subseteq disp.listed
    /\ crossed \subseteq Rules /\ edits \in 0..MaxEdits /\ events \in 0..MaxEvents

(* Every stored rule can run (rule_service.py): partial updates keep its     *)
(* action type and its context in step, as long as no two requests update    *)
(* the rule at once, in which case both validate against the old row.        *)
StoredActionsParse ==
    \A r \in Rules \ crossed : ruleRow[r] = Top \/ Fits(ruleRow[r].kind, ruleRow[r].arg)

(* What a dispatch does depends on the event alone (rule_dispatcher.py): on  *)
(* the rules and the place of the note when it was published.  At its end    *)
(* the note is where it was and where the matching rules put it, and it has  *)
(* the tags it had and those they gave it, whatever one rule did before the  *)
(* other, whichever failed, and however the rules were edited meanwhile.     *)
DispatchIsExact ==
    (disp.stage = "run" /\ disp.left = {} /\ disp.subject = TheNote /\ ~moved) =>
        LET ran == disp.listed \ disp.skipped
            sure == {x \in ran : \A d \in disp.folders : Matches(x.row, TheNote, d)}
            may == {x \in ran : \E d \in disp.folders : Matches(x.row, TheNote, d)}
            given(xs, kind) == {x.row.arg : x \in {y \in xs : y.row.kind = kind}}
        IN /\ disp.folders \cup given(sure, "add_to_directory") \subseteq inFolders
           /\ inFolders \subseteq disp.folders \cup given(may, "add_to_directory")
           /\ disp.tags \cup given(sure, "add_tag") \subseteq tagged[TheNote]
           /\ tagged[TheNote] \subseteq disp.tags \cup given(may, "add_tag")

(* "directory -- the rule matches events whose primary entity is this        *)
(* directory or any of its descendants" (db/entities/rule.py): the rules of  *)
(* the directory a note is created in are among those that match.            *)
DirectoryRulesMatch ==
    (disp.stage = "run" /\ disp.subject = TheNote /\ ~moved) =>
        \A x \in disp.listed : disp.folders = {x.row.on} => x \in disp.matched \cup disp.skipped
=============================================================================
