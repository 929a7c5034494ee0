-------------------------------- MODULE Boots --------------------------------
(***************************************************************************)
(* The service starts by running the migrations that are not recorded yet, *)
(* in the order of their file names, and serves only then.  A migration is *)
(* recorded after it has run, so that a death in between makes the next    *)
(* boot run it again.  Of the migrations those are here that write rows    *)
(* and tuples: the seed of the public user, the removal of duplicate       *)
(* users, and the page administrators; Onboarding adds the user shelves.   *)
(***************************************************************************)
EXTENDS Naturals, Sequences, FiniteSets

CONSTANTS
    MaxStarts,      \* bound: starts of the container
    Early,          \* users in the database before the first boot, oldest first
    Legacy          \* tuples of the relations that page administration renames

Files == <<"auth-schema", "bootstrap-users-shelf", "unique-user-identifiers",
           "add-page-administrator">>

VARIABLES
    phase,          \* "down", "migrating", "serving"
    starts,
    applied,        \* rows of schema_migrations
    current,        \* the migration that runs, an index of Files
    step,           \* the call it is about to make
    users,          \* rows of auth.user in the order of their ids
    old, new,       \* legacy tuples under the old and under the new relation
    legacyRead,     \* what the migration has read of old
    schema,         \* the SpiceDB schema: "old", "bridge" or "final"
    adminRole,      \* the role row of the page administrators is there
    grants,         \* page relations the role has
    admins          \* ids of the users in the role

adminVars == <<old, new, legacyRead, schema, adminRole, grants, admins>>
bootVars == <<phase, starts, applied, current, step, users, adminVars>>

PageRelations == {"admin", "grant_page_admin", "delegate_page_admin"}
User(name, kind, live) == [name |-> name, kind |-> kind, live |-> live, gone |-> FALSE]
Present == {i \in DOMAIN users : ~users[i].gone}
\* The least of a set of numbers.
Least(S) == CHOOSE i \in S : \A j \in S : i <= j

BootInit ==
    /\ phase = "down" /\ starts = 0 /\ applied = {} /\ current = 0 /\ step = "none"
    /\ users = Early
    /\ old = Legacy /\ new = {} /\ legacyRead = {} /\ schema = "old"
    /\ adminRole = FALSE /\ grants = {} /\ admins = {}

Boot ==
    /\ phase = "down" /\ starts < MaxStarts
    /\ starts' = starts + 1
    /\ phase' = "migrating" /\ step' = "next"
    /\ UNCHANGED <<applied, current, users, adminVars>>

\* Seeded fault: the migration is recorded before it runs.
NextMigrationRecorded ==
    /\ phase = "migrating" /\ step = "next"
    /\ LET pending == {j \in DOMAIN Files : j > current /\ Files[j] \notin applied}
       IN IF pending = {}
          THEN phase' = "serving" /\ step' = "none" /\ current' = 0 /\ UNCHANGED applied
          ELSE /\ current' = Least(pending) /\ step' = "begin"
               /\ applied' = applied \cup {Files[Least(pending)]}
               /\ UNCHANGED phase
    /\ UNCHANGED <<starts, users, adminVars>>

\* The loop of run_pending_migrations; main serves when it is through.
NextMigration ==
    /\ phase = "migrating" /\ step = "next"
    /\ LET pending == {j \in DOMAIN Files : j > current /\ Files[j] \notin applied}
       IN IF pending = {}
          THEN phase' = "serving" /\ step' = "none" /\ current' = 0
          ELSE current' = Least(pending) /\ step' = "begin" /\ UNCHANGED phase
    /\ UNCHANGED <<starts, applied, users, adminVars>>

At(file, s) == phase = "migrating" /\ current # 0 /\ Files[current] = file /\ step = s

Record ==
    /\ phase = "migrating" /\ step = "record"
    /\ applied' = applied \cup {Files[current]}
    /\ step' = "next"
    /\ UNCHANGED <<phase, starts, current, users, adminVars>>

\* 20260807: the insert has no id to conflict with, so each run adds a row.
SeedPublicUser ==
    /\ At("auth-schema", "begin")
    /\ users' = Append(users, User("public_user", "system", FALSE))
    /\ step' = "record"
    /\ UNCHANGED <<phase, starts, applied, current, adminVars>>

\* 20261016: of the users of one name the oldest stays.
Dedupe ==
    /\ At("unique-user-identifiers", "begin")
    /\ users' = [i \in DOMAIN users |->
                    IF \E j \in Present : j < i /\ users[j].name = users[i].name
                    THEN [users[i] EXCEPT !.gone = TRUE] ELSE users[i]]
    /\ step' = "record"
    /\ UNCHANGED <<phase, starts, applied, current, adminVars>>

-----------------------------------------------------------------------------
(* 20261120-add-page-administrator; 20261121 repeats its first part.         *)

\* Four lookups; one that raises, for whatever reason, is taken for a relation the
\* schema does not have, and finds nothing.
ReadLegacy ==
    /\ At("add-page-administrator", "begin")
    /\ legacyRead' \in SUBSET old
    /\ IF legacyRead' = {} THEN step' = "schema" /\ UNCHANGED schema
                          ELSE step' = "copy" /\ schema' = "bridge"
    /\ UNCHANGED <<phase, starts, applied, current, users, old, new, adminRole, grants, admins>>

\* _ensure_relationship: one tuple after the other, unless it is there.
CopyLegacy ==
    /\ At("add-page-administrator", "copy")
    /\ IF legacyRead \subseteq new THEN step' = "drop" /\ UNCHANGED new
       ELSE \E t \in legacyRead \ new : new' = new \cup {t} /\ UNCHANGED step
    /\ UNCHANGED <<phase, starts, applied, current, users, old, legacyRead, schema, adminRole, grants, admins>>

DropLegacy ==
    /\ At("add-page-administrator", "drop")
    /\ IF legacyRead \cap old = {} THEN step' = "schema" /\ UNCHANGED old
       ELSE \E t \in legacyRead \cap old : old' = old \ {t} /\ UNCHANGED step
    /\ UNCHANGED <<phase, starts, applied, current, users, new, legacyRead, schema, adminRole, grants, admins>>

\* SpiceDB does not drop a relation that tuples still use: with some left, the call
\* raises (Down).
WriteSchema ==
    /\ At("add-page-administrator", "schema") /\ old = {}
    /\ schema' = "final" /\ step' = "role"
    /\ UNCHANGED <<phase, starts, applied, current, users, old, new, legacyRead, adminRole, grants, admins>>

EnsureRole ==
    /\ At("add-page-administrator", "role")
    /\ adminRole' = TRUE /\ step' = "grants"
    /\ UNCHANGED <<phase, starts, applied, current, users, old, new, legacyRead, schema, grants, admins>>

GrantPage ==
    /\ At("add-page-administrator", "grants")
    /\ IF grants = PageRelations THEN step' = "assign" /\ UNCHANGED grants
       ELSE \E r \in PageRelations \ grants : grants' = grants \cup {r} /\ UNCHANGED step
    /\ UNCHANGED <<phase, starts, applied, current, users, old, new, legacyRead, schema, adminRole, admins>>

AssignFirst ==
    /\ At("add-page-administrator", "assign")
    /\ LET humans == {i \in Present : users[i].kind = "human"}
       IN admins' = admins \cup (IF humans = {} THEN {} ELSE {Least(humans)})
    /\ step' = "record"
    /\ UNCHANGED <<phase, starts, applied, current, users, old, new, legacyRead, schema, adminRole, grants>>

\* A migration raises, or the service dies.
Down ==
    /\ phase # "down"
    /\ phase' = "down" /\ current' = 0 /\ step' = "none" /\ legacyRead' = {}
    /\ UNCHANGED <<starts, applied, users, old, new, schema, adminRole, grants, admins>>

PageAdminStep ==
    \/ ReadLegacy \/ CopyLegacy \/ DropLegacy \/ WriteSchema \/ EnsureRole
    \/ GrantPage \/ AssignFirst

BootStep == Boot \/ NextMigration \/ Record \/ SeedPublicUser \/ Dedupe \/ PageAdminStep

-----------------------------------------------------------------------------
(* No right is lost on the way from the old relation to the new one, at no   *)
(* point of any run (20261120: the copies are written before the old tuples  *)
(* are deleted), and the final schema finds nothing under the old relation.  *)
RightsSurvive == Legacy \subseteq old \cup new /\ (schema = "final" => old = {})

(* A migration that is recorded has done all it does, however often it was   *)
(* cut short before (runner.py, run_pending_migrations): one public user is  *)
(* left, and the page has its administrators, the first human among them.    *)
RecordedIsDone ==
    /\ "auth-schema" \in applied => \E i \in Present : users[i].name = "public_user"
    /\ "unique-user-identifiers" \in applied =>
          \A i, j \in Present : users[i].name = users[j].name => i = j
    /\ "add-page-administrator" \in applied =>
          /\ new = Legacy /\ old = {} /\ adminRole /\ grants = PageRelations
          /\ LET humans == {i \in Present : users[i].kind = "human" /\ ~users[i].live}
             IN admins = IF humans = {} THEN {} ELSE {Least(humans)}
=============================================================================
