---------------------------- MODULE Relationships ----------------------------
(***************************************************************************)
(* The permission service and the role service: who may write which       *)
(* SpiceDB tuple of one shared resource and of one role.  The resource is  *)
(* one without structural tuples (a shelf or a directory at the top; the   *)
(* replacement of any other raises).  A right is a relation of the schema: *)
(* access (reader, writer, admin, and member for the role), grant_* and    *)
(* delegate_*, each at a level, and the two roots, the resource's owner    *)
(* and the role's admin.                                                   *)
(***************************************************************************)
EXTENDS Naturals, FiniteSets

CONSTANTS
    Users,          \* the callers
    Trusted,        \* users that may own the resource or administer the role
    RoleMembers,    \* the subject role#member
    Levels,         \* share levels of the resource, "admin" among them
    Ceiling,        \* the rights the trusted hand out at most
    Lists,          \* the lists a client replaces the relationships with
    Calls,          \* requests in flight
    Targets,        \* bound: the subjects that requests name
    MaxCalls,       \* bound: requests begun
    NoOne

Subjects == Users \cup {RoleMembers}
Right(kind, level) == [kind |-> kind, level |-> level]
Owner == Right("root", "resource")
RoleAdmin == Right("root", "member")
Roots == {Owner, RoleAdmin}
Rights == [kind : {"access", "grant", "delegate"}, level : Levels \cup {"member"}]
Member == Right("access", "member")

\* What _normalize_relationship lets through: neither roots nor membership.
Shareable == Rights \ {Member}
Tuples == [right : Rights \cup Roots, sub : Subjects]
Tuple(right, sub) == [right |-> right, sub |-> sub]

\* The relations that make up the computed permission behind a right.
Writers(r) ==
    {IF r.level = "member" THEN RoleAdmin ELSE Owner}
    \cup {w \in {Right("access", "admin")} : r.level \notin {"admin", "member"}}
    \cup {w \in {Right("grant", r.level)} : r.kind = "access"}
    \cup {w \in {Right("delegate", r.level)} : r.kind \in {"access", "grant"}}

\* Ceiling is closed: whoever holds rights below it can hand out no other.
ASSUME CeilingClosed ==
    /\ Ceiling \subseteq Rights
    /\ \A r \in Rights : Writers(r) \cap Ceiling # {} => r \in Ceiling
ASSUME SubjectsDistinct == Trusted \subseteq Users /\ RoleMembers \notin Users /\ Targets \subseteq Subjects
\* What _normalize_relationship lets through: relationships of the resource only.
ASSUME ListsOfResource ==
    /\ "member" \notin Levels
    /\ \A list \in Lists : list \subseteq [right : Shareable, sub : Subjects]
    /\ \A list \in Lists : \A t \in list : t.right.level # "member"
ASSUME NoOneIsNobody == NoOne \notin Users
ASSUME MaxCallsNat == MaxCalls \in Nat

VARIABLES
    tuples,     \* SpiceDB: the tuples of the resource and of the role
    role,       \* Postgres: the row of the role, and who creates it
    call,       \* the requests in flight
    begun,      \* number of requests begun
    blurred     \* history: two requests overlapped, or one was cut short

relVars == <<tuples, role, call, begun, blurred>>

IdleCall == [stage |-> "idle", actor |-> NoOne, base |-> {},
             want |-> {}, drop |-> {}, add |-> {}, left |-> {}]
Stages == {"idle", "read", "check", "delete", "answer"}

\* A check in SpiceDB: a relation held directly or as a member of the role.
Holds(u, right) ==
    \/ Tuple(right, u) \in tuples
    \/ Tuple(right, RoleMembers) \in tuples /\ Tuple(Member, u) \in tuples

\* Seeded fault: every member of the role may write its relations.
MayWriteAsMember(u, right) ==
    \/ \E w \in Writers(right) : Holds(u, w)
    \/ right.level = "member" /\ Holds(u, Member)

MayWrite(u, right) == \E w \in Writers(right) : Holds(u, w)

OfRole(right) == right.level = "member"

\* _assert_resource_exists: the resource's row is there, the role's may not be.
Exists(right) == OfRole(right) => role.row \in {"bare", "ready"}

\* What the environment of the trusted is: nothing beyond the ceiling is
\* handed out by them.
WithinCeiling(u, ts) ==
    u \in Trusted => \A t \in ts : t.sub \in Trusted \/ t.right \in Ceiling

RelInit ==
    /\ \E o \in Trusted : \E more \in SUBSET [right : Ceiling, sub : Targets] :
          /\ Cardinality(more) <= 1
          /\ tuples = {Tuple(Owner, o)} \cup more
    /\ role = [row |-> "absent", by |-> NoOne]
    /\ call = [c \in Calls |-> IdleCall]
    /\ begun = 0
    /\ blurred = FALSE

Begin(c, u, stage, want, drop, add) ==
    /\ call[c].stage = "idle"
    /\ begun < MaxCalls
    /\ begun' = begun + 1
    /\ WithinCeiling(u, add \cup want)
    /\ call' = [call EXCEPT ![c] =
                  [stage |-> stage, actor |-> u, base |-> {},
                   want |-> want, drop |-> drop, add |-> add, left |-> drop \cup add]]
    /\ blurred' = (blurred \/ \E d \in Calls \ {c} : call[d].stage # "idle")
    /\ UNCHANGED <<tuples, role>>

CreateRelationship(c, u, t) ==
    /\ Exists(t.right)
    /\ Begin(c, u, "check", {}, {}, {t})

DeleteRelationship(c, u, t) ==
    /\ Exists(t.right)
    /\ Begin(c, u, "check", {}, {t}, {})

ReplaceRelationships(c, u, list) == Begin(c, u, "read", list, {}, {})

\* The role service checks the capability alone, not that the role exists.
AddUserToRole(c, u, member) ==
    Begin(c, u, "check", {}, {}, {Tuple(Member, member)})

RemoveUserFromRole(c, u, member) ==
    Begin(c, u, "check", {}, {Tuple(Member, member)}, {})

\* The relationships of the resource that a replacement compares: no owner.
Diffable == {t \in tuples : t.right # Owner /\ t.right # RoleAdmin /\ ~OfRole(t.right)}

\* Seeded fault: the whole list is inserted, what is there already too.
ReadCurrentAddingAll(c) ==
    /\ call[c].stage = "read"
    /\ call' = [call EXCEPT ![c] = [@ EXCEPT
                  !.stage = "check", !.base = Diffable, !.drop = Diffable \ call[c].want,
                  !.add = call[c].want, !.left = Diffable \cup call[c].want]]
    /\ UNCHANGED <<tuples, role, begun, blurred>>

\* Seeded fault: everything is deleted first and the list inserted afresh.
ReadCurrentDroppingAll(c) ==
    /\ call[c].stage = "read"
    /\ call' = [call EXCEPT ![c] = [@ EXCEPT
                  !.stage = "check", !.base = Diffable, !.drop = Diffable,
                  !.add = call[c].want, !.left = Diffable \cup call[c].want]]
    /\ UNCHANGED <<tuples, role, begun, blurred>>

ReadCurrent(c) ==
    /\ call[c].stage = "read"
    /\ LET drop == Diffable \ call[c].want
           add == call[c].want \ Diffable
       IN call' = [call EXCEPT ![c] = [@ EXCEPT
                     !.stage = "check", !.base = Diffable,
                     !.drop = drop, !.add = add, !.left = drop \cup add]]
    /\ UNCHANGED <<tuples, role, begun, blurred>>

\* One relation of the request is authorized, all before the first write.
Authorize(c, t) ==
    /\ call[c].stage = "check"
    /\ t \in call[c].left
    /\ IF MayWrite(call[c].actor, t.right)
       THEN call' = [call EXCEPT ![c].left = @ \ {t}]
       ELSE call' = [call EXCEPT ![c] = IdleCall]
    /\ UNCHANGED <<tuples, role, begun, blurred>>

Authorized(c) ==
    /\ call[c].stage = "check"
    /\ call[c].left = {}
    /\ call' = [call EXCEPT ![c] = [@ EXCEPT !.stage = "delete", !.left = call[c].drop]]
    /\ UNCHANGED <<tuples, role, begun, blurred>>

DeleteTuple(c, t) ==
    /\ call[c].stage = "delete"
    /\ t \in call[c].left
    /\ tuples' = tuples \ {t}
    /\ call' = [call EXCEPT ![c].left = @ \ {t}]
    /\ UNCHANGED <<role, begun, blurred>>

\* ImportBulkRelationships: a batch with a duplicate is refused as a whole.
AfterBulkInsert(new) == IF new \cap tuples = {} THEN tuples \cup new ELSE tuples

InsertTuples(c) ==
    /\ call[c].stage = "delete"
    /\ call[c].left = {}
    /\ tuples' = AfterBulkInsert(call[c].add)
    /\ call' = [call EXCEPT ![c].stage = "answer"]
    /\ UNCHANGED <<role, begun, blurred>>

\* The answer is read back from SpiceDB; the audit entries are left out.
Answer(c) ==
    /\ call[c].stage = "answer"
    /\ call' = [call EXCEPT ![c] = IdleCall]
    /\ UNCHANGED <<tuples, role, begun, blurred>>

\* SpiceDB or Postgres raises, or the service dies, at any await.
CallFails(c) ==
    /\ call[c].stage # "idle"
    /\ call' = [call EXCEPT ![c] = IdleCall]
    /\ blurred' = (blurred \/ call[c].stage \notin {"read", "check"})
    /\ UNCHANGED <<tuples, role, begun>>

\* create_role: a page admin writes the row, then admin and member tuples.
CreateRole(u) ==
    /\ u \in Trusted
    /\ role.row = "absent"
    /\ role' = [row |-> "bare", by |-> u]
    /\ UNCHANGED <<tuples, call, begun, blurred>>

\* Seeded fault: the grants go to nobody, the creator being unset by then.
GrantNobody ==
    /\ role.row = "bare"
    /\ tuples' = AfterBulkInsert({Tuple(RoleAdmin, NoOne), Tuple(Member, NoOne)})
    /\ role' = [role EXCEPT !.row = "ready"]
    /\ UNCHANGED <<call, begun, blurred>>

GrantCreator ==
    /\ role.row = "bare"
    /\ tuples' = AfterBulkInsert({Tuple(RoleAdmin, role.by), Tuple(Member, role.by)})
    /\ role' = [role EXCEPT !.row = "ready"]
    /\ UNCHANGED <<call, begun, blurred>>

\* delete_role removes the row and leaves every tuple.
DeleteRole(u) ==
    /\ role.row = "ready"
    /\ Holds(u, RoleAdmin)
    /\ role' = [role EXCEPT !.row = "deleted"]
    /\ UNCHANGED <<tuples, call, begun, blurred>>

RelCallNext(c) ==
    \/ \E u \in Users :
          \/ \E t \in [right : Shareable, sub : Targets] :
                CreateRelationship(c, u, t) \/ DeleteRelationship(c, u, t)
          \/ \E list \in Lists : ReplaceRelationships(c, u, list)
          \/ \E member \in Targets \cap Users :
                AddUserToRole(c, u, member) \/ RemoveUserFromRole(c, u, member)
    \/ ReadCurrent(c)
    \/ \E t \in call[c].left : Authorize(c, t) \/ DeleteTuple(c, t)
    \/ Authorized(c)
    \/ InsertTuples(c)
    \/ Answer(c)
    \/ CallFails(c)

RelNext ==
    \/ \E c \in Calls : RelCallNext(c)
    \/ \E u \in Users : CreateRole(u) \/ DeleteRole(u)
    \/ GrantCreator

RelSpec == RelInit /\ [][RelNext]_relVars

-----------------------------------------------------------------------------
CallType ==
    [stage : Stages, actor : Users \cup {NoOne}, base : SUBSET Tuples,
     want : SUBSET Tuples, drop : SUBSET Tuples, add : SUBSET Tuples, left : SUBSET Tuples]

(* Stores and requests have their types. *)
RelTypeOK ==
    /\ tuples \subseteq Tuples
    /\ role \in [row : {"absent", "bare", "ready", "deleted"}, by : Users \cup {NoOne}]
    /\ call \in [Calls -> CallType]
    /\ begun \in 0..MaxCalls
    /\ blurred \in BOOLEAN

(* No escalation (share_policy.py, schema.zed, role_service.py): as long as  *)
(* owners and role admins hand out nothing beyond a closed set of rights,    *)
(* the others never hold a right outside it, whatever they grant each other, *)
(* directly or through the role, from checks that may be stale by then.      *)
NoEscalation == \A t \in tuples : t.sub \notin Trusted => t.right \in Ceiling

(* A replacement (permissions.py) that nobody disturbs and that may be cut   *)
(* short anywhere never takes away a relationship that is in the old and in  *)
(* the new list, and never leaves one that is in neither.                    *)
ReplaceBetween ==
    \A c \in Calls : (~blurred /\ call[c].want # {} /\ call[c].stage \notin {"idle", "read"}) =>
        /\ call[c].base \cap call[c].want \subseteq tuples
        /\ Diffable \subseteq call[c].base \cup call[c].want

(* Undisturbed, a replacement that reaches its answer has made the           *)
(* relationships exactly the list: no tuple of its batch was lost to a       *)
(* duplicate.                                                                *)
ReplaceExact ==
    \A c \in Calls : (~blurred /\ call[c].want # {} /\ call[c].stage = "answer") =>
        Diffable = call[c].want
=============================================================================
