------------------------- MODULE Relationships_proofs -------------------------
(***************************************************************************)
(* Type correctness, the absence of escalation, and what a replacement     *)
(* leaves behind, for every set of users, rights, lists and requests.      *)
(***************************************************************************)
EXTENDS Relationships, TLAPS

\* What a request may carry: tuples of rights, never of the two roots.
Grantable == [right : Rights, sub : Subjects]

\* A tuple that keeps the others below the ceiling.
Harmless(t) == t.sub \in Trusted \/ t.right \in Ceiling

\* What NoEscalation needs to be inductive: requests carry rights only, those of
\* the trusted stay below the ceiling...
CarriesRights ==
  \A c \in Calls : /\ call[c].want \cup call[c].add \subseteq Grantable
                   /\ WithinCeiling(call[c].actor, call[c].want \cup call[c].add)

\* ... every tuple to insert was authorized for a harmless right, or still has to be...
Vetted ==
  \A c \in Calls : \A t \in call[c].add :
     Harmless(t) \/ (call[c].stage = "check" /\ t \in call[c].left)

\* ... and the role was created by one of the trusted.
CreatorTrusted == role.row = "bare" => role.by \in Trusted

\* A request in flight has a caller.
ActorsKnown == \A c \in Calls : call[c].stage # "idle" => call[c].actor \in Users

SafeInv == RelTypeOK /\ ActorsKnown /\ CarriesRights /\ Vetted /\ CreatorTrusted /\ NoEscalation

\* What a replacement does while no other request is in flight.
Alone == ~blurred => \A c, d \in Calls : call[c].stage # "idle" /\ call[d].stage # "idle" => c = d

\* How far a replacement has come: which tuples of its difference are still to
\* be deleted, and that nothing of its insertion is there before it is made.
Diffed(c) ==
  /\ call[c].drop = call[c].base \ call[c].want
  /\ call[c].add = call[c].want \ call[c].base
  /\ call[c].want \cup call[c].base \subseteq [right : Rights, sub : Subjects]
  /\ \A t \in call[c].want \cup call[c].base : t.right.level # "member"

Progress(c) ==
  /\ call[c].stage = "check" => Diffable = call[c].base
  /\ call[c].stage = "delete" =>
        /\ call[c].left \subseteq call[c].drop
        /\ Diffable = (call[c].base \cap call[c].want) \cup call[c].left
  /\ call[c].stage = "answer" => Diffable = call[c].want

ReplaceInv ==
  \A c \in Calls : (call[c].want # {} /\ call[c].stage \notin {"idle", "read"}) =>
     Diffed(c) /\ (~blurred => Progress(c))

\* A list that waits to be compared is one a client may send.
ListsWait ==
  \A c \in Calls : call[c].stage = "read" =>
     /\ call[c].want \in Lists
     /\ call[c].add = {} /\ call[c].drop = {} /\ call[c].left = {}

IInv == SafeInv /\ Alone /\ ReplaceInv /\ ListsWait

USE DEF Tuple, relVars

-----------------------------------------------------------------------------
(* Rights and checks. *)

\* The roots are above the ceiling, and rights of the role are told from the others.
LEMMA RootsAbove ==
  /\ Owner \notin Rights /\ RoleAdmin \notin Rights /\ Member \in Rights
  /\ Owner \notin Ceiling /\ RoleAdmin \notin Ceiling
<1>1. \A r \in Rights : r.kind # "root"
  BY DEF Rights
<1>2. Owner.kind = "root" /\ RoleAdmin.kind = "root"
  BY DEF Owner, RoleAdmin, Right
<1> QED  BY <1>1, <1>2, CeilingClosed DEF Rights, Member, Right

\* Below the ceiling nobody can hand out a right above it: a check that SpiceDB
\* grants one of the others is about a right they may hold anyway.
LEMMA OthersGrantBelow ==
  ASSUME NoEscalation, NEW u \in Users, u \notin Trusted,
         NEW r \in Rights, MayWrite(u, r)
  PROVE  r \in Ceiling
<1>1. PICK w \in Writers(r) : Holds(u, w)
  BY DEF MayWrite
<1>2. RoleMembers \notin Trusted
  BY SubjectsDistinct
<1>3. w \in Ceiling
  <2>1. \E t \in tuples : t.sub \notin Trusted /\ t.right = w
    BY <1>1, <1>2 DEF Holds
  <2> QED  BY <2>1 DEF NoEscalation
<1> QED  BY <1>1, <1>3, CeilingClosed

\* An authorized tuple of a request is harmless, whoever asks for it.
LEMMA AuthorizedHarmless ==
  ASSUME SafeInv, NEW c \in Calls, NEW t \in call[c].add,
         MayWrite(call[c].actor, t.right), call[c].stage # "idle"
  PROVE  Harmless(t)
<1>1. t \in Grantable /\ WithinCeiling(call[c].actor, call[c].want \cup call[c].add)
      /\ call[c].actor \in Users
  BY DEF SafeInv, CarriesRights, ActorsKnown
<1>2. CASE call[c].actor \in Trusted
  BY <1>1, <1>2 DEF WithinCeiling, Harmless
<1>3. CASE call[c].actor \notin Trusted
  BY <1>1, <1>3, OthersGrantBelow DEF SafeInv, Grantable, Harmless
<1> QED  BY <1>2, <1>3

-----------------------------------------------------------------------------
(* Types. *)

\* A request has the fields of CallType, and so has an idle one.
LEMMA CallFields ==
  ASSUME RelTypeOK, NEW c \in Calls
  PROVE  /\ call[c] \in CallType /\ IdleCall \in CallType
         /\ call[c].stage \in Stages
         /\ call[c].actor \in Users \cup {NoOne}
         /\ call[c].base \subseteq Tuples /\ call[c].want \subseteq Tuples
         /\ call[c].drop \subseteq Tuples /\ call[c].add \subseteq Tuples
         /\ call[c].left \subseteq Tuples
         /\ Diffable \subseteq Tuples
BY DEF RelTypeOK, CallType, IdleCall, Stages, Diffable

\* What a request begins with is well typed, and names a caller.
LEMMA BeginTyped ==
  ASSUME RelTypeOK, NEW c \in Calls, NEW u \in Users, NEW stage \in Stages,
         NEW want \in SUBSET Tuples, NEW drop \in SUBSET Tuples, NEW add \in SUBSET Tuples,
         Begin(c, u, stage, want, drop, add)
  PROVE  RelTypeOK'
<1>1. call' \in [Calls -> CallType]
  BY DEF RelTypeOK, CallType, Begin
<1>2. begun' \in 0..MaxCalls
  BY MaxCallsNat DEF RelTypeOK, Begin
<1> QED  BY <1>1, <1>2 DEF RelTypeOK, Begin

\* Every request begins in one of two stages, with well-typed sets.
LEMMA RequestsBegin ==
  ASSUME NEW c \in Calls, NEW u \in Users,
         \/ \E t \in [right : Shareable, sub : Targets] :
               CreateRelationship(c, u, t) \/ DeleteRelationship(c, u, t)
         \/ \E list \in Lists : ReplaceRelationships(c, u, list)
         \/ \E member \in Targets \cap Users :
               AddUserToRole(c, u, member) \/ RemoveUserFromRole(c, u, member)
  PROVE  \/ \E drop, add \in SUBSET Grantable : Begin(c, u, "check", {}, drop, add)
         \/ \E list \in Lists : list \subseteq Grantable /\ Begin(c, u, "read", list, {}, {})
<1>1. \A t \in [right : Shareable, sub : Targets] : {t} \subseteq Grantable
  BY SubjectsDistinct DEF Shareable, Grantable
<1>2. \A member \in Targets \cap Users : {Tuple(Member, member)} \subseteq Grantable
  BY RootsAbove DEF Grantable, Subjects
<1>3. \A list \in Lists : list \subseteq Grantable
  BY ListsOfResource DEF Grantable, Shareable
<1>4. {} \in SUBSET Grantable
  OBVIOUS
<1>5. CASE \E t \in [right : Shareable, sub : Targets] :
             CreateRelationship(c, u, t) \/ DeleteRelationship(c, u, t)
  BY <1>1, <1>4, <1>5 DEF CreateRelationship, DeleteRelationship
<1>6. CASE \E list \in Lists : ReplaceRelationships(c, u, list)
  BY <1>3, <1>6 DEF ReplaceRelationships
<1>7. CASE \E member \in Targets \cap Users :
             AddUserToRole(c, u, member) \/ RemoveUserFromRole(c, u, member)
  BY <1>2, <1>4, <1>7 DEF AddUserToRole, RemoveUserFromRole
<1> QED  BY <1>5, <1>6, <1>7

\* The steps of a request that has begun.
CallStep(c) ==
  \/ ReadCurrent(c) \/ Authorized(c) \/ InsertTuples(c) \/ Answer(c) \/ CallFails(c)
  \/ \E t \in call[c].left : Authorize(c, t) \/ DeleteTuple(c, t)

\* The steps of the role service outside of requests.
RoleStep == GrantCreator \/ \E u \in Users : CreateRole(u) \/ DeleteRole(u)

\* The next-state relation, sorted by what the proofs distinguish.
LEMMA RelNextSorted ==
  ASSUME RelNext
  PROVE  \/ \E c \in Calls, u \in Users : \E drop, add \in SUBSET Grantable :
               Begin(c, u, "check", {}, drop, add)
         \/ \E c \in Calls, u \in Users : \E list \in Lists :
               list \subseteq Grantable /\ Begin(c, u, "read", list, {}, {})
         \/ \E c \in Calls : CallStep(c)
         \/ RoleStep
<1>1. CASE \E c \in Calls : RelCallNext(c)
  BY <1>1, RequestsBegin DEF RelCallNext, CallStep
<1>2. CASE (\E u \in Users : CreateRole(u) \/ DeleteRole(u)) \/ GrantCreator
  BY <1>2 DEF RoleStep
<1> QED  BY <1>1, <1>2 DEF RelNext

\* Each step of a request stores a well-typed record for it, and none for another.
LEMMA CallStepStores ==
  ASSUME RelTypeOK, NEW c \in Calls, CallStep(c)
  PROVE  \E new \in CallType : call' = [call EXCEPT ![c] = new]
<1>1. CASE ReadCurrent(c)
  <2>1. PICK drop \in SUBSET Tuples : drop = Diffable \ call[c].want
    BY CallFields
  <2>2. PICK add \in SUBSET Tuples : add = call[c].want \ Diffable
    BY CallFields
  <2> DEFINE new == [call[c] EXCEPT !.stage = "check", !.base = Diffable,
                       !.drop = drop, !.add = add, !.left = drop \cup add]
  <2>3. new \in CallType
    BY CallFields DEF CallType, Stages
  <2>4. call' = [call EXCEPT ![c] = new]
    BY <1>1, <2>1, <2>2 DEF ReadCurrent
  <2> HIDE DEF new
  <2> QED  BY <2>3, <2>4
<1>2. CASE Authorized(c)
  <2> DEFINE new == [call[c] EXCEPT !.stage = "delete", !.left = call[c].drop]
  <2>1. new \in CallType
    BY CallFields DEF CallType, Stages
  <2>2. call' = [call EXCEPT ![c] = new]
    BY <1>2 DEF Authorized
  <2> HIDE DEF new
  <2> QED  BY <2>1, <2>2
<1>3. CASE InsertTuples(c)
  <2> DEFINE new == [call[c] EXCEPT !.stage = "answer"]
  <2>1. new \in CallType
    BY CallFields DEF CallType, Stages
  <2>2. call' = [call EXCEPT ![c] = new]
    BY <1>3 DEF InsertTuples
  <2> HIDE DEF new
  <2> QED  BY <2>1, <2>2
<1>4. CASE Answer(c) \/ CallFails(c)
  BY <1>4, CallFields DEF Answer, CallFails
<1>5. ASSUME NEW t \in call[c].left, Authorize(c, t) \/ DeleteTuple(c, t)
      PROVE  \E new \in CallType : call' = [call EXCEPT ![c] = new]
  <2> DEFINE new == [call[c] EXCEPT !.left = @ \ {t}]
  <2>1. new \in CallType
    BY CallFields DEF CallType
  <2>2. call' = [call EXCEPT ![c] = new] \/ call' = [call EXCEPT ![c] = IdleCall]
    BY <1>5 DEF Authorize, DeleteTuple
  <2> HIDE DEF new
  <2> QED  BY <2>1, <2>2, CallFields
<1> QED  BY <1>1, <1>2, <1>3, <1>4, <1>5 DEF CallStep

\* Everything a request holds is well typed after each of its steps.
LEMMA CallStepTyped ==
  ASSUME RelTypeOK, NEW c \in Calls, CallStep(c)
  PROVE  RelTypeOK'
<1>1. call' \in [Calls -> CallType]
  BY CallStepStores DEF RelTypeOK
<1>2. tuples' \subseteq Tuples
  BY CallFields DEF RelTypeOK, CallStep, ReadCurrent, Authorized, InsertTuples, AfterBulkInsert,
     Answer, CallFails, Authorize, DeleteTuple
<1>3. role' = role /\ begun' = begun /\ blurred' \in BOOLEAN
  BY DEF RelTypeOK, CallStep, ReadCurrent, Authorized, InsertTuples, Answer, CallFails, Authorize,
     DeleteTuple
<1> QED  BY <1>1, <1>2, <1>3 DEF RelTypeOK

\* The role service keeps the types: who creates a role is one of the users.
LEMMA RoleStepTyped ==
  ASSUME RelTypeOK, CreatorTrusted, RoleStep
  PROVE  RelTypeOK' /\ CreatorTrusted'
<1>1. CASE GrantCreator
  <2>1. role.by \in Users
    BY <1>1, SubjectsDistinct DEF GrantCreator, CreatorTrusted
  <2>2. {Tuple(RoleAdmin, role.by), Tuple(Member, role.by)} \subseteq Tuples
    BY <2>1, RootsAbove DEF Tuples, Subjects, Roots
  <2> QED  BY <1>1, <2>2 DEF GrantCreator, AfterBulkInsert, RelTypeOK, CreatorTrusted
<1>2. CASE \E u \in Users : CreateRole(u) \/ DeleteRole(u)
  BY <1>2 DEF CreateRole, DeleteRole, RelTypeOK, CreatorTrusted
<1> QED  BY <1>1, <1>2 DEF RoleStep

-----------------------------------------------------------------------------
(* No escalation. *)

\* A new request carries what its caller may hand out, none of it authorized yet.
LEMMA BeginSafe ==
  ASSUME SafeInv, NEW c \in Calls, NEW u \in Users, NEW stage \in Stages,
         NEW want \in SUBSET Grantable, NEW drop \in SUBSET Grantable,
         NEW add \in SUBSET Grantable,
         stage = "check" \/ add = {},
         Begin(c, u, stage, want, drop, add)
  PROVE  SafeInv'
<1>1. Grantable \subseteq Tuples
  BY DEF Grantable, Tuples
<1>2. RelTypeOK'
  BY <1>1, BeginTyped DEF SafeInv
<1>3. \A d \in Calls : IF d = c THEN /\ call'[c].stage = stage /\ call'[c].actor = u
                                     /\ call'[c].want = want /\ call'[c].add = add
                                     /\ call'[c].left = drop \cup add
                                ELSE call'[d] = call[d]
  BY DEF SafeInv, RelTypeOK, Begin
<1>4. CarriesRights'
  BY <1>3 DEF SafeInv, CarriesRights, WithinCeiling, Begin
<1>5. Vetted'
  BY <1>3 DEF SafeInv, Vetted, Harmless
<1>7. ActorsKnown'
  BY <1>3 DEF SafeInv, ActorsKnown
<1>6. CreatorTrusted' /\ NoEscalation'
  BY DEF SafeInv, CreatorTrusted, NoEscalation, Begin
<1> QED  BY <1>2, <1>4, <1>5, <1>6, <1>7 DEF SafeInv

\* A request ends, or it goes on for the same caller with the same list.
Proceeds(c) ==
  \/ call'[c] = IdleCall
  \/ /\ call[c].stage # "idle" /\ call'[c].stage # "idle"
     /\ call'[c].actor = call[c].actor
     /\ call'[c].want = call[c].want
     /\ call'[c].add \subseteq call[c].add \cup call[c].want

\* What a step of a request does to the requests, whichever step it is.
LEMMA CallStepCalls ==
  ASSUME RelTypeOK, NEW c \in Calls, CallStep(c)
  PROVE  /\ \A d \in Calls \ {c} : call'[d] = call[d]
         /\ Proceeds(c)
         /\ role' = role /\ begun' = begun
<1>1. call \in [Calls -> CallType]
  BY DEF RelTypeOK
<1>2. CASE ReadCurrent(c)
  BY <1>1, <1>2 DEF ReadCurrent, CallType, Proceeds
<1>3. CASE Authorized(c)
  BY <1>1, <1>3 DEF Authorized, CallType, Proceeds
<1>4. CASE InsertTuples(c)
  BY <1>1, <1>4 DEF InsertTuples, CallType, Proceeds
<1>5. CASE Answer(c) \/ CallFails(c)
  BY <1>1, <1>5 DEF Answer, CallFails, Proceeds
<1>6. ASSUME NEW t \in call[c].left, Authorize(c, t) \/ DeleteTuple(c, t)
      PROVE  /\ \A d \in Calls \ {c} : call'[d] = call[d]
             /\ Proceeds(c)
             /\ role' = role /\ begun' = begun
  BY <1>1, <1>6 DEF Authorize, DeleteTuple, CallType, Proceeds
<1> QED  BY <1>2, <1>3, <1>4, <1>5, <1>6 DEF CallStep

\* A request inserts only what was authorized, and keeps carrying rights alone.
LEMMA CallStepSafe ==
  ASSUME SafeInv, NEW c \in Calls, CallStep(c)
  PROVE  SafeInv'
<1> USE DEF SafeInv
<1>1. RelTypeOK'
  BY CallStepTyped
<1>2. /\ \A d \in Calls \ {c} : call'[d] = call[d]
      /\ Proceeds(c)
      /\ role' = role
  BY CallStepCalls
<1>3. IdleCall.add = {} /\ IdleCall.want = {}
  BY DEF IdleCall
<1>4. ActorsKnown'
  BY <1>2 DEF ActorsKnown, Proceeds, IdleCall
<1>5. CarriesRights'
  BY <1>2, <1>3 DEF CarriesRights, WithinCeiling, Grantable, Proceeds
<1>6. Vetted'
  <2>1. \A d \in Calls \ {c} : \A t \in call'[d].add :
          Harmless(t) \/ (call'[d].stage = "check" /\ t \in call'[d].left)
    BY <1>2 DEF Vetted
  <2>2. \A t \in call'[c].add : Harmless(t) \/ (call'[c].stage = "check" /\ t \in call'[c].left)
    <3>1. CASE call'[c] = IdleCall
      BY <1>3, <3>1
    <3>2. CASE ReadCurrent(c)
      BY <3>2 DEF ReadCurrent, RelTypeOK, CallType
    <3>3. ASSUME NEW t \in call[c].left, Authorize(c, t), call'[c] # IdleCall
          PROVE  \A s \in call'[c].add : Harmless(s) \/ (call'[c].stage = "check" /\ s \in call'[c].left)
      <4>1. /\ call'[c].stage = "check" /\ call'[c].add = call[c].add
            /\ call'[c].left = call[c].left \ {t} /\ MayWrite(call[c].actor, t.right)
            /\ call[c].stage = "check"
        BY <3>3 DEF Authorize, RelTypeOK, CallType
      <4>2. t \in call[c].add => Harmless(t)
        BY <4>1, AuthorizedHarmless
      <4> QED  BY <4>1, <4>2 DEF Vetted
    <3>4. CASE Authorized(c)
      BY <3>4 DEF Authorized, Vetted, RelTypeOK, CallType
    <3>5. CASE InsertTuples(c)
      BY <3>5 DEF InsertTuples, Vetted, RelTypeOK, CallType
    <3>6. ASSUME NEW t \in call[c].left, DeleteTuple(c, t)
          PROVE  \A s \in call'[c].add : Harmless(s) \/ (call'[c].stage = "check" /\ s \in call'[c].left)
      BY <3>6 DEF DeleteTuple, Vetted, RelTypeOK, CallType
    <3>7. CASE Answer(c) \/ CallFails(c)
      BY <3>1, <3>7 DEF Answer, CallFails, RelTypeOK
    <3> QED  BY <3>1, <3>2, <3>3, <3>4, <3>5, <3>6, <3>7 DEF CallStep
  <2> QED  BY <2>1, <2>2 DEF Vetted
<1>7. NoEscalation'
  <2>1. InsertTuples(c) => \A t \in call[c].add : Harmless(t)
    BY DEF InsertTuples, Vetted
  <2>2. \A t \in tuples' : t \in tuples \/ Harmless(t)
    BY <2>1 DEF CallStep, ReadCurrent, Authorized, InsertTuples, AfterBulkInsert, Answer, CallFails,
       Authorize, DeleteTuple
  <2> QED  BY <2>2 DEF NoEscalation, Harmless
<1>8. CreatorTrusted'
  BY <1>2 DEF CreatorTrusted
<1> QED  BY <1>1, <1>4, <1>5, <1>6, <1>7, <1>8

\* The role service hands rights to the creator of the role, who is trusted.
LEMMA RoleStepSafe ==
  ASSUME SafeInv, RoleStep
  PROVE  SafeInv'
<1>1. RelTypeOK' /\ CreatorTrusted'
  BY RoleStepTyped DEF SafeInv
<1>2. call' = call
  BY DEF RoleStep, GrantCreator, CreateRole, DeleteRole
<1>3. CarriesRights' /\ Vetted' /\ ActorsKnown'
  BY <1>2 DEF SafeInv, CarriesRights, Vetted, ActorsKnown
<1>4. \A t \in tuples' : t \in tuples \/ t.sub \in Trusted
  BY DEF SafeInv, CreatorTrusted, RoleStep, GrantCreator, AfterBulkInsert, CreateRole, DeleteRole
<1>5. NoEscalation'
  BY <1>4 DEF SafeInv, NoEscalation
<1> QED  BY <1>1, <1>3, <1>5 DEF SafeInv

-----------------------------------------------------------------------------
(* What a replacement leaves behind. *)

\* A new request blurs the picture unless it is alone.
LEMMA BeginReplaces ==
  ASSUME IInv, NEW c \in Calls, NEW u \in Users, NEW stage \in Stages,
         NEW want \in SUBSET Grantable, NEW drop \in SUBSET Grantable,
         NEW add \in SUBSET Grantable,
         \/ stage = "check" /\ want = {}
         \/ stage = "read" /\ want \in Lists /\ drop = {} /\ add = {},
         Begin(c, u, stage, want, drop, add)
  PROVE  Alone' /\ ReplaceInv' /\ ListsWait'
<1>1. \A d \in Calls : IF d = c THEN /\ call'[c].stage = stage
                                     /\ call'[c].want = want /\ call'[c].add = add
                                     /\ call'[c].drop = drop /\ call'[c].left = drop \cup add
                                ELSE call'[d] = call[d]
  BY DEF IInv, SafeInv, RelTypeOK, Begin
<1>2. Alone'
  <2>1. ~blurred' => \A d \in Calls \ {c} : call[d].stage = "idle"
    BY DEF Begin
  <2> QED  BY <1>1, <2>1 DEF Alone
<1>3. ListsWait'
  BY <1>1 DEF IInv, ListsWait
<1>4. tuples' = tuples /\ (~blurred' => ~blurred)
  BY DEF Begin
<1>5. ReplaceInv'
  BY <1>1, <1>4 DEF IInv, ReplaceInv, Diffed, Progress, Diffable
<1> QED  BY <1>2, <1>3, <1>5

\* The role service touches no relationship of the resource.
LEMMA RoleStepReplaces ==
  ASSUME IInv, RoleStep
  PROVE  Alone' /\ ReplaceInv' /\ ListsWait'
<1>1. call' = call /\ blurred' = blurred
  BY DEF RoleStep, GrantCreator, CreateRole, DeleteRole
<1>2. OfRole(RoleAdmin) /\ OfRole(Member)
  BY DEF OfRole, RoleAdmin, Member, Right
<1>3. Diffable' = Diffable
  BY <1>2 DEF RoleStep, GrantCreator, AfterBulkInsert, CreateRole, DeleteRole, Diffable
<1> QED  BY <1>1, <1>3 DEF IInv, Alone, ReplaceInv, ListsWait, Diffed, Progress

\* A list and the relationships it is compared with are of the resource: nothing
\* of a difference is a root or about the role.
LEMMA DifferenceOfResource ==
  ASSUME RelTypeOK, NEW list \in Lists
  PROVE  /\ list \cup Diffable \subseteq Grantable
         /\ \A t \in list \cup Diffable : t.right.level # "member"
<1>1. Diffable \subseteq Grantable
  BY DEF RelTypeOK, Tuples, Roots, Diffable, Grantable
<1>2. \A t \in Diffable : t.right.level # "member"
  BY DEF Diffable, OfRole
<1> QED  BY <1>1, <1>2, ListsOfResource DEF Grantable, Shareable

\* What is inserted is found among the diffable relationships.
LEMMA InsertedDiffable ==
  ASSUME NEW t \in Grantable, t.right.level # "member"
  PROVE  t.right # Owner /\ t.right # RoleAdmin /\ ~OfRole(t.right)
BY RootsAbove DEF Grantable, OfRole

\* A step of a request takes it past its read.
LEMMA StepMovesOn ==
  ASSUME RelTypeOK, NEW c \in Calls, CallStep(c)
  PROVE  call'[c].stage # "read"
<1>1. call \in [Calls -> CallType] /\ IdleCall.stage = "idle"
  BY DEF RelTypeOK, IdleCall
<1>2. CASE ReadCurrent(c)
  <2>1. PICK drop, add : call' = [call EXCEPT ![c] = [@ EXCEPT
            !.stage = "check", !.base = Diffable, !.drop = drop, !.add = add,
            !.left = drop \cup add]]
    BY <1>2 DEF ReadCurrent
  <2> QED  BY <1>1, <2>1 DEF CallType
<1>3. CASE Authorized(c) \/ InsertTuples(c)
  <2>1. CASE Authorized(c)
    BY <1>1, <2>1 DEF Authorized, CallType
  <2>2. CASE InsertTuples(c)
    BY <1>1, <2>2 DEF InsertTuples, CallType
  <2> QED  BY <1>3, <2>1, <2>2
<1>4. CASE Answer(c) \/ CallFails(c)
  BY <1>1, <1>4 DEF Answer, CallFails
<1>5. CASE \E t \in call[c].left : Authorize(c, t) \/ DeleteTuple(c, t)
  BY <1>1, <1>5 DEF Authorize, DeleteTuple, CallType
<1> QED  BY <1>2, <1>3, <1>4, <1>5 DEF CallStep

\* One step of a replacement, and how far it gets while nobody else is there.
LEMMA CallStepReplaces ==
  ASSUME IInv, NEW c \in Calls, CallStep(c)
  PROVE  Alone' /\ ReplaceInv' /\ ListsWait'
<1> USE DEF IInv, SafeInv
<1>1. /\ \A d \in Calls \ {c} : call'[d] = call[d]
      /\ Proceeds(c)
  BY CallStepCalls
<1>2. blurred => blurred'
  BY DEF CallStep, ReadCurrent, Authorized, InsertTuples, Answer, CallFails, Authorize, DeleteTuple
<1>3. Alone'
  BY <1>1, <1>2 DEF Alone, Proceeds, IdleCall
<1>4. call \in [Calls -> CallType] /\ IdleCall.stage = "idle"
  BY DEF RelTypeOK, IdleCall
<1>5. ListsWait'
  <2>1. call'[c].stage # "read"
    BY StepMovesOn
  <2> QED  BY <1>1, <2>1 DEF ListsWait
<1>6. call[c].stage # "idle"
  BY DEF CallStep, ReadCurrent, Authorized, InsertTuples, Answer, CallFails, Authorize, DeleteTuple
<1>7. \A d \in Calls \ {c} : ~blurred' => call'[d].stage = "idle"
  BY <1>1, <1>2, <1>6 DEF Alone
<1>8. ASSUME call'[c].want # {}, call'[c].stage \notin {"idle", "read"}
      PROVE  Diffed(c)' /\ (~blurred' => Progress(c)')
  <2>1. CASE ReadCurrent(c)
    <3>1. /\ call'[c].base = Diffable /\ call'[c].drop = Diffable \ call[c].want
          /\ call'[c].add = call[c].want \ Diffable /\ call'[c].want = call[c].want
          /\ call'[c].stage = "check" /\ call[c].want \in Lists /\ Diffable' = Diffable
      BY <1>4, <2>1 DEF ReadCurrent, CallType, ListsWait, Diffable
    <3>2. Diffed(c)'
      BY <3>1, DifferenceOfResource DEF Diffed, Grantable
    <3> QED  BY <3>1, <3>2 DEF Progress
  <2>2. CASE ~ReadCurrent(c)
    <3>1. call[c].stage # "read" \/ CallFails(c)
      BY <2>2 DEF CallStep, Authorized, InsertTuples, Answer, Authorize, DeleteTuple
    <3>2. ~CallFails(c)
      BY <1>4, <1>8 DEF CallFails
    <3>3. call[c].want # {} /\ call'[c].want = call[c].want
      BY <1>1, <1>4, <1>8 DEF Proceeds
    <3>4. Diffed(c) /\ (~blurred' => Progress(c))
      BY <1>2, <1>6, <3>1, <3>2, <3>3 DEF ReplaceInv
    <3>5. CASE Authorized(c)
      <4>1. /\ call'[c].base = call[c].base /\ call'[c].drop = call[c].drop
            /\ call'[c].add = call[c].add /\ call'[c].left = call[c].drop
            /\ call'[c].stage = "delete" /\ call[c].stage = "check" /\ Diffable' = Diffable
        BY <1>4, <3>5 DEF Authorized, CallType, Diffable
      <4> QED  BY <3>3, <3>4, <4>1 DEF Diffed, Progress
    <3>6. CASE InsertTuples(c)
      <4>1. /\ call'[c].base = call[c].base /\ call'[c].drop = call[c].drop
            /\ call'[c].add = call[c].add /\ call'[c].stage = "answer"
            /\ call[c].stage = "delete" /\ call[c].left = {}
            /\ tuples' = AfterBulkInsert(call[c].add)
        BY <1>4, <3>6 DEF InsertTuples, CallType
      <4>2. Diffed(c)'
        BY <3>3, <3>4, <4>1 DEF Diffed
      <4>3. ASSUME Progress(c) PROVE Diffable' = call[c].want
        <5>1. Diffable = call[c].base \cap call[c].want
          BY <4>1, <4>3 DEF Progress
        <5>2. \A t \in call[c].add : t.right # Owner /\ t.right # RoleAdmin /\ ~OfRole(t.right)
          BY <3>4, InsertedDiffable DEF Diffed, Grantable
        <5>3. call[c].add \cap tuples = {}
          BY <3>4, <5>1, <5>2 DEF Diffed, Diffable
        <5>4. Diffable' = Diffable \cup call[c].add
          BY <4>1, <5>2, <5>3 DEF AfterBulkInsert, Diffable
        <5> QED  BY <3>4, <5>1, <5>4 DEF Diffed
      <4> QED  BY <3>3, <3>4, <4>1, <4>2, <4>3 DEF Progress
    <3>7. ASSUME NEW t \in call[c].left, Authorize(c, t)
          PROVE  Diffed(c)' /\ (~blurred' => Progress(c)')
      <4>1. /\ call'[c].base = call[c].base /\ call'[c].drop = call[c].drop
            /\ call'[c].add = call[c].add
            /\ call'[c].stage = "check" /\ call[c].stage = "check" /\ Diffable' = Diffable
        BY <1>4, <1>8, <3>7 DEF Authorize, CallType, Diffable
      <4> QED  BY <3>3, <3>4, <4>1 DEF Diffed, Progress
    <3>8. ASSUME NEW t \in call[c].left, DeleteTuple(c, t)
          PROVE  Diffed(c)' /\ (~blurred' => Progress(c)')
      <4>1. /\ call'[c].base = call[c].base /\ call'[c].drop = call[c].drop
            /\ call'[c].add = call[c].add /\ call'[c].left = call[c].left \ {t}
            /\ call'[c].stage = "delete" /\ call[c].stage = "delete"
            /\ Diffable' = Diffable \ {t}
        BY <1>4, <3>8 DEF DeleteTuple, CallType, Diffable
      <4>2. Progress(c) => t \notin call[c].want
        BY <3>4, <4>1 DEF Diffed, Progress
      <4> QED  BY <3>3, <3>4, <4>1, <4>2 DEF Diffed, Progress
    <3>9. ~Answer(c)
      BY <1>4, <1>8 DEF Answer
    <3> QED  BY <2>2, <3>2, <3>5, <3>6, <3>7, <3>8, <3>9 DEF CallStep
  <2> QED  BY <2>1, <2>2
<1>9. \A d \in Calls \ {c} : Diffed(d)' <=> Diffed(d)
  BY <1>1 DEF Diffed
<1>10. ReplaceInv'
  BY <1>1, <1>7, <1>8, <1>9 DEF ReplaceInv
<1> QED  BY <1>3, <1>5, <1>10

-----------------------------------------------------------------------------
(* The theorems. *)

LEMMA InitIInv == RelInit => IInv
<1> SUFFICES ASSUME RelInit PROVE IInv
  OBVIOUS
<1>1. RelTypeOK
  <2>1. PICK o \in Trusted, more \in SUBSET [right : Ceiling, sub : Targets] :
          tuples = {Tuple(Owner, o)} \cup more
    BY DEF RelInit
  <2>2. tuples \subseteq Tuples
    BY <2>1, CeilingClosed, SubjectsDistinct DEF Tuples, Subjects, Roots
  <2>3. IdleCall \in CallType
    BY DEF IdleCall, CallType, Stages
  <2>4. begun \in 0..MaxCalls
    BY MaxCallsNat DEF RelInit
  <2> QED  BY <2>2, <2>3, <2>4 DEF RelInit, RelTypeOK
<1>2. NoEscalation
  BY DEF RelInit, NoEscalation
<1>3. CarriesRights /\ Vetted /\ ActorsKnown /\ Alone /\ ReplaceInv /\ ListsWait
  BY DEF RelInit, IdleCall, CarriesRights, WithinCeiling, Vetted, ActorsKnown, Alone, ReplaceInv,
     ListsWait
<1>4. CreatorTrusted
  BY DEF RelInit, CreatorTrusted
<1> QED  BY <1>1, <1>2, <1>3, <1>4 DEF IInv, SafeInv

LEMMA StepIInv == IInv /\ [RelNext]_relVars => IInv'
<1> SUFFICES ASSUME IInv, [RelNext]_relVars PROVE IInv'
  OBVIOUS
<1>1. ASSUME NEW c \in Calls, NEW u \in Users,
             NEW drop \in SUBSET Grantable, NEW add \in SUBSET Grantable,
             Begin(c, u, "check", {}, drop, add)
      PROVE  IInv'
  BY <1>1, BeginSafe, BeginReplaces DEF IInv, Stages
<1>2. ASSUME NEW c \in Calls, NEW u \in Users, NEW list \in Lists,
             list \subseteq Grantable, Begin(c, u, "read", list, {}, {})
      PROVE  IInv'
  BY <1>2, BeginSafe, BeginReplaces DEF IInv, Stages
<1>3. ASSUME NEW c \in Calls, CallStep(c) PROVE IInv'
  BY <1>3, CallStepSafe, CallStepReplaces DEF IInv
<1>4. CASE RoleStep
  BY <1>4, RoleStepSafe, RoleStepReplaces DEF IInv
<1>5. CASE UNCHANGED relVars
  <2>1. SafeInv'
    BY <1>5 DEF relVars, IInv, SafeInv, RelTypeOK, ActorsKnown, CarriesRights, Vetted,
       CreatorTrusted, NoEscalation
  <2>2. Alone' /\ ListsWait'
    BY <1>5 DEF relVars, IInv, Alone, ListsWait
  <2>3. Diffable' = Diffable
    BY <1>5 DEF relVars, Diffable
  <2>4. ReplaceInv'
    BY <1>5, <2>3 DEF relVars, IInv, ReplaceInv, Diffed, Progress
  <2> QED  BY <2>1, <2>2, <2>4 DEF IInv
<1> QED  BY <1>1, <1>2, <1>3, <1>4, <1>5, RelNextSorted

LEMMA AlwaysIInv == RelSpec => []IInv
BY InitIInv, StepIInv, PTL DEF RelSpec

\* Stores and requests of the permission and the role service keep their types.
THEOREM RelTypeCorrect == RelSpec => []RelTypeOK
<1>1. IInv => RelTypeOK
  BY DEF IInv, SafeInv
<1> QED  BY <1>1, AlwaysIInv, PTL

\* Whatever requests are in flight and however stale their checks are by the time
\* they write, nobody but the trusted ever holds a right above the ceiling.
THEOREM NeverEscalates == RelSpec => []NoEscalation
<1>1. IInv => NoEscalation
  BY DEF IInv, SafeInv
<1> QED  BY <1>1, AlwaysIInv, PTL

\* A replacement nobody disturbs is at every point between the old and the new list.
THEOREM ReplacementBetween == RelSpec => []ReplaceBetween
<1>1. IInv => ReplaceBetween
  <2> SUFFICES ASSUME IInv, NEW c \in Calls,
                      ~blurred, call[c].want # {}, call[c].stage \notin {"idle", "read"}
               PROVE  /\ call[c].base \cap call[c].want \subseteq tuples
                      /\ Diffable \subseteq call[c].base \cup call[c].want
    BY DEF ReplaceBetween
  <2>1. Diffed(c) /\ Progress(c)
    BY DEF IInv, ReplaceInv
  <2>2. call[c].stage \in {"check", "delete", "answer"}
    BY CallFields DEF IInv, SafeInv, Stages
  <2>3. call[c].base \cap call[c].want \subseteq Diffable
    BY <2>1, <2>2 DEF Progress
  <2>4. Diffable \subseteq call[c].base \cup call[c].want
    BY <2>1, <2>2 DEF Progress, Diffed
  <2> QED  BY <2>3, <2>4 DEF Diffable
<1> QED  BY <1>1, AlwaysIInv, PTL

\* Undisturbed, it ends with exactly the new list: its batch holds no duplicate.
THEOREM ReplacementExact == RelSpec => []ReplaceExact
<1>1. IInv => ReplaceExact
  BY DEF IInv, ReplaceInv, Progress, ReplaceExact
<1> QED  BY <1>1, AlwaysIInv, PTL

=============================================================================
