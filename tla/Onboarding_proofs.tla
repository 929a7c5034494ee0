-------------------------- MODULE Onboarding_proofs --------------------------
(***************************************************************************)
(* What the migrations and the sign-ups promise, for every set of users    *)
(* and books there were before and any number of sign-ups: a death at any  *)
(* point loses no right and leaves nothing recorded that is not done, and  *)
(* a sign-up that came to its end is whole.                                *)
(***************************************************************************)
EXTENDS Onboarding, FiniteSetTheorems, WellFoundedInduction, TLAPS

-----------------------------------------------------------------------------
(* The invariant.  The boot: the migrations are recorded in their order.     *)

Applied(n) == Files[n] \in applied
Working == phase = "migrating" /\ step # "next"
\* Recorded, or about to be.
Ended(n) == Applied(n) \/ (phase = "migrating" /\ current = n /\ step = "record")
PageSteps == {"copy", "drop", "schema", "role", "grants", "assign"}
BackfillRuns == phase = "migrating" /\ current = 2 /\ step = "begin"

BootOK ==
    /\ \A n \in 1..4 : Applied(n) => \A m \in 1..n : Applied(m)
    /\ phase \in {"down", "migrating", "serving"} /\ current \in 0..4
    /\ phase # "migrating" => step = "none" /\ current = 0
    /\ phase = "serving" => Applied(4)
    /\ phase = "migrating" => step \in {"next", "begin", "record"} \cup PageSteps
    /\ phase = "migrating" /\ step = "next" => \A n \in 1..current : Applied(n)
    /\ Working => /\ current \in 1..4 /\ ~Applied(current)
                  /\ \A n \in 1..current : n < current => Applied(n)
    /\ step \in PageSteps => current = 4

(* The relation of the page administrators, and what else its migration does. *)
RightsOK ==
    /\ RightsSurvive /\ old \cup new \cup legacyRead \subseteq Legacy
    /\ step = "drop" => legacyRead \subseteq new
    /\ step \in {"role", "grants", "assign"} \/ Ended(4) => schema = "final"
    /\ step \in {"grants", "assign"} \/ Ended(4) => adminRole
    /\ step = "assign" \/ Ended(4) => grants = PageRelations

(* The users: those who sign up come after all migrations, and nobody is     *)
(* removed before the backfill is through.                                   *)
UsersOK ==
    /\ users \in Seq(UserRow)
    /\ \A i \in DOMAIN users : users[i].live => Applied(4)
    /\ \A i \in DOMAIN users : users[i].gone => Applied(2)
    /\ Ended(1) => \E i \in Present : users[i].name = "public_user"
    /\ Ended(3) => \A i, j \in Present : users[i].name = users[j].name => i = j

Humans == {i \in Present : users[i].kind = "human" /\ ~users[i].live}
FirstHuman == IF Humans = {} THEN {} ELSE {Least(Humans)}
AdminsOK ==
    /\ admins \subseteq FirstHuman
    /\ admins # {} => Applied(3)
    /\ Ended(4) => admins = FirstHuman

(* Shelves, books and rules: what is on the shelf of a user who signed up is *)
(* theirs; the users of before share the first shelf of their slug, and only *)
(* the oldest of them has default books, unless others had some before.      *)
Oldest(i) == \A h \in DOMAIN users : h < i => Slug(h) # Slug(i)
Neat(i) == users[i].live \/ EarlyDefaults(Slug(i))
ShelvesOK ==
    /\ IsFiniteSet(shelves)
    /\ \A s \in shelves :
          /\ s.owner \in DOMAIN users /\ s.slug = Slug(s.owner)
          /\ s.k \in Nat \ {0} /\ (users[s.owner].live \/ s.k = 1)
    /\ \A s, t \in shelves : s.slug = t.slug /\ s.k = t.k => s = t
BooksOK ==
    /\ books \in Seq(OwnedBook)
    /\ \A b \in DOMAIN books : books[b].owner \in {0} \cup DOMAIN users
    /\ \A b, c \in DOMAIN books :
          books[b].owner # 0 /\ books[b].slug \in Specs /\ Neat(books[b].owner)
              /\ books[c] = books[b] => b = c
    /\ \A b \in DOMAIN books :
          books[b].owner # 0 /\ books[b].slug \in Specs /\ ~users[books[b].owner].live
              /\ Neat(books[b].owner) => Oldest(books[b].owner)
ShelvedOK ==
    /\ shelved \subseteq shelves \X DOMAIN books
    /\ \A s \in shelves : \A b \in BooksOf(s) :
          /\ books[b].owner # 0
          /\ IF users[s.owner].live THEN books[b].owner = s.owner
             ELSE ~users[books[b].owner].live /\ Slug(books[b].owner) = s.slug
RulesOK ==
    /\ \A r \in rules : /\ r.shelf \in shelves /\ <<r.shelf, r.book>> \in shelved
                        /\ books[r.book].slug = Fleeting
    /\ \A q, r \in rules : q.shelf = r.shelf => q = r
HomesOK == ShelvesOK /\ BooksOK /\ ShelvedOK /\ RulesOK

(* A shelf with every default book and a rule, and a user who has one.       *)
Has(s, slug) == \E b \in DOMAIN books : <<s, b>> \in shelved /\ books[b].slug = slug
HasRule(s) == \E r \in rules : r.shelf = s
Complete(s) == HasRule(s) /\ \A slug \in Specs : Has(s, slug)
Filed(i) ==
    /\ \E s \in shelves : s.slug = Slug(i) /\ s.k = 1 /\ Complete(s)
    /\ \A b \in DOMAIN books : books[b].owner = i => \E s \in shelves : <<s, b>> \in shelved
FiledOK ==
    /\ ~BackfillRuns => job[Filing] = Resting
    /\ BackfillRuns => \A i \in DOMAIN users :
          i < job[Filing].user \/ (i = job[Filing].user /\ job[Filing].stage = "idle") => Filed(i)
    /\ Ended(2) => \A i \in DOMAIN users : ~users[i].live => Filed(i)
PasswordsOK ==
    \A i \in passwords :
        /\ i \in DOMAIN users /\ users[i].live
        /\ \E s \in shelves : s.owner = i /\ Complete(s)

(* A run of the recipe.                                                      *)
IsRun(r) == r = [stage |-> r.stage, user |-> r.user, shelf |-> r.shelf, todo |-> r.todo,
                 made |-> r.made]
Theirs(j, b) == books[b].owner = job[j].user
OnShelf(j, b) == <<job[j].shelf, b>> \in shelved
Making == {"create", "own", "bind", "rule", "password"}

WhoseOK(j) ==
    /\ job[j].user \in DOMAIN users /\ users[job[j].user].live = (j # Filing)
    /\ IF j = Filing THEN BackfillRuns /\ job[j].stage # "password"
       ELSE /\ phase = "serving" /\ job[j].user \notin passwords
            /\ job[j].stage \notin {"collect", "adopt"}
WhereOK(j) ==
    job[j].stage # "shelf" =>
        /\ job[j].shelf \in shelves /\ job[j].shelf.slug = Slug(job[j].user)
        /\ IF j = Filing THEN job[j].shelf.k = 1 /\ ~users[job[j].shelf.owner].live
           ELSE job[j].shelf.owner = job[j].user
FoundOK(j) ==
    /\ job[j].stage \notin Making => job[j].made = {}
    /\ j # Filing /\ job[j].stage = "shelf" => \A b \in DOMAIN books : ~Theirs(j, b)
    /\ job[j].stage = "adopt" =>
          /\ \A b \in job[j].todo : b \in DOMAIN books /\ Theirs(j, b)
          /\ \A b \in DOMAIN books : Theirs(j, b) => b \in job[j].todo \/ OnShelf(j, b)
    /\ job[j].stage \in {"probe"} \cup Making =>
          \A b \in DOMAIN books : Theirs(j, b) => b \in job[j].made \/ OnShelf(j, b)
MakesOK(j) ==
    job[j].stage \in Making =>
        /\ job[j].todo \subseteq Specs
        /\ \A b \in job[j].made :
              Theirs(j, b) \/ (job[j].stage = "own" /\ books[b].owner = 0)
        /\ \A b \in DOMAIN books :
              b \in job[j].made \/ Theirs(j, b) => books[b].slug \notin job[j].todo
        /\ \A b \in job[j].made : books[b].owner = 0 =>
              /\ books[b].slug \in Specs
              /\ \A c \in DOMAIN books : (c \in job[j].made \/ Theirs(j, c))
                                         /\ books[c].slug = books[b].slug => c = b
        /\ \A slug \in Specs : \/ slug \in job[j].todo \/ Has(job[j].shelf, slug)
                               \/ \E b \in job[j].made : books[b].slug = slug
        /\ j = Filing /\ (job[j].todo # {} \/ job[j].made # {}) => Oldest(job[j].user)
        /\ job[j].stage \notin {"create", "own"} => job[j].todo = {}
        /\ job[j].stage \in {"rule", "password"} => \A b \in job[j].made : OnShelf(j, b)
        /\ job[j].stage = "password" => HasRule(job[j].shelf)
RunOK(j) ==
    /\ IsRun(job[j]) /\ job[j].stage \in RecipeStages /\ job[j].made \subseteq DOMAIN books
    /\ job[j].user \in {0} \cup DOMAIN users
    /\ job[j].stage # "idle" => WhoseOK(j) /\ WhereOK(j) /\ FoundOK(j) /\ MakesOK(j)
RunsOK ==
    /\ job = [j \in Jobs |-> job[j]]
    /\ \A j \in Jobs : RunOK(j)
    /\ \A j, k \in SignUps :
          j # k /\ job[j].stage # "idle" /\ job[k].stage # "idle" => job[j].user # job[k].user
    /\ \A j, k \in Jobs : j # k => job[j].made \cap job[k].made = {}

\* The types that the parts of the invariant leave.
Plain ==
    /\ starts \in 0..MaxStarts /\ applied \subseteq {Files[i] : i \in DOMAIN Files}
    /\ schema \in {"old", "bridge", "final"} /\ grants \subseteq PageRelations

OnboardingInv ==
    /\ Plain /\ BootOK /\ RightsOK /\ UsersOK /\ AdminsOK
    /\ HomesOK /\ FiledOK /\ PasswordsOK /\ RunsOK

-----------------------------------------------------------------------------
(* Basics.                                                                   *)

\* A set of numbers that is not empty has a least one.
LEMMA LeastIs ==
    ASSUME NEW S \in SUBSET Nat, S # {}
    PROVE  Least(S) \in S /\ \A n \in S : Least(S) <= n
<1> DEFINE R == {ss \in Nat \X Nat : ss[1] < ss[2]}
<1>1. IsWellFoundedOn(R, Nat)
  BY NatLessThanWellFounded DEF OpToRel
<1>2. PICK m \in S : \A n \in S : ~ (<<n, m>> \in R)
  <2> HIDE DEF R
  <2> QED BY <1>1, WFMin
<1>3. ASSUME NEW n \in S PROVE m <= n
  <2>1. m \in Nat /\ n \in Nat /\ ~ (<<n, m>> \in R)
    BY <1>2
  <2>2. n < m => <<n, m>> \in R
    BY <2>1
  <2> HIDE DEF R
  <2> QED BY <2>1, <2>2
<1> QED BY <1>3 DEF Least

LEMMA TheFiles ==
    /\ DOMAIN Files = 1..4 /\ Len(Files) = 4
    /\ Files[1] = "auth-schema" /\ Files[2] = "bootstrap-users-shelf"
    /\ Files[3] = "unique-user-identifiers" /\ Files[4] = "add-page-administrator"
    /\ \A m, n \in 1..4 : Files[m] = Files[n] => m = n
BY DEF Files

\* Where a migration is when one of its steps can be taken.
LEMMA AtIs ==
    ASSUME BootOK, NEW file, NEW s, At(file, s)
    PROVE  /\ phase = "migrating" /\ step = s /\ current \in 1..4 /\ Files[current] = file
           /\ file = "auth-schema" => current = 1
           /\ file = "bootstrap-users-shelf" => current = 2
           /\ file = "unique-user-identifiers" => current = 3
           /\ file = "add-page-administrator" => current = 4
           /\ s # "next" => ~Applied(current) /\ \A n \in 1..4 : n < current => Applied(n)
<1>1. phase = "migrating" /\ step = s /\ current \in 1..4 /\ Files[current] = file
  BY DEF At, BootOK
<1> QED BY <1>1, TheFiles DEF BootOK, Working

\* The steps of the boot, and what they leave alone.
RecipeStep ==
    \/ EnsureShelf \/ Collect \/ Adopt
    \/ \E j \in Jobs : Recipe(j)
    \/ \E j \in SignUps : \/ \E name \in Names : SignUp(j, name)
                          \/ NewShelf(j) \/ StorePassword(j) \/ SignUpFails(j)
bootSame == UNCHANGED <<phase, starts, applied, current, step, old, new, legacyRead, schema,
                        adminRole, grants, admins>>

LEMMA RecipeFrame == ASSUME RecipeStep PROVE bootSame
BY DEF RecipeStep, EnsureShelf, Collect, Adopt, Recipe, Probe, CreateBook, OwnBook, BindBook,
       EnsureRule, SignUp, NewShelf, StorePassword, SignUpFails, bootSame, bootVars, adminVars

LEMMA BootKeeps == ASSUME BootOK, [OnboardingNext]_onboardingVars PROVE BootOK'
<1> USE DEF BootOK, Working, Applied
<1>1. CASE Boot
  BY <1>1, TheFiles DEF Boot, PageSteps
<1>2. CASE NextMigration
  <2> DEFINE pending == {j \in DOMAIN Files : j > current /\ Files[j] \notin applied}
  <2>1. pending \in SUBSET Nat /\ pending \subseteq 1..4
    BY TheFiles
  <2>2. CASE pending = {}
    <3>1. phase' = "serving" /\ step' = "none" /\ current' = 0 /\ applied' = applied
      BY <1>2, <2>2 DEF NextMigration
    <3>2. Applied(4)
      BY <1>2, <2>2, TheFiles DEF NextMigration
    <3> QED BY <3>1, <3>2 DEF PageSteps
  <2>3. CASE pending # {}
    <3>1. PICK n \in pending : n = Least(pending) /\ \A m \in pending : n <= m
      BY <2>1, <2>3, LeastIs
    <3>2. phase' = "migrating" /\ step' = "begin" /\ current' = n /\ applied' = applied
      BY <1>2, <2>3, <3>1 DEF NextMigration
    <3>3. n \in 1..4 /\ ~Applied(n) /\ \A m \in 1..n : m < n => Applied(m)
      BY <1>2, <2>1, <3>1, TheFiles DEF NextMigration
    <3> QED BY <3>2, <3>3 DEF PageSteps
  <2> QED BY <2>2, <2>3
<1>3. CASE Record
  <2>1. /\ phase' = "migrating" /\ step' = "next" /\ current' = current /\ current \in 1..4
        /\ applied' = applied \cup {Files[current]}
        /\ \A n \in 1..current : n < current => Applied(n)
    BY <1>3 DEF Record
  <2>2. \A n \in 1..4 : Applied(n)' <=> Applied(n) \/ n = current
    BY <2>1, TheFiles
  <2> QED BY <2>1, <2>2 DEF PageSteps
<1>4. CASE SeedPublicUser
  BY <1>4 DEF SeedPublicUser, At, PageSteps
<1>5. CASE Dedupe
  BY <1>5 DEF Dedupe, At, PageSteps
<1>6. CASE PageAdminStep
  <2>1. /\ phase' = phase /\ phase = "migrating" /\ step # "next" /\ current = 4
        /\ UNCHANGED <<applied, current>> /\ step' \in {"record"} \cup PageSteps
    BY <1>6, AtIs DEF PageAdminStep, ReadLegacy, CopyLegacy, DropLegacy, WriteSchema, EnsureRole,
          GrantPage, AssignFirst, PageSteps, At
  <2> QED BY <2>1 DEF PageSteps
<1>7. CASE NextUser
  BY <1>7 DEF NextUser, At, PageSteps
<1>8. CASE RecipeStep
  BY <1>8, RecipeFrame DEF bootSame
<1>9. CASE Stop
  BY <1>9 DEF Stop, Down, PageSteps
<1>10. CASE UNCHANGED onboardingVars
  BY <1>10 DEF onboardingVars, bootVars, adminVars
<1> QED BY <1>1, <1>2, <1>3, <1>4, <1>5, <1>6, <1>7, <1>8, <1>9, <1>10
        DEF OnboardingNext, BootStep, RecipeStep

-----------------------------------------------------------------------------
(* The rights.                                                               *)

LEMMA RecipeEnded ==
    ASSUME bootSame PROVE \A n : (Applied(n)' = Applied(n)) /\ (Ended(n)' = Ended(n))
BY DEF bootSame, Ended, Applied

LEMMA RightsKeep ==
    ASSUME OnboardingTypeOK, BootOK, RightsOK, [OnboardingNext]_onboardingVars
    PROVE  RightsOK'
<1> USE DEF RightsOK, RightsSurvive
<1>1. CASE /\ UNCHANGED <<applied, old, new, schema, adminRole, grants>>
           /\ legacyRead' \subseteq legacyRead
           /\ step' = "record" => step = "record" /\ current' = current /\ phase' = phase
           /\ step' \in PageSteps => step' = step
  <2>1. Ended(4)' => Ended(4)
    BY <1>1 DEF Ended, Applied
  <2> QED BY <1>1, <2>1 DEF PageSteps
<1>2. CASE Boot
  BY <1>1, <1>2 DEF Boot, PageSteps, adminVars
<1>3. CASE NextMigration
  BY <1>1, <1>3 DEF NextMigration, PageSteps, adminVars
<1>4. CASE Record
  <2>1. /\ step' = "next" /\ UNCHANGED <<phase, old, new, legacyRead, schema, adminRole, grants>>
        /\ applied' = applied \cup {Files[current]} /\ current \in 1..4 /\ step = "record"
        /\ phase = "migrating"
    BY <1>4 DEF Record, adminVars, BootOK, Working
  <2>2. Ended(4)' => Ended(4)
    BY <2>1, TheFiles DEF Ended, Applied
  <2> QED BY <2>1, <2>2 DEF PageSteps
<1>5. CASE SeedPublicUser \/ Dedupe \/ NextUser
  <2>1. /\ current' = current /\ current # 4 /\ step = "begin" /\ step' \in {"begin", "record"}
        /\ UNCHANGED <<applied, old, new, legacyRead, schema, adminRole, grants>>
    <3>1. CASE SeedPublicUser
      BY <3>1, AtIs, TheFiles DEF SeedPublicUser, adminVars
    <3>2. CASE Dedupe
      BY <3>2, AtIs, TheFiles DEF Dedupe, adminVars
    <3>3. CASE NextUser
      BY <3>3, AtIs, TheFiles DEF NextUser, adminVars
    <3> QED BY <1>5, <3>1, <3>2, <3>3
  <2>2. Ended(4)' => Ended(4)
    BY <2>1 DEF Ended, Applied
  <2> QED BY <2>1, <2>2 DEF PageSteps
<1>6. CASE PageAdminStep
  <2>1. /\ phase = "migrating" /\ current = 4 /\ UNCHANGED <<phase, current, applied>>
        /\ ~Applied(4) /\ ~Applied(4)' /\ step # "next" /\ step # "record"
    BY <1>6, AtIs DEF PageAdminStep, ReadLegacy, CopyLegacy, DropLegacy, WriteSchema, EnsureRole,
          GrantPage, AssignFirst, PageSteps, At, Applied
  <2>2. Ended(4)' <=> step' = "record"
    BY <2>1 DEF Ended
  <2>3. CASE ReadLegacy
    BY <2>1, <2>2, <2>3 DEF ReadLegacy, PageSteps
  <2>4. CASE CopyLegacy
    BY <2>1, <2>2, <2>4 DEF CopyLegacy, PageSteps, At
  <2>5. CASE DropLegacy
    BY <2>1, <2>2, <2>5 DEF DropLegacy, PageSteps, At
  <2>6. CASE WriteSchema
    BY <2>1, <2>2, <2>6 DEF WriteSchema, PageSteps, At
  <2>7. CASE EnsureRole
    BY <2>1, <2>2, <2>7 DEF EnsureRole, PageSteps, At
  <2>8. CASE GrantPage
    BY <2>1, <2>2, <2>8 DEF GrantPage, PageSteps, At, OnboardingTypeOK
  <2>9. CASE AssignFirst
    BY <2>1, <2>2, <2>9 DEF AssignFirst, PageSteps, At
  <2> QED BY <1>6, <2>3, <2>4, <2>5, <2>6, <2>7, <2>8, <2>9 DEF PageAdminStep
<1>7. CASE RecipeStep
  <2>1. bootSame
    BY <1>7, RecipeFrame
  <2> QED BY <2>1, RecipeEnded DEF bootSame
<1>8. CASE Stop
  BY <1>1, <1>8 DEF Stop, Down, PageSteps
<1>9. CASE UNCHANGED onboardingVars
  BY <1>1, <1>9 DEF onboardingVars, bootVars, adminVars
<1> QED BY <1>2, <1>3, <1>4, <1>5, <1>6, <1>7, <1>8, <1>9
        DEF OnboardingNext, BootStep, RecipeStep

\* What the migration of the page administrators has done once it is recorded.
LEMMA RightsSay ==
    ASSUME RightsOK
    PROVE  RightsSurvive /\ (Ended(4) => new = Legacy /\ old = {} /\ adminRole
                                         /\ grants = PageRelations)
BY DEF RightsOK, RightsSurvive

-----------------------------------------------------------------------------
(* The users.                                                                *)

LEMMA UserAppended ==
    ASSUME UsersOK, NEW u \in UserRow, users' = Append(users, u)
    PROVE  /\ users' \in Seq(UserRow) /\ Len(users) \in Nat /\ DOMAIN users = 1..Len(users)
           /\ Len(users) + 1 \notin DOMAIN users
           /\ DOMAIN users' = DOMAIN users \cup {Len(users) + 1}
           /\ \A i \in DOMAIN users : i \in Nat /\ i < Len(users) + 1 /\ users'[i] = users[i]
           /\ users'[Len(users) + 1] = u
BY DEF UsersOK

\* What a step does to the users: nothing, or one more, or some are removed.
LEMMA UserCases ==
    ASSUME [OnboardingNext]_onboardingVars
    PROVE  \/ UNCHANGED users
           \/ SeedPublicUser \/ Dedupe
           \/ \E j \in SignUps, name \in Names :
                 SignUp(j, name) /\ users' = Append(users, User(name, "human", TRUE))
BY DEF OnboardingNext, BootStep, Boot, NextMigration, Record, PageAdminStep, ReadLegacy,
       CopyLegacy, DropLegacy, WriteSchema, EnsureRole, GrantPage, AssignFirst, NextUser,
       EnsureShelf, Collect, Adopt, Recipe, Probe, CreateBook, OwnBook, BindBook, EnsureRule,
       SignUp, NewShelf, StorePassword, SignUpFails, Stop, Down, onboardingVars, bootVars,
       adminVars

\* A migration comes to its end by its last step, and is recorded after that.
LEMMA EndedGrows ==
    ASSUME BootOK, [OnboardingNext]_onboardingVars
    PROVE  \A n \in 1..4 :
              /\ Ended(n)' => \/ Ended(n)
                              \/ n = 1 /\ SeedPublicUser
                              \/ n = 2 /\ NextUser /\ step' = "record"
                              \/ n = 3 /\ Dedupe
                              \/ n = 4 /\ AssignFirst
              /\ Applied(n) => Applied(n)'
              /\ Applied(n)' => Ended(n)
<1>1. CASE UNCHANGED applied /\ step' # "record"
  BY <1>1 DEF Ended, Applied
<1>2. CASE bootSame
  BY <1>2 DEF bootSame, Ended, Applied
<1>3. CASE Record
  <2>1. \A n \in 1..4 : Applied(n)' <=> Applied(n) \/ n = current
    BY <1>3, TheFiles DEF Record, Applied, BootOK, Working
  <2>2. step' = "next" /\ phase = "migrating" /\ step = "record"
    BY <1>3 DEF Record
  <2>3. \A n \in 1..4 : Ended(n)' <=> Applied(n)'
    BY <2>2 DEF Ended
  <2> QED BY <2>1, <2>2, <2>3 DEF Ended
<1>4. CASE SeedPublicUser
  <2>1. UNCHANGED <<applied, current, phase>> /\ current = 1
    BY <1>4, AtIs DEF SeedPublicUser
  <2> QED BY <1>4, <2>1 DEF Ended, Applied
<1>5. CASE Dedupe
  <2>1. UNCHANGED <<applied, current, phase>> /\ current = 3
    BY <1>5, AtIs DEF Dedupe
  <2> QED BY <1>5, <2>1 DEF Ended, Applied
<1>6. CASE NextUser
  <2>1. UNCHANGED <<applied, current, phase>> /\ current = 2
    BY <1>6, AtIs DEF NextUser
  <2> QED BY <1>6, <2>1 DEF Ended, Applied
<1>7. CASE AssignFirst
  <2>1. UNCHANGED <<applied, current, phase>> /\ current = 4
    BY <1>7, AtIs DEF AssignFirst
  <2> QED BY <1>7, <2>1 DEF Ended, Applied
<1>8. CASE Boot \/ NextMigration
  BY <1>1, <1>8 DEF Boot, NextMigration
<1>9. CASE ReadLegacy \/ CopyLegacy \/ DropLegacy \/ WriteSchema \/ EnsureRole \/ GrantPage
  BY <1>1, <1>9 DEF ReadLegacy, CopyLegacy, DropLegacy, WriteSchema, EnsureRole, GrantPage, At
<1>10. CASE RecipeStep
  BY <1>2, <1>10, RecipeFrame
<1>11. CASE Stop
  BY <1>1, <1>11 DEF Stop, Down
<1>12. CASE UNCHANGED onboardingVars
  BY <1>2, <1>12 DEF onboardingVars, bootVars, adminVars, bootSame
<1> QED BY <1>3, <1>4, <1>5, <1>6, <1>7, <1>8, <1>9, <1>10, <1>11, <1>12
        DEF OnboardingNext, BootStep, PageAdminStep, RecipeStep

\* The removal of duplicates changes nothing but who is gone.
LEMMA DedupeIs ==
    ASSUME BootOK, UsersOK, Dedupe
    PROVE  /\ current = 3 /\ UNCHANGED <<applied, current>>
           /\ ~Applied(3) /\ Applied(1) /\ Applied(2)
           /\ users' \in Seq(UserRow) /\ DOMAIN users' = DOMAIN users /\ DOMAIN users \subseteq Nat
           /\ \A i \in DOMAIN users :
                /\ users'[i].name = users[i].name
                /\ users'[i].live = users[i].live /\ users'[i].kind = users[i].kind
                /\ users'[i].gone <=> \/ users[i].gone
                                      \/ \E j \in Present : j < i /\ users[j].name = users[i].name
<1> USE DEF UsersOK
<1>1. /\ users' = [i \in DOMAIN users |->
                     IF \E j \in Present : j < i /\ users[j].name = users[i].name
                     THEN [users[i] EXCEPT !.gone = TRUE] ELSE users[i]]
      /\ current = 3 /\ UNCHANGED <<applied, current>>
      /\ ~Applied(3) /\ Applied(1) /\ Applied(2)
  BY AtIs, TheFiles DEF Dedupe
<1>2. \A i \in DOMAIN users :
         /\ users[i] \in UserRow
         /\ users'[i] \in UserRow /\ users'[i].name = users[i].name
         /\ users'[i].live = users[i].live /\ users'[i].kind = users[i].kind
         /\ users'[i].gone <=> \/ users[i].gone
                               \/ \E j \in Present : j < i /\ users[j].name = users[i].name
  <2> SUFFICES ASSUME NEW i \in DOMAIN users
               PROVE  /\ users[i] \in UserRow
                      /\ users'[i] \in UserRow /\ users'[i].name = users[i].name
                      /\ users'[i].live = users[i].live /\ users'[i].kind = users[i].kind
                      /\ users'[i].gone <=>
                            \/ users[i].gone
                            \/ \E j \in Present : j < i /\ users[j].name = users[i].name
    OBVIOUS
  <2>1. PICK q \in UserRow : q = users[i]
    OBVIOUS
  <2>2. PICK d \in BOOLEAN : d <=> \E j \in Present : j < i /\ users[j].name = users[i].name
    OBVIOUS
  <2>3. users'[i] = IF d THEN [q EXCEPT !.gone = TRUE] ELSE q
    BY <1>1, <2>1, <2>2
  <2> QED BY <2>1, <2>2, <2>3 DEF UserRow
<1>3. users' \in Seq(UserRow) /\ DOMAIN users' = DOMAIN users /\ DOMAIN users \subseteq Nat
  <2>1. DOMAIN users = 1..Len(users) /\ Len(users) \in Nat
    OBVIOUS
  <2>2. users' \in [1..Len(users) -> UserRow]
    BY <1>1, <1>2, <2>1
  <2> QED BY <2>1, <2>2
<1> QED BY <1>1, <1>2, <1>3

LEMMA UsersKeep ==
    ASSUME BootOK, UsersOK, [OnboardingNext]_onboardingVars
    PROVE  UsersOK'
<1> USE DEF UsersOK
<1>1. CASE UNCHANGED users /\ ~SeedPublicUser /\ ~Dedupe
  <2>1. Present' = Present
    BY <1>1 DEF Present
  <2>2. /\ Ended(1)' => Ended(1)
        /\ Ended(3)' => Ended(3)
        /\ Applied(2) => Applied(2)'
        /\ Applied(4) => Applied(4)'
    BY <1>1, EndedGrows
  <2> QED BY <1>1, <2>1, <2>2
<1>2. CASE SeedPublicUser
  <2> DEFINE u == User("public_user", "system", FALSE)
  <2>1. u \in UserRow /\ ~u.live /\ ~u.gone /\ u.name = "public_user"
    BY OnboardingAssumption DEF User, UserRow
  <2>2. users' = Append(users, u) /\ UNCHANGED applied /\ ~Applied(1) /\ current = 1
        /\ current' = current
    BY <1>2, AtIs, TheFiles DEF SeedPublicUser
  <2>3. ~Applied(3)
    BY <2>2 DEF BootOK
  <2>4. ~Ended(3)'
    BY <2>2, <2>3 DEF Ended, Applied
  <2> HIDE DEF u
  <2>5. PICK n : n = Len(users) + 1
    OBVIOUS
  <2>6. /\ users' \in Seq(UserRow) /\ DOMAIN users' = DOMAIN users \cup {n}
        /\ users'[n] = u /\ \A i \in DOMAIN users : users'[i] = users[i]
    BY <2>1, <2>2, <2>5, UserAppended
  <2>7. n \in Present'
    BY <2>1, <2>6 DEF Present
  <2> QED BY <2>1, <2>2, <2>4, <2>6, <2>7 DEF Applied
<1>3. CASE Dedupe
  <2>1. /\ current = 3 /\ UNCHANGED <<applied, current>>
        /\ ~Applied(3) /\ Applied(1) /\ Applied(2)
    BY <1>3, DedupeIs
  <2>2. \A i \in DOMAIN users :
           /\ users'[i].name = users[i].name /\ users'[i].live = users[i].live
           /\ users'[i].gone <=> \/ users[i].gone
                                 \/ \E j \in Present : j < i /\ users[j].name = users[i].name
    BY <1>3, DedupeIs
  <2>3. users' \in Seq(UserRow) /\ DOMAIN users' = DOMAIN users /\ DOMAIN users \subseteq Nat
    BY <1>3, DedupeIs
  <2>4. \A i \in Present' : i \in Present
                            /\ ~\E j \in Present : j < i /\ users[j].name = users[i].name
    BY <2>2, <2>3 DEF Present
  <2>5. \E i \in Present' : users'[i].name = "public_user"
    <3> DEFINE P == {i \in Present : users[i].name = "public_user"}
    <3>1. P # {} /\ P \in SUBSET Nat
      BY <2>1, <2>3 DEF Ended, Present
    <3>2. PICK m \in P : \A i \in P : m <= i
      BY <3>1, LeastIs
    <3>3. ~\E j \in Present : j < m /\ users[j].name = users[m].name
      BY <3>1, <3>2
    <3>4. m \in Present'
      BY <2>2, <2>3, <3>2, <3>3 DEF Present
    <3> QED BY <2>2, <3>2, <3>4 DEF Present
  <2>6. ASSUME NEW i \in Present', NEW j \in Present', users'[i].name = users'[j].name
        PROVE  i = j
    <3>1. users[i].name = users[j].name /\ i \in Nat /\ j \in Nat
      BY <2>2, <2>3, <2>4, <2>6 DEF Present
    <3>2. ~(i < j) /\ ~(j < i)
      BY <2>4, <3>1
    <3> QED BY <3>1, <3>2
  <2>7. \A i \in DOMAIN users' : /\ users'[i].live => Applied(4)'
                                 /\ users'[i].gone => Applied(2)'
    BY <2>1, <2>2, <2>3 DEF Applied
  <2> QED BY <2>3, <2>5, <2>6, <2>7
<1>4. ASSUME NEW j \in SignUps, NEW name \in Names, SignUp(j, name),
             users' = Append(users, User(name, "human", TRUE)),
             users' # users
      PROVE  UsersOK'
  <2> DEFINE u == User(name, "human", TRUE)
  <2>1. u \in UserRow /\ u.live /\ ~u.gone /\ u.name = name
    BY OnboardingAssumption DEF User, UserRow
  <2>2. /\ UNCHANGED <<phase, current, step, applied>> /\ phase = "serving"
        /\ ~\E i \in Present : users[i].name = name
    BY <1>4 DEF SignUp
  <2>3. Applied(4) /\ Applied(2)
    BY <2>2 DEF BootOK
  <2>4. \A n \in 1..4 : Ended(n)' = Ended(n) /\ Applied(n)' = Applied(n)
    BY <2>2 DEF Ended, Applied
  <2> HIDE DEF u
  <2>5. PICK n : n = Len(users) + 1
    OBVIOUS
  <2>6. /\ users' \in Seq(UserRow) /\ DOMAIN users' = DOMAIN users \cup {n}
        /\ users'[n] = u /\ \A i \in DOMAIN users : users'[i] = users[i]
        /\ n \notin DOMAIN users
    BY <1>4, <2>1, <2>5, UserAppended DEF u
  <2>7. Present' = Present \cup {n}
    BY <2>1, <2>6 DEF Present
  <2>8. \A i \in Present : i \in DOMAIN users /\ users'[i] = users[i]
    BY <2>6 DEF Present
  <2>9. Ended(1)' => \E i \in Present' : users'[i].name = "public_user"
    BY <2>4, <2>7, <2>8
  <2>10. Ended(3)' => \A i, k \in Present' : users'[i].name = users'[k].name => i = k
    BY <2>1, <2>2, <2>4, <2>6, <2>7, <2>8
  <2> QED BY <2>1, <2>3, <2>4, <2>6, <2>9, <2>10
<1>5. SeedPublicUser \/ Dedupe \/ (UNCHANGED users /\ ~SeedPublicUser /\ ~Dedupe)
      \/ \E j \in SignUps, name \in Names :
            SignUp(j, name) /\ users' = Append(users, User(name, "human", TRUE)) /\ users' # users
  BY UserCases
<1> QED BY <1>1, <1>2, <1>3, <1>4, <1>5

\* Users are added after the others, and what they are does not change.
LEMMA UsersGrow ==
    ASSUME BootOK, UsersOK, [OnboardingNext]_onboardingVars
    PROVE  /\ DOMAIN users \subseteq DOMAIN users'
           /\ \A i \in DOMAIN users' : i \in Nat \ {0}
           /\ \A i \in DOMAIN users : /\ users'[i].name = users[i].name
                                      /\ users'[i].kind = users[i].kind
                                      /\ users'[i].live = users[i].live
                                      /\ Slug(i)' = Slug(i)
           /\ \A i \in DOMAIN users' \ DOMAIN users : \A h \in DOMAIN users : h < i
<1> SUFFICES /\ DOMAIN users \subseteq DOMAIN users'
             /\ \A i \in DOMAIN users : /\ users'[i].name = users[i].name
                                        /\ users'[i].kind = users[i].kind
                                        /\ users'[i].live = users[i].live
             /\ \A i \in DOMAIN users' \ DOMAIN users : \A h \in DOMAIN users : h < i
  <2>1. \A i \in DOMAIN users' : i \in Nat \ {0}
    BY UsersKeep DEF UsersOK
  <2>2. ASSUME NEW i \in DOMAIN users, users'[i].name = users[i].name
        PROVE  Slug(i)' = Slug(i)
    BY <2>2 DEF Slug
  <2> QED BY <2>1, <2>2
<1>1. CASE UNCHANGED users
  BY <1>1
<1>2. CASE Dedupe
  BY <1>2, DedupeIs
<1>3. CASE SeedPublicUser
  <2>1. User("public_user", "system", FALSE) \in UserRow
    BY OnboardingAssumption DEF User, UserRow
  <2> QED BY <1>3, <2>1, UserAppended DEF SeedPublicUser
<1>4. ASSUME NEW name \in Names, users' = Append(users, User(name, "human", TRUE))
      PROVE  /\ DOMAIN users \subseteq DOMAIN users'
             /\ \A i \in DOMAIN users : users'[i] = users[i]
             /\ \A i \in DOMAIN users' \ DOMAIN users : \A h \in DOMAIN users : h < i
  <2>1. User(name, "human", TRUE) \in UserRow
    BY OnboardingAssumption DEF User, UserRow
  <2> QED BY <1>4, <2>1, UserAppended
<1> QED BY <1>1, <1>2, <1>3, <1>4, UserCases

\* Nobody is the oldest of a slug who was not, and the oldest stays the oldest.
LEMMA OldestStays ==
    ASSUME BootOK, UsersOK, [OnboardingNext]_onboardingVars, NEW i \in DOMAIN users, Oldest(i)
    PROVE  Oldest(i)'
<1> SUFFICES ASSUME NEW h \in DOMAIN users', h < i PROVE Slug(h)' # Slug(i)'
  BY DEF Oldest
<1>1. h \in DOMAIN users
  <2>1. h \in Nat /\ i \in Nat /\ ~(i < h)
    BY UsersGrow
  <2> QED BY <2>1, UsersGrow
<1>2. Slug(h)' = Slug(h) /\ Slug(i)' = Slug(i)
  BY <1>1, UsersGrow
<1> QED BY <1>1, <1>2 DEF Oldest

LEMMA AdminsKeep ==
    ASSUME BootOK, UsersOK, AdminsOK, [OnboardingNext]_onboardingVars
    PROVE  AdminsOK'
<1> USE DEF AdminsOK
<1>1. ASSUME Humans' = Humans, ~AssignFirst PROVE AdminsOK'
  <2>1. FirstHuman' = FirstHuman
    BY <1>1 DEF FirstHuman
  <2>2. (Ended(4)' => Ended(4)) /\ (Applied(3) => Applied(3)')
    BY <1>1, EndedGrows
  <2>3. admins' = admins
    BY <1>1 DEF OnboardingNext, BootStep, Boot, NextMigration, Record, SeedPublicUser, Dedupe,
       PageAdminStep, ReadLegacy, CopyLegacy, DropLegacy, WriteSchema, EnsureRole, GrantPage,
       NextUser, EnsureShelf, Collect, Adopt, Recipe, Probe, CreateBook, OwnBook, BindBook,
       EnsureRule, SignUp, NewShelf, StorePassword, SignUpFails, Stop, Down, onboardingVars,
       bootVars, adminVars
  <2> QED BY <2>1, <2>2, <2>3
<1>2. CASE AssignFirst
  <2>1. /\ current = 4 /\ ~Applied(4) /\ Applied(3) /\ UNCHANGED <<users, applied, current>>
    BY <1>2, AtIs, TheFiles DEF AssignFirst
  <2>2. Humans = {i \in Present : users[i].kind = "human"}
    BY <2>1 DEF UsersOK, Humans, Present
  <2>3. admins' = admins \cup FirstHuman
    BY <1>2, <2>2 DEF AssignFirst, FirstHuman
  <2>4. FirstHuman' = FirstHuman
    BY <2>1 DEF FirstHuman, Humans, Present
  <2> QED BY <2>1, <2>3, <2>4 DEF Applied
<1>3. CASE UNCHANGED users /\ ~AssignFirst
  BY <1>1, <1>3 DEF Humans, Present
<1>4. CASE SeedPublicUser
  <2> DEFINE u == User("public_user", "system", FALSE)
  <2>1. u \in UserRow /\ u.kind # "human" /\ users' = Append(users, u)
    BY <1>4, OnboardingAssumption DEF User, UserRow, SeedPublicUser
  <2>2. /\ DOMAIN users' = DOMAIN users \cup {Len(users) + 1}
        /\ \A i \in DOMAIN users : users'[i] = users[i]
        /\ users'[Len(users) + 1] = u
    BY <2>1, UserAppended
  <2>3. Humans' = Humans
    <3> HIDE DEF u
    <3> QED BY <2>1, <2>2 DEF Humans, Present
  <2>4. ~AssignFirst
    BY <1>4, AtIs, TheFiles DEF SeedPublicUser, AssignFirst
  <2> QED BY <1>1, <2>3, <2>4
<1>5. CASE Dedupe
  <2>1. current = 3 /\ ~Applied(3) /\ UNCHANGED <<applied, current, admins>>
    BY <1>5, DedupeIs DEF Dedupe, adminVars
  <2>2. ~Applied(4)
    BY <2>1 DEF BootOK
  <2> QED BY <2>1, <2>2 DEF Ended, Applied
<1>6. ASSUME NEW j \in SignUps, NEW name \in Names, SignUp(j, name),
             users' = Append(users, User(name, "human", TRUE))
      PROVE  AdminsOK'
  <2> DEFINE u == User(name, "human", TRUE)
  <2>1. u \in UserRow /\ u.live /\ users' = Append(users, u)
    BY <1>6, OnboardingAssumption DEF User, UserRow
  <2>2. /\ DOMAIN users' = DOMAIN users \cup {Len(users) + 1}
        /\ \A i \in DOMAIN users : users'[i] = users[i]
        /\ users'[Len(users) + 1] = u
    BY <2>1, UserAppended
  <2>3. Humans' = Humans
    <3> HIDE DEF u
    <3> QED BY <2>1, <2>2 DEF Humans, Present
  <2>4. ~AssignFirst
    BY <1>6 DEF SignUp, AssignFirst, At
  <2> QED BY <1>1, <2>3, <2>4
<1> QED BY <1>2, <1>3, <1>4, <1>5, <1>6, UserCases

-----------------------------------------------------------------------------
(* Shelves, books and rules.                                                 *)

LEMMA BooksTyped ==
    ASSUME BooksOK
    PROVE  /\ Len(books) \in Nat /\ DOMAIN books = 1..Len(books)
           /\ \A b \in DOMAIN books : /\ books[b] \in OwnedBook
                                      /\ books[b] = [slug |-> books[b].slug, owner |-> books[b].owner]
<1>1. \A b \in DOMAIN books : books[b] \in OwnedBook
  BY DEF BooksOK
<1>2. \A b \in DOMAIN books : books[b] = [slug |-> books[b].slug, owner |-> books[b].owner]
  BY <1>1 DEF OwnedBook
<1> QED BY <1>1, <1>2 DEF BooksOK

\* New users change nothing of the homes there are.
LEMMA HomesFrame ==
    ASSUME BootOK, UsersOK, HomesOK, [OnboardingNext]_onboardingVars, UNCHANGED homeVars
    PROVE  HomesOK'
<1> USE DEF HomesOK
<1>0. UNCHANGED <<shelves, books, shelved, rules>> /\ \A s : BooksOf(s)' = BooksOf(s)
  BY DEF homeVars, BooksOf
<1>1. ShelvesOK'
  BY <1>0, UsersGrow DEF ShelvesOK
<1>2. BooksOK'
  <2>1. \A b \in DOMAIN books : books[b].owner \in {0} \cup DOMAIN users
    BY DEF BooksOK
  <2>2. \A b \in DOMAIN books' : books'[b].owner \in {0} \cup DOMAIN users'
    BY <1>0, <2>1, UsersGrow
  <2>3. ASSUME NEW b \in DOMAIN books, books[b].owner # 0, books[b].slug \in Specs,
               Neat(books[b].owner)'
        PROVE  /\ \A c \in DOMAIN books : books[c] = books[b] => b = c
               /\ ~users'[books[b].owner].live => Oldest(books[b].owner)'
    <3>1. PICK o \in DOMAIN users : o = books[b].owner /\ o' = o
      BY <2>1, <2>3
    <3>2. users'[o].live = users[o].live /\ Slug(o)' = Slug(o)
      BY UsersGrow
    <3>3. Neat(o)
      BY <1>0, <2>3, <3>1, <3>2 DEF Neat, Slug
    <3>4. ~users[o].live => Oldest(o)
      BY <2>3, <3>1, <3>3 DEF BooksOK
    <3>5. ~users'[o].live => Oldest(o)'
      BY <3>2, <3>4, OldestStays
    <3>6. \A c \in DOMAIN books : books[c] = books[b] => b = c
      BY <2>3, <3>1, <3>3 DEF BooksOK
    <3> QED BY <1>0, <3>1, <3>5, <3>6
  <2> QED BY <1>0, <2>2, <2>3 DEF BooksOK
<1>3. ShelvedOK'
  <2>1. shelved' \subseteq shelves' \X DOMAIN books'
    BY <1>0 DEF ShelvedOK
  <2>2. ASSUME NEW s \in shelves, NEW b \in BooksOf(s)
        PROVE  /\ books[b].owner # 0
               /\ IF users'[s.owner].live THEN books[b].owner = s.owner
                  ELSE ~users'[books[b].owner].live /\ Slug(books[b].owner)' = s.slug
    <3>1. PICK h \in DOMAIN users : h = s.owner
      BY DEF ShelvesOK
    <3>2. PICK o \in DOMAIN users : o = books[b].owner
      BY DEF BooksOK, ShelvedOK, BooksOf
    <3>3. books[b].owner # 0 /\ IF users[h].live THEN o = h ELSE ~users[o].live /\ Slug(o) = s.slug
      BY <3>1, <3>2 DEF ShelvedOK
    <3>4. users'[h].live = users[h].live /\ users'[o].live = users[o].live
          /\ Slug(o)' = Slug(o)
      BY UsersGrow
    <3>5. Slug(books[b].owner)' = Slug(o)'
      BY <1>0, <3>2 DEF Slug
    <3> QED BY <3>1, <3>2, <3>3, <3>4, <3>5
  <2> QED BY <1>0, <2>1, <2>2 DEF ShelvedOK
<1>4. RulesOK'
  BY <1>0 DEF RulesOK
<1> QED BY <1>1, <1>2, <1>3, <1>4

\* What the users are is the same in a step that leaves them alone.
LEMMA SameUsers ==
    ASSUME UNCHANGED users
    PROVE  \A i : (Slug(i)' = Slug(i)) /\ (Oldest(i)' = Oldest(i)) /\ (Neat(i)' = Neat(i))
BY DEF Slug, Oldest, Neat

LEMMA ShelvedAgain ==
    ASSUME UNCHANGED users, shelved' \subseteq shelves' \X DOMAIN books',
           \A s \in shelves' : \A b \in BooksOf(s)' :
              /\ books'[b].owner # 0
              /\ IF users[s.owner].live THEN books'[b].owner = s.owner
                 ELSE ~users[books'[b].owner].live /\ Slug(books'[b].owner) = s.slug
    PROVE  ShelvedOK'
BY DEF ShelvedOK, Slug

LEMMA ShelfAdded ==
    ASSUME HomesOK, UNCHANGED <<users, books, shelved, rules>>, NEW s,
           shelves' = shelves \cup {s},
           s \in shelves \/ /\ s.owner \in DOMAIN users /\ s.slug = Slug(s.owner)
                            /\ s.k \in Nat \ {0} /\ (users[s.owner].live \/ s.k = 1)
                            /\ \A t \in shelves : ~(t.slug = s.slug /\ t.k = s.k)
    PROVE  HomesOK'
<1> USE DEF HomesOK
<1>1. CASE s \in shelves
  <2>1. UNCHANGED <<users, books, shelved, rules, shelves>>
    BY <1>1
  <2>2. \A t : BooksOf(t)' = BooksOf(t)
    BY <2>1 DEF BooksOf
  <2>3. ShelvesOK' /\ BooksOK'
    BY <2>1, SameUsers DEF ShelvesOK, BooksOK
  <2>4. ShelvedOK' /\ RulesOK'
    BY <2>1, <2>2, SameUsers DEF ShelvedOK, RulesOK
  <2> QED BY <2>3, <2>4
<1>2. CASE s \notin shelves
  <2>1. \A t : BooksOf(t)' = BooksOf(t)
    BY DEF BooksOf
  <2>2. ShelvesOK'
    <3>1. IsFiniteSet(shelves')
      BY FS_AddElement DEF ShelvesOK
    <3> QED BY <1>2, <3>1, SameUsers DEF ShelvesOK
  <2>3. BooksOK'
    BY SameUsers DEF BooksOK
  <2>4. ShelvedOK'
    <3>1. BooksOf(s) = {}
      BY <1>2 DEF ShelvedOK, BooksOf
    <3>2. shelved' \subseteq shelves' \X DOMAIN books'
      BY DEF ShelvedOK
    <3> QED BY <2>1, <3>1, <3>2, ShelvedAgain DEF ShelvedOK
  <2>5. RulesOK'
    BY DEF RulesOK
  <2> QED BY <2>2, <2>3, <2>4, <2>5
<1> QED BY <1>1, <1>2

LEMMA BookAdded ==
    ASSUME HomesOK, UNCHANGED <<users, shelves, shelved, rules>>, NEW slug \in Specs,
           books' = Append(books, [slug |-> slug, owner |-> 0])
    PROVE  /\ HomesOK' /\ DOMAIN books' = DOMAIN books \cup {Len(books) + 1}
           /\ Len(books) + 1 \notin DOMAIN books
           /\ \A b \in DOMAIN books : books'[b] = books[b]
           /\ books'[Len(books) + 1] = [slug |-> slug, owner |-> 0]
<1> USE DEF HomesOK
<1>1. PICK n : n = Len(books) + 1
  OBVIOUS
<1>2. /\ books' \in Seq(OwnedBook) /\ DOMAIN books' = DOMAIN books \cup {n}
      /\ n \notin DOMAIN books /\ \A b \in DOMAIN books : books'[b] = books[b]
      /\ books'[n].slug = slug /\ books'[n].owner = 0
      /\ books'[n] = [slug |-> slug, owner |-> 0]
  <2>1. [slug |-> slug, owner |-> 0] \in OwnedBook
    BY DEF OwnedBook
  <2> QED BY <1>1, <2>1 DEF BooksOK
<1>3. \A s \in shelves : BooksOf(s)' = BooksOf(s)
  BY <1>2 DEF BooksOf, ShelvedOK
<1>4. ShelvesOK'
  BY SameUsers DEF ShelvesOK
<1>5. BooksOK'
  BY <1>2, SameUsers DEF BooksOK
<1>6. ShelvedOK'
  <2>1. ASSUME NEW s \in shelves, NEW b \in BooksOf(s)
        PROVE  /\ books'[b].owner # 0
               /\ IF users[s.owner].live THEN books'[b].owner = s.owner
                  ELSE ~users[books'[b].owner].live /\ Slug(books'[b].owner) = s.slug
    <3>1. books'[b] = books[b]
      BY <1>2 DEF BooksOf
    <3> QED BY <3>1 DEF ShelvedOK
  <2>2. shelved' \subseteq shelves' \X DOMAIN books'
    BY <1>2 DEF ShelvedOK
  <2> QED BY <1>3, <2>1, <2>2, ShelvedAgain
<1>7. RulesOK'
  BY <1>2 DEF RulesOK, ShelvedOK
<1> QED BY <1>1, <1>2, <1>4, <1>5, <1>6, <1>7

\* A book of a shelf's own user comes on it.
LEMMA BookShelved ==
    ASSUME HomesOK, UNCHANGED <<users, shelves, books, rules>>, NEW s \in shelves,
           NEW b \in DOMAIN books, shelved' = shelved \cup {<<s, b>>}, books[b].owner # 0,
           IF users[s.owner].live THEN books[b].owner = s.owner
           ELSE ~users[books[b].owner].live /\ Slug(books[b].owner) = s.slug
    PROVE  HomesOK'
<1> USE DEF HomesOK
<1>1. ShelvesOK' /\ BooksOK'
  BY SameUsers DEF ShelvesOK, BooksOK
<1>2. \A t \in shelves : BooksOf(t)' = IF t = s THEN BooksOf(t) \cup {b} ELSE BooksOf(t)
  BY DEF BooksOf
<1>3. ShelvedOK'
  BY <1>2, SameUsers DEF ShelvedOK
<1>4. RulesOK'
  BY DEF RulesOK
<1> QED BY <1>1, <1>3, <1>4

\* A shelf without a rule gets one.
LEMMA RuleAdded ==
    ASSUME HomesOK, UNCHANGED <<users, shelves, books, shelved>>, NEW r,
           rules' = rules \cup {r}, r.shelf \in shelves, <<r.shelf, r.book>> \in shelved,
           books[r.book].slug = Fleeting, ~HasRule(r.shelf)
    PROVE  HomesOK'
<1> USE DEF HomesOK
<1>1. ShelvesOK' /\ BooksOK'
  BY SameUsers DEF ShelvesOK, BooksOK
<1>2. \A t : BooksOf(t)' = BooksOf(t)
  BY DEF BooksOf
<1>3. ShelvedOK'
  BY <1>2, SameUsers DEF ShelvedOK
<1>4. RulesOK'
  BY DEF RulesOK, HasRule
<1> QED BY <1>1, <1>3, <1>4

-----------------------------------------------------------------------------
(* The runs of the recipe, as records.                                       *)

Run(a, i, s, t, m) == [stage |-> a, user |-> i, shelf |-> s, todo |-> t, made |-> m]

LEMMA RunSet ==
    ASSUME NEW r, IsRun(r), NEW a, NEW x
    PROVE  /\ [r EXCEPT !.stage = a] = Run(a, r.user, r.shelf, r.todo, r.made)
           /\ [r EXCEPT !.todo = x] = Run(r.stage, r.user, r.shelf, x, r.made)
           /\ [r EXCEPT !.stage = a, !.shelf = x] = Run(a, r.user, x, r.todo, r.made)
           /\ [r EXCEPT !.stage = a, !.todo = x] = Run(a, r.user, r.shelf, x, r.made)
<1> USE DEF Run
<1>1. PICK b, i, s, t, m : r = [stage |-> b, user |-> i, shelf |-> s, todo |-> t, made |-> m]
  BY DEF IsRun
<1>2. PICK q : q = [stage |-> a, user |-> i, shelf |-> s, todo |-> t, made |-> m]
  OBVIOUS
<1>3. PICK p : p = [stage |-> a, user |-> i, shelf |-> s, todo |-> x, made |-> m]
  OBVIOUS
<1>4. [r EXCEPT !.stage = a] = q
  BY <1>1, <1>2
<1>5. [q EXCEPT !.todo = x] = p
  BY <1>2, <1>3
<1>6. [q EXCEPT !.shelf = x] = [stage |-> a, user |-> i, shelf |-> x, todo |-> t, made |-> m]
  BY <1>2
<1>8. r.stage = b /\ r.user = i /\ r.shelf = s /\ r.todo = t /\ r.made = m
  BY <1>1
<1>9. [r EXCEPT !.todo = x] = [stage |-> b, user |-> i, shelf |-> s, todo |-> x, made |-> m]
  BY <1>1
<1>10. [r EXCEPT !.stage = a, !.shelf = x]
          = [stage |-> a, user |-> i, shelf |-> x, todo |-> t, made |-> m]
  BY <1>4, <1>6, Zenon
<1>11. [r EXCEPT !.stage = a, !.todo = x] = p
  BY <1>4, <1>5, Zenon
<1> QED BY <1>2, <1>3, <1>4, <1>8, <1>9, <1>10, <1>11

LEMMA StageSet ==
    ASSUME NEW r, IsRun(r), NEW a
    PROVE  [r EXCEPT !.stage = a] = Run(a, r.user, r.shelf, r.todo, r.made)
BY RunSet, Zenon

LEMMA TodoSet ==
    ASSUME NEW r, IsRun(r), NEW x
    PROVE  [r EXCEPT !.todo = x] = Run(r.stage, r.user, r.shelf, x, r.made)
BY RunSet, Zenon

LEMMA ShelfSet ==
    ASSUME NEW r, IsRun(r), NEW a, NEW x
    PROVE  [r EXCEPT !.stage = a, !.shelf = x] = Run(a, r.user, x, r.todo, r.made)
BY RunSet, Zenon

LEMMA StageTodoSet ==
    ASSUME NEW r, IsRun(r), NEW a, NEW x
    PROVE  [r EXCEPT !.stage = a, !.todo = x] = Run(a, r.user, r.shelf, x, r.made)
BY RunSet, Zenon

LEMMA RunIs ==
    ASSUME NEW a, NEW i, NEW s, NEW t, NEW m
    PROVE  /\ IsRun(Run(a, i, s, t, m))
           /\ Run(a, i, s, t, m).stage = a /\ Run(a, i, s, t, m).user = i
           /\ Run(a, i, s, t, m).shelf = s /\ Run(a, i, s, t, m).todo = t
           /\ Run(a, i, s, t, m).made = m
BY DEF Run, IsRun

LEMMA RestingIs ==
    /\ Resting = Run("idle", 0, 0, {}, {})
    /\ \A a, i : [Resting EXCEPT !.stage = a, !.user = i] = Run(a, i, 0, {}, {})
<1> SUFFICES ASSUME NEW a, NEW i
             PROVE  [Resting EXCEPT !.stage = a, !.user = i] = Run(a, i, 0, {}, {})
  BY DEF Resting, Run
<1>1. PICK q : q = Run(a, 0, 0, {}, {})
  OBVIOUS
<1>2. [Resting EXCEPT !.stage = a] = q
  BY <1>1 DEF Resting, Run
<1>3. [q EXCEPT !.user = i] = Run(a, i, 0, {}, {})
  BY <1>1 DEF Run
<1> QED BY <1>2, <1>3, Zenon

\* One run changes.
LEMMA JobSet ==
    ASSUME RunsOK, NEW j \in Jobs, NEW q, Set(j, q)
    PROVE  /\ job'[j] = q /\ \A k \in Jobs : k # j => job'[k] = job[k]
           /\ job' = [k \in Jobs |-> job'[k]]
BY DEF RunsOK, Set

-----------------------------------------------------------------------------
(* The homes, step by step.                                                  *)

\* The books a run has made come to its user; what was owned stays as it was.
Owns(j) ==
    /\ DOMAIN books' = DOMAIN books
    /\ \A b \in DOMAIN books :
          /\ books'[b].slug = books[b].slug
          /\ IF b \in job[j].made /\ books[b].owner = 0
             THEN books'[b].owner = job[j].user ELSE books'[b] = books[b]

LEMMA BooksOwned ==
    ASSUME UsersOK, HomesOK, NEW j \in Jobs, RunOK(j), OwnBook(j)
    PROVE  Owns(j) /\ HomesOK'
<1> USE DEF HomesOK
<1>1. PICK i : i = job[j].user
  OBVIOUS
<1>2. PICK made : made = job[j].made
  OBVIOUS
<1>3. /\ books' = [b \in DOMAIN books |-> IF b \in made /\ books[b].owner = 0
                                          THEN [books[b] EXCEPT !.owner = i] ELSE books[b]]
      /\ UNCHANGED <<users, shelves, shelved, rules>> /\ job[j].stage = "own"
  BY <1>1, <1>2 DEF OwnBook, bootVars
<1>4. i \in DOMAIN users /\ users[i].live = (j # Filing) /\ i \in Nat \ {0}
  BY <1>1, <1>3 DEF RunOK, WhoseOK, UsersOK
<1>5. ASSUME NEW b \in DOMAIN books
      PROVE  /\ books'[b] \in OwnedBook /\ books'[b].slug = books[b].slug
             /\ IF b \in made /\ books[b].owner = 0
                THEN books'[b].owner = i ELSE books'[b] = books[b]
             /\ books'[b] = [slug |-> books'[b].slug, owner |-> books'[b].owner]
  <2>1. PICK q \in OwnedBook : q = books[b]
    BY BooksTyped
  <2>2. q = [slug |-> q.slug, owner |-> q.owner]
    BY <2>1 DEF OwnedBook
  <2>3. [q EXCEPT !.owner = i] = [slug |-> q.slug, owner |-> i]
    BY <2>2
  <2>4. [slug |-> q.slug, owner |-> i] \in OwnedBook
    BY <1>4, <2>1 DEF OwnedBook
  <2>5. CASE b \in made /\ books[b].owner = 0
    <3>1. books'[b] = [slug |-> q.slug, owner |-> i]
      BY <1>3, <2>1, <2>3, <2>5
    <3> QED BY <2>1, <2>4, <2>5, <3>1
  <2>6. CASE ~(b \in made /\ books[b].owner = 0)
    <3>1. books'[b] = q
      BY <1>3, <2>1, <2>6
    <3> QED BY <2>1, <2>2, <2>6, <3>1
  <2> QED BY <2>5, <2>6
<1>6. DOMAIN books' = DOMAIN books
  BY <1>3
<1>7. Owns(j)
  BY <1>1, <1>2, <1>5, <1>6 DEF Owns
<1>8. books' \in Seq(OwnedBook)
  <2>1. DOMAIN books = 1..Len(books) /\ Len(books) \in Nat
    BY BooksTyped
  <2>2. books' \in [1..Len(books) -> OwnedBook]
    BY <1>3, <1>5, <2>1
  <2> QED BY <2>1, <2>2
<1>9. /\ \A b \in made : books[b].owner = i \/ books[b].owner = 0
      /\ \A b \in made : books[b].owner = 0 =>
            /\ books[b].slug \in Specs
            /\ \A c \in DOMAIN books : (c \in made \/ books[c].owner = i)
                                       /\ books[c].slug = books[b].slug => c = b
      /\ j = Filing /\ made # {} => Oldest(i)
      /\ made \subseteq DOMAIN books
  BY <1>1, <1>2, <1>3 DEF RunOK, MakesOK, Making, Theirs
<1>10. ASSUME NEW b \in DOMAIN books, NEW c \in DOMAIN books,
              books'[b].owner # 0, books'[b].slug \in Specs, Neat(books'[b].owner),
              books'[c] = books'[b]
       PROVE  b = c
  <2>1. books[c].slug = books[b].slug
    BY <1>5, <1>10
  <2>2. CASE b \in made /\ books[b].owner = 0
    <3>1. c \in made \/ books[c].owner = i
      BY <1>5, <1>10, <2>2
    <3> QED BY <1>9, <2>1, <2>2, <3>1
  <2>3. CASE c \in made /\ books[c].owner = 0
    <3>1. b \in made \/ books[b].owner = i
      BY <1>5, <1>10, <2>3
    <3> QED BY <1>9, <2>1, <2>3, <3>1
  <2>4. CASE ~(b \in made /\ books[b].owner = 0) /\ ~(c \in made /\ books[c].owner = 0)
    <3>1. books'[b] = books[b] /\ books'[c] = books[c]
      BY <1>5, <2>4
    <3> QED BY <1>10, <3>1 DEF BooksOK
  <2> QED BY <2>2, <2>3, <2>4
<1>11. ASSUME NEW b \in DOMAIN books
       PROVE  /\ books'[b].owner \in {0} \cup DOMAIN users
              /\ books'[b].owner # 0 /\ books'[b].slug \in Specs
                 /\ ~users[books'[b].owner].live /\ Neat(books'[b].owner)
                    => Oldest(books'[b].owner)
  <2>1. CASE b \in made /\ books[b].owner = 0
    <3>1. books'[b].owner = i
      BY <1>5, <2>1
    <3> QED BY <1>4, <1>9, <2>1, <3>1
  <2>2. CASE ~(b \in made /\ books[b].owner = 0)
    <3>1. books'[b] = books[b]
      BY <1>5, <2>2
    <3> QED BY <3>1 DEF BooksOK
  <2> QED BY <2>1, <2>2
<1>12. BooksOK'
  <2>1. \A b \in DOMAIN books :
           books'[b].owner # 0 /\ books'[b].slug \in Specs /\ ~users'[books'[b].owner].live
              /\ Neat(books[b].owner)' => Oldest(books[b].owner)'
    <3> SUFFICES ASSUME NEW b \in DOMAIN books, books'[b].owner # 0, books'[b].slug \in Specs,
                        ~users[books'[b].owner].live, Neat(books'[b].owner)
                 PROVE  Oldest(books[b].owner)'
      BY <1>3 DEF Neat, Slug
    <3>1. PICK o \in DOMAIN users : o = books'[b].owner
      BY <1>11
    <3>2. Oldest(o)
      BY <1>11, <3>1
    <3> QED BY <1>3, <3>1, <3>2 DEF Oldest, Slug
  <2>2. \A b, c \in DOMAIN books :
           books'[b].owner # 0 /\ books'[b].slug \in Specs /\ Neat(books[b].owner)'
              /\ books'[c] = books'[b] => b = c
    BY <1>3, <1>10 DEF Neat, Slug
  <2> QED BY <1>3, <1>6, <1>8, <1>11, <2>1, <2>2 DEF BooksOK
<1>13. \A s \in shelves : \A b \in BooksOf(s) : b \in DOMAIN books /\ books'[b] = books[b]
  BY <1>5 DEF ShelvedOK, BooksOf
<1>14. \A s : BooksOf(s)' = BooksOf(s)
  BY <1>3, <1>6 DEF BooksOf
<1>15. ShelvedOK'
  <2>1. ASSUME NEW s \in shelves, NEW b \in BooksOf(s)
        PROVE  /\ books'[b].owner # 0
               /\ IF users[s.owner].live THEN books'[b].owner = s.owner
                  ELSE ~users[books'[b].owner].live /\ Slug(books'[b].owner) = s.slug
    <3>1. books'[b] = books[b]
      BY <1>13
    <3> QED BY <3>1 DEF ShelvedOK
  <2>2. shelved' \subseteq shelves' \X DOMAIN books'
    BY <1>3, <1>6 DEF ShelvedOK
  <2> QED BY <1>3, <1>14, <2>1, <2>2, ShelvedAgain
<1>16. RulesOK'
  <2>1. \A r \in rules : r.book \in DOMAIN books
    BY DEF RulesOK, ShelvedOK
  <2> QED BY <1>3, <1>5, <2>1 DEF RulesOK
<1>17. ShelvesOK'
  BY <1>3, SameUsers DEF ShelvesOK
<1> QED BY <1>7, <1>12, <1>15, <1>16, <1>17

\* What every step leaves of the homes: rows and rules are only added, and an owner is
\* written once.
Grown ==
    /\ shelves \subseteq shelves' /\ shelved \subseteq shelved' /\ rules \subseteq rules'
    /\ DOMAIN books \subseteq DOMAIN books'
    /\ \A b \in DOMAIN books : /\ books'[b].slug = books[b].slug
                               /\ books[b].owner # 0 => books'[b] = books[b]

LEMMA GrownFrame == ASSUME UNCHANGED homeVars PROVE Grown
BY DEF homeVars, Grown

LEMMA CompleteStays ==
    ASSUME Grown, NEW s
    PROVE  /\ \A slug : Has(s, slug) => Has(s, slug)'
           /\ HasRule(s) => HasRule(s)'
           /\ Complete(s) => Complete(s)'
<1>1. \A slug : Has(s, slug) => Has(s, slug)'
  BY DEF Grown, Has
<1>2. HasRule(s) => HasRule(s)'
  BY DEF Grown, HasRule
<1> QED BY <1>1, <1>2 DEF Complete

\* Who may do what to the homes.
LEMMA NobodyYet ==
    ASSUME BootOK, UsersOK, BackfillRuns
    PROVE  \A i \in DOMAIN users : ~users[i].live /\ ~users[i].gone
BY DEF BootOK, UsersOK, BackfillRuns, Working

LEMMA EnsureShelfHomes ==
    ASSUME BootOK, UsersOK, HomesOK, RunOK(Filing), EnsureShelf
    PROVE  \E s \in shelves' :
              /\ s.slug = Slug(job[Filing].user) /\ s.k = 1 /\ ~users[s.owner].live
              /\ Set(Filing, [job[Filing] EXCEPT !.stage = "collect", !.shelf = s])
              /\ UNCHANGED <<users, books, shelved, rules>> /\ shelves' = shelves \cup {s}
              /\ HomesOK'
<1> DEFINE i == job[Filing].user
           there == {s \in shelves : s.slug = Slug(i) /\ s.k = 1}
           t == IF there = {} THEN Shelf(Slug(i), 1, i) ELSE CHOOSE q \in there : TRUE
<1>1. PICK s : s = t
  OBVIOUS
<1>2. /\ shelves' = shelves \cup {s} /\ UNCHANGED <<users, books, shelved, rules>>
      /\ Set(Filing, [job[Filing] EXCEPT !.stage = "collect", !.shelf = s])
  BY <1>1 DEF EnsureShelf, bootVars
<1>3. i \in DOMAIN users /\ ~users[i].live
  BY DEF EnsureShelf, RunOK, WhoseOK
<1>4. CASE there = {}
  <2>1. s = Shelf(Slug(i), 1, i)
    BY <1>1, <1>4
  <2>2. s.slug = Slug(i) /\ s.k = 1 /\ s.owner = i
    BY <2>1 DEF Shelf
  <2>3. \A q \in shelves : ~(q.slug = s.slug /\ q.k = s.k)
    BY <1>4, <2>2
  <2>4. HomesOK'
    BY <1>2, <1>3, <2>2, <2>3, ShelfAdded
  <2> QED BY <1>2, <1>3, <2>2, <2>4
<1>5. CASE there # {}
  <2>1. s \in there
    BY <1>1, <1>5
  <2>2. HomesOK'
    BY <1>2, <2>1, ShelfAdded
  <2>3. BackfillRuns
    BY DEF EnsureShelf, RunOK, WhoseOK
  <2>4. ~users[s.owner].live
    BY <2>1, <2>3, NobodyYet DEF HomesOK, ShelvesOK
  <2>5. s \in shelves' /\ s.slug = Slug(job[Filing].user) /\ s.k = 1
    BY <1>2, <2>1
  <2> HIDE DEF i
  <2> QED BY <1>2, <2>2, <2>4, <2>5
<1> QED BY <1>4, <1>5

LEMMA NewShelfHomes ==
    ASSUME UsersOK, HomesOK, NEW j \in SignUps, RunOK(j), NewShelf(j)
    PROVE  \E s \in shelves' :
              /\ s.slug = Slug(job[j].user) /\ s.owner = job[j].user
              /\ Set(j, [job[j] EXCEPT !.stage = "probe", !.shelf = s])
              /\ UNCHANGED <<users, books, shelved, rules>> /\ shelves' = shelves \cup {s}
              /\ HomesOK'
<1> DEFINE i == job[j].user
           slug == Slug(i)
           free == {k \in 1..Cardinality(shelves) + 1 :
                       \A q \in shelves : q.slug = slug => q.k # k}
<1>1. IsFiniteSet(shelves) /\ Cardinality(shelves) \in Nat
  BY FS_CardinalityType DEF HomesOK, ShelvesOK
<1>2. free # {}
  <2>1. SUFFICES ASSUME \A k \in 1..Cardinality(shelves) + 1 :
                           \E q \in shelves : q.slug = slug /\ q.k = k
                 PROVE  FALSE
    OBVIOUS
  <2>2. PICK n \in Nat : n = Cardinality(shelves)
    BY <1>1
  <2> DEFINE f == [k \in 1..n + 1 |-> CHOOSE q \in shelves : q.slug = slug /\ q.k = k]
  <2>3. \A k \in 1..n + 1 : f[k] \in shelves /\ f[k].k = k
    BY <2>1, <2>2
  <2>4. f \in Injection(1..n + 1, shelves)
    BY <2>3 DEF Injection, IsInjective
  <2>5. IsFiniteSet(1..n + 1) /\ Cardinality(1..n + 1) = n + 1
    BY FS_Interval
  <2>6. n + 1 <= n
    <3> HIDE DEF f
    <3> QED BY <1>1, <2>2, <2>4, <2>5, FS_Injection
  <2> QED BY <2>6
<1>3. PICK k \in free : k = Least(free)
  <2>1. free \in SUBSET Nat
    BY <1>1
  <2> QED BY <1>2, <2>1, LeastIs
<1>4. PICK s : s = Shelf(slug, k, i)
  OBVIOUS
<1>5. /\ s.slug = slug /\ s.k = k /\ s.owner = i /\ k \in Nat \ {0}
      /\ \A q \in shelves : ~(q.slug = s.slug /\ q.k = s.k)
  BY <1>1, <1>3, <1>4 DEF Shelf
<1>6. /\ shelves' = shelves \cup {s} /\ UNCHANGED <<users, books, shelved, rules>>
      /\ Set(j, [job[j] EXCEPT !.stage = "probe", !.shelf = s])
  BY <1>3, <1>4 DEF NewShelf, bootVars
<1>7. i \in DOMAIN users /\ users[i].live
  BY OnboardingAssumption DEF NewShelf, RunOK, WhoseOK
<1>8. HomesOK'
  BY <1>5, <1>6, <1>7, ShelfAdded
<1> QED BY <1>5, <1>6, <1>8

LEMMA AdoptHomes ==
    ASSUME BootOK, UsersOK, HomesOK, RunOK(Filing), Adopt
    PROVE  HomesOK' /\ Grown
<1> PICK r : r = job[Filing]
  OBVIOUS
<1>1. /\ UNCHANGED <<users, shelves, books, rules>> /\ r.stage = "adopt"
      /\ r.shelf \in shelves /\ r.shelf.slug = Slug(r.user) /\ ~users[r.shelf.owner].live
      /\ r.user \in DOMAIN users /\ ~users[r.user].live /\ r.user # 0
      /\ \A b \in r.todo : b \in DOMAIN books /\ books[b].owner = r.user
  <2>1. UNCHANGED <<users, shelves, books, rules>> /\ r.stage = "adopt"
    BY DEF Adopt, bootVars
  <2>2. WhoseOK(Filing) /\ WhereOK(Filing) /\ FoundOK(Filing)
    BY <2>1 DEF RunOK
  <2>3. r.shelf \in shelves /\ r.shelf.slug = Slug(r.user) /\ ~users[r.shelf.owner].live
    BY <2>1, <2>2 DEF WhereOK
  <2>4. r.user \in DOMAIN users /\ ~users[r.user].live /\ r.user # 0
    <3>1. r.user \in DOMAIN users /\ users[r.user].live = (Filing # Filing)
      BY <2>2 DEF WhoseOK
    <3>2. ~users[r.user].live
      BY <3>1, Zenon
    <3> QED BY <3>1, <3>2 DEF UsersOK
  <2>5. \A b \in r.todo : b \in DOMAIN books /\ books[b].owner = r.user
    BY <2>1, <2>2 DEF FoundOK, Theirs
  <2> QED BY <2>1, <2>3, <2>4, <2>5
<1>2. CASE r.todo = {}
  <2>1. UNCHANGED homeVars
    BY <1>1, <1>2 DEF Adopt, homeVars
  <2>2. HomesOK'
    BY <1>1, <2>1, SameUsers DEF HomesOK, ShelvesOK, BooksOK, ShelvedOK, BooksOf, RulesOK,
       homeVars
  <2> QED BY <2>1, <2>2, GrownFrame
<1>3. CASE r.todo # {}
  <2>1. PICK b \in r.todo :
           /\ Set(Filing, [r EXCEPT !.todo = @ \ {b}])
           /\ shelved' = IF \E s \in shelves : <<s, b>> \in shelved
                         THEN shelved ELSE shelved \cup {<<r.shelf, b>>}
    BY <1>3 DEF Adopt
  <2>2. Grown
    BY <1>1, <2>1 DEF Grown
  <2>3. HomesOK'
    <3>1. CASE \E s \in shelves : <<s, b>> \in shelved
      <4>1. UNCHANGED shelved
        BY <2>1, <3>1
      <4> QED BY <1>1, <4>1, SameUsers DEF HomesOK, ShelvesOK, BooksOK, ShelvedOK, BooksOf, RulesOK
    <3>2. CASE ~\E s \in shelves : <<s, b>> \in shelved
      <4>1. shelved' = shelved \cup {<<r.shelf, b>>}
        BY <2>1, <3>2
      <4> QED BY <1>1, <2>1, <4>1, BookShelved
    <3> QED BY <3>1, <3>2
  <2> QED BY <2>2, <2>3
<1> QED BY <1>2, <1>3

LEMMA BindBookHomes ==
    ASSUME UsersOK, HomesOK, NEW j \in Jobs, RunOK(j), BindBook(j)
    PROVE  HomesOK' /\ Grown
<1> PICK r : r = job[j]
  OBVIOUS
<1> PICK loose : loose = {b \in r.made : <<r.shelf, b>> \notin shelved}
  OBVIOUS
<1>1. /\ UNCHANGED <<users, shelves, books, rules>> /\ r.stage = "bind"
      /\ r.shelf \in shelves /\ r.shelf.slug = Slug(r.user)
      /\ IF j = Filing THEN ~users[r.shelf.owner].live ELSE r.shelf.owner = r.user
      /\ r.user \in DOMAIN users /\ users[r.user].live = (j # Filing) /\ r.user # 0
      /\ \A b \in r.made : b \in DOMAIN books /\ books[b].owner = r.user
  BY DEF BindBook, bootVars, RunOK, WhoseOK, WhereOK, MakesOK, Making, Theirs, UsersOK
<1>2. CASE loose = {}
  <2>1. UNCHANGED homeVars
    BY <1>1, <1>2 DEF BindBook, homeVars
  <2>2. HomesOK'
    BY <1>1, <2>1, SameUsers DEF HomesOK, ShelvesOK, BooksOK, ShelvedOK, BooksOf, RulesOK,
       homeVars
  <2> QED BY <2>1, <2>2, GrownFrame
<1>3. CASE loose # {}
  <2>1. PICK b \in loose : shelved' = shelved \cup {<<r.shelf, b>>}
    BY <1>3 DEF BindBook
  <2>2. Grown
    BY <1>1, <2>1 DEF Grown
  <2>3. HomesOK'
    BY <1>1, <2>1, BookShelved
  <2> QED BY <2>2, <2>3
<1> QED BY <1>2, <1>3

LEMMA EnsureRuleHomes ==
    ASSUME HomesOK, NEW j \in Jobs, RunOK(j), EnsureRule(j)
    PROVE  HomesOK' /\ Grown /\ \A s : s = job[j].shelf => Complete(s)'
<1> PICK s : s = job[j].shelf
  OBVIOUS
<1> PICK target : target = {b \in BooksOf(s) : books[b].slug = Fleeting}
  OBVIOUS
<1>1. UNCHANGED <<users, shelves, books, shelved>> /\ job[j].stage = "rule" /\ s \in shelves
  BY DEF EnsureRule, bootVars, RunOK, WhereOK
<1>2. \A slug \in Specs : Has(s, slug)
  BY <1>1 DEF RunOK, MakesOK, Making, OnShelf, Has
<1>3. PICK b \in target : b = Least(target)
  <2>1. target # {}
    BY <1>2, OnboardingAssumption DEF Has, BooksOf
  <2>2. target \in SUBSET Nat
    BY BooksTyped DEF BooksOf, HomesOK
  <2> QED BY <2>1, <2>2, LeastIs
<1>4. CASE \E r \in rules : r.shelf = s
  <2>1. UNCHANGED homeVars
    BY <1>1, <1>4 DEF EnsureRule, homeVars
  <2>2. HomesOK'
    BY <1>1, <2>1, SameUsers DEF HomesOK, ShelvesOK, BooksOK, ShelvedOK, BooksOf, RulesOK,
       homeVars
  <2>3. Complete(s)
    BY <1>2, <1>4 DEF Complete, HasRule
  <2>4. Complete(s)'
    BY <2>1, <2>3, GrownFrame, CompleteStays
  <2> QED BY <2>1, <2>2, <2>4, GrownFrame
<1>5. CASE ~\E r \in rules : r.shelf = s
  <2>1. PICK r : r = [shelf |-> s, book |-> b, n |-> Cardinality(rules)]
    OBVIOUS
  <2>2. rules' = rules \cup {r}
    BY <1>3, <1>5, <2>1 DEF EnsureRule
  <2>3. r.shelf = s /\ r.book = b /\ <<s, b>> \in shelved /\ books[b].slug = Fleeting
    BY <1>3, <2>1 DEF BooksOf
  <2>4. HomesOK'
    BY <1>1, <1>5, <2>2, <2>3, RuleAdded DEF HasRule
  <2>5. Grown
    BY <1>1, <2>2 DEF Grown
  <2>6. HasRule(s)'
    BY <2>2, <2>3 DEF HasRule
  <2>7. \A slug \in Specs : Has(s, slug)'
    BY <1>2, <2>5, CompleteStays
  <2> QED BY <2>4, <2>5, <2>6, <2>7 DEF Complete
<1> QED BY <1>4, <1>5

\* The homes are in order after every step, and nothing of them is taken back.
LEMMA HomesKeep ==
    ASSUME BootOK, UsersOK, HomesOK, RunsOK, [OnboardingNext]_onboardingVars
    PROVE  HomesOK' /\ Grown
<1>1. CASE UNCHANGED homeVars
  BY <1>1, HomesFrame, GrownFrame
<1>2. \A j \in Jobs : RunOK(j)
  BY DEF RunsOK
<1>3. Filing \in Jobs /\ SignUps \subseteq Jobs
  BY DEF Jobs
<1>4. CASE EnsureShelf
  <2>1. HomesOK' /\ UNCHANGED <<books, shelved, rules>>
    BY <1>2, <1>3, <1>4, EnsureShelfHomes
  <2>2. shelves \subseteq shelves'
    BY <1>4 DEF EnsureShelf
  <2> QED BY <2>1, <2>2 DEF Grown
<1>5. ASSUME NEW j \in SignUps, NewShelf(j) PROVE HomesOK' /\ Grown
  <2>1. HomesOK' /\ UNCHANGED <<books, shelved, rules>>
    BY <1>2, <1>3, <1>5, NewShelfHomes
  <2>2. shelves \subseteq shelves'
    BY <1>5 DEF NewShelf
  <2> QED BY <2>1, <2>2 DEF Grown
<1>6. CASE Adopt
  BY <1>2, <1>3, <1>6, AdoptHomes
<1>7. ASSUME NEW j \in Jobs, CreateBook(j) PROVE HomesOK' /\ Grown
  <2>1. CASE job[j].todo = {}
    <3>1. UNCHANGED homeVars
      BY <1>7, <2>1 DEF CreateBook, homeVars
    <3> QED BY <1>1, <3>1
  <2>2. CASE job[j].todo # {}
    <3>1. PICK slug \in job[j].todo : books' = Append(books, [slug |-> slug, owner |-> 0])
      BY <1>7, <2>2 DEF CreateBook
    <3>2. slug \in Specs
      BY <1>2, <1>7 DEF CreateBook, RunOK, MakesOK, Making
    <3>3. UNCHANGED <<users, shelves, shelved, rules>>
      BY <1>7 DEF CreateBook, bootVars
    <3>4. HomesOK' /\ DOMAIN books' = DOMAIN books \cup {Len(books) + 1}
          /\ \A b \in DOMAIN books : books'[b] = books[b]
      BY <3>1, <3>2, <3>3, BookAdded
    <3> QED BY <3>3, <3>4 DEF Grown
  <2> QED BY <2>1, <2>2
<1>8. ASSUME NEW j \in Jobs, OwnBook(j) PROVE HomesOK' /\ Grown
  <2>1. Owns(j) /\ HomesOK'
    BY <1>2, <1>8, BooksOwned
  <2>2. UNCHANGED <<shelves, shelved, rules>>
    BY <1>8 DEF OwnBook
  <2> QED BY <2>1, <2>2 DEF Owns, Grown
<1>9. ASSUME NEW j \in Jobs, BindBook(j) \/ EnsureRule(j) PROVE HomesOK' /\ Grown
  BY <1>2, <1>9, BindBookHomes, EnsureRuleHomes
<1>10. CASE (BootStep /\ UNCHANGED homeVars) \/ NextUser \/ Collect \/ Stop \/ UNCHANGED onboardingVars
  <2>1. UNCHANGED homeVars
    BY <1>10 DEF NextUser, Collect, Stop, onboardingVars, OnboardingNext
  <2> QED BY <1>1, <2>1
<1>11. ASSUME NEW j \in Jobs,
              \/ Probe(j) \/ StorePassword(j) \/ SignUpFails(j)
              \/ \E name \in Names : SignUp(j, name)
       PROVE  HomesOK' /\ Grown
  <2>1. UNCHANGED homeVars
    BY <1>11 DEF Probe, StorePassword, SignUpFails, SignUp
  <2> QED BY <1>1, <2>1
<1> QED BY <1>3, <1>4, <1>5, <1>6, <1>7, <1>8, <1>9, <1>10, <1>11 DEF OnboardingNext, Recipe

-----------------------------------------------------------------------------
(* The runs.                                                                 *)

\* A step that is not the run's own: its books are let alone, its user gets none.
Undisturbed(j) ==
    job[j].stage # "idle" =>
        /\ IF j = Filing THEN BackfillRuns'
           ELSE phase' = phase /\ job[j].user \notin passwords'
        /\ \A b \in DOMAIN books : b \in job[j].made \/ Theirs(j, b) => books'[b] = books[b]
        /\ \A b \in DOMAIN books' :
              books'[b].owner = job[j].user => b \in DOMAIN books /\ books'[b] = books[b]

LEMMA RunStays ==
    ASSUME BootOK, UsersOK, HomesOK, RunsOK, [OnboardingNext]_onboardingVars,
           NEW j \in Jobs, job'[j] = job[j], Undisturbed(j)
    PROVE  RunOK(j)'
<1>1. PICK r : r = job[j] /\ r = job'[j]
  OBVIOUS
<1>2. RunOK(j) /\ Grown
  BY HomesKeep DEF RunsOK
<1>3. /\ IsRun(r) /\ r.stage \in RecipeStages /\ r.made \subseteq DOMAIN books
      /\ r.user \in {0} \cup DOMAIN users
  BY <1>1, <1>2 DEF RunOK
<1>4. r.made \subseteq DOMAIN books' /\ r.user \in {0} \cup DOMAIN users'
  BY <1>2, <1>3, UsersGrow DEF Grown
<1>5. CASE r.stage = "idle"
  BY <1>1, <1>3, <1>4, <1>5 DEF RunOK
<1>6. CASE r.stage # "idle"
  <2>1. PICK i \in DOMAIN users : i = r.user
    BY <1>1, <1>2, <1>6 DEF RunOK, WhoseOK
  <2>2. /\ i \in DOMAIN users' /\ users'[i].live = users[i].live /\ Slug(i)' = Slug(i)
        /\ Oldest(i) => Oldest(i)'
    BY UsersGrow, OldestStays
  <2>3. /\ \A b \in DOMAIN books : b \in r.made \/ books[b].owner = i => books'[b] = books[b]
        /\ \A b \in DOMAIN books' :
              books'[b].owner = i => b \in DOMAIN books /\ books'[b] = books[b]
    BY <1>1, <1>6, <2>1 DEF Undisturbed, Theirs
  <2>4. WhoseOK(j)'
    <3>1. WhoseOK(j)
      BY <1>1, <1>2, <1>6 DEF RunOK
    <3> QED BY <1>1, <1>6, <2>1, <2>2, <3>1 DEF WhoseOK, Undisturbed
  <2>5. WhereOK(j)'
    <3> SUFFICES ASSUME r.stage # "shelf"
                 PROVE  /\ r.shelf \in shelves' /\ r.shelf.slug = Slug(i)'
                        /\ IF j = Filing THEN r.shelf.k = 1 /\ ~users'[r.shelf.owner].live
                           ELSE r.shelf.owner = i
      BY <1>1, <2>1 DEF WhereOK, Slug
    <3>1. /\ r.shelf \in shelves /\ r.shelf.slug = Slug(i)
          /\ IF j = Filing THEN r.shelf.k = 1 /\ ~users[r.shelf.owner].live
             ELSE r.shelf.owner = i
      BY <1>1, <1>2, <1>6, <2>1 DEF RunOK, WhereOK
    <3>2. r.shelf.owner \in DOMAIN users
      BY <3>1 DEF HomesOK, ShelvesOK
    <3> QED BY <1>2, <2>2, <3>1, <3>2, UsersGrow DEF Grown
  <2>6. FoundOK(j)'
    <3>1. FoundOK(j)
      BY <1>1, <1>2, <1>6 DEF RunOK
    <3>2. \A b \in DOMAIN books : <<r.shelf, b>> \in shelved => <<r.shelf, b>> \in shelved'
      BY <1>2 DEF Grown
    <3>3. /\ r.stage \notin Making => r.made = {}
          /\ j # Filing /\ r.stage = "shelf" => \A b \in DOMAIN books : books[b].owner # i
          /\ r.stage = "adopt" =>
                /\ \A b \in r.todo : b \in DOMAIN books /\ books[b].owner = i
                /\ \A b \in DOMAIN books :
                      books[b].owner = i => b \in r.todo \/ <<r.shelf, b>> \in shelved
          /\ r.stage \in {"probe"} \cup Making =>
                \A b \in DOMAIN books :
                   books[b].owner = i => b \in r.made \/ <<r.shelf, b>> \in shelved
      BY <1>1, <2>1, <3>1 DEF FoundOK, Theirs, OnShelf
    <3>4. DOMAIN books \subseteq DOMAIN books'
      BY <1>2 DEF Grown
    <3>5. /\ j # Filing /\ r.stage = "shelf" => \A b \in DOMAIN books' : books'[b].owner # i
          /\ r.stage = "adopt" =>
                /\ \A b \in r.todo : b \in DOMAIN books' /\ books'[b].owner = i
                /\ \A b \in DOMAIN books' :
                      books'[b].owner = i => b \in r.todo \/ <<r.shelf, b>> \in shelved'
          /\ r.stage \in {"probe"} \cup Making =>
                \A b \in DOMAIN books' :
                   books'[b].owner = i => b \in r.made \/ <<r.shelf, b>> \in shelved'
      BY <2>3, <3>2, <3>3, <3>4
    <3> QED BY <1>1, <2>1, <3>3, <3>5 DEF FoundOK, Theirs, OnShelf
  <2>7. MakesOK(j)'
    <3> SUFFICES ASSUME r.stage \in Making PROVE MakesOK(j)'
      BY <1>1 DEF MakesOK
    <3>1. /\ r.todo \subseteq Specs
          /\ \A b \in r.made : books[b].owner = i \/ (r.stage = "own" /\ books[b].owner = 0)
          /\ \A b \in DOMAIN books : b \in r.made \/ books[b].owner = i
                                        => books[b].slug \notin r.todo
          /\ \A b \in r.made : books[b].owner = 0 =>
                /\ books[b].slug \in Specs
                /\ \A c \in DOMAIN books : (c \in r.made \/ books[c].owner = i)
                                           /\ books[c].slug = books[b].slug => c = b
          /\ \A slug \in Specs : \/ slug \in r.todo \/ Has(r.shelf, slug)
                                 \/ \E b \in r.made : books[b].slug = slug
          /\ j = Filing /\ (r.todo # {} \/ r.made # {}) => Oldest(i)
          /\ r.stage \notin {"create", "own"} => r.todo = {}
          /\ r.stage \in {"rule", "password"} => \A b \in r.made : <<r.shelf, b>> \in shelved
          /\ r.stage = "password" => HasRule(r.shelf)
      BY <1>1, <1>2, <1>6, <2>1 DEF RunOK, MakesOK, Theirs, OnShelf
    <3>2. \A b \in r.made : b \in DOMAIN books /\ b \in DOMAIN books' /\ books'[b] = books[b]
      BY <1>3, <1>4, <2>3
    <3>3. \A b \in DOMAIN books' : b \in r.made \/ books'[b].owner = i
             => b \in DOMAIN books /\ books'[b] = books[b]
                /\ (b \in r.made \/ books[b].owner = i)
      BY <2>3, <3>2
    <3>4. \A slug \in Specs : \/ slug \in r.todo \/ Has(r.shelf, slug)'
                              \/ \E b \in r.made : books'[b].slug = slug
      <4>1. \A slug \in Specs : Has(r.shelf, slug) => Has(r.shelf, slug)'
        BY <1>2, CompleteStays
      <4> QED BY <3>1, <3>2, <4>1
    <3>5. HasRule(r.shelf) => HasRule(r.shelf)'
      BY <1>1, <1>2, CompleteStays
    <3>6. /\ \A b \in r.made : books'[b].owner = i \/ (r.stage = "own" /\ books'[b].owner = 0)
          /\ \A b \in DOMAIN books' : b \in r.made \/ books'[b].owner = i
                                         => books'[b].slug \notin r.todo
      BY <3>1, <3>2, <3>3
    <3>7. \A b \in r.made : books'[b].owner = 0 =>
             /\ books'[b].slug \in Specs
             /\ \A c \in DOMAIN books' : (c \in r.made \/ books'[c].owner = i)
                                         /\ books'[c].slug = books'[b].slug => c = b
      BY <3>1, <3>2, <3>3
    <3>8. \A b \in r.made : <<r.shelf, b>> \in shelved => <<r.shelf, b>> \in shelved'
      BY <1>2 DEF Grown
    <3> QED BY <1>1, <2>1, <2>2, <3>1, <3>4, <3>5, <3>6, <3>7, <3>8
            DEF MakesOK, Theirs, OnShelf, Has, HasRule, Oldest, Slug
  <2> QED BY <1>1, <1>3, <1>4, <2>4, <2>5, <2>6, <2>7 DEF RunOK
<1> QED BY <1>5, <1>6

\* Two runs are about two users and make different books.
LEMMA RunsApart ==
    ASSUME UsersOK, RunsOK, NEW j \in Jobs, NEW k \in Jobs, j # k,
           job[j].stage # "idle", job[k].stage # "idle"
    PROVE  /\ job[j].user # job[k].user /\ job[j].user # 0 /\ job[k].user # 0
           /\ job[j].made \cap job[k].made = {}
<1>1. WhoseOK(j) /\ WhoseOK(k)
  BY DEF RunsOK, RunOK
<1>2. /\ job[j].user \in DOMAIN users /\ users[job[j].user].live = (j # Filing)
      /\ job[k].user \in DOMAIN users /\ users[job[k].user].live = (k # Filing)
  BY <1>1 DEF WhoseOK
<1>3. job[j].user # 0 /\ job[k].user # 0
  BY <1>2 DEF UsersOK
<1>4. job[j].made \cap job[k].made = {}
  BY DEF RunsOK
<1>5. CASE j = Filing \/ k = Filing
  <2>1. (j # Filing) # (k # Filing)
    BY <1>5
  <2> QED BY <1>2, <2>1, <1>3, <1>4, Zenon
<1>6. CASE j \in SignUps /\ k \in SignUps
  BY <1>3, <1>4, <1>6 DEF RunsOK
<1> QED BY <1>3, <1>4, <1>5, <1>6 DEF Jobs

LEMMA QuietStep ==
    ASSUME UsersOK, RunsOK, UNCHANGED <<phase, current, step, passwords>>,
           NEW k \in Jobs,
           DOMAIN books \subseteq DOMAIN books',
           \A b \in DOMAIN books' : books'[b].owner # 0 \/ b \in DOMAIN books
                                       => b \in DOMAIN books /\ books'[b] = books[b]
    PROVE  Undisturbed(k)
<1> SUFFICES ASSUME job[k].stage # "idle" PROVE Undisturbed(k)
  BY DEF Undisturbed
<1>1. WhoseOK(k) /\ job[k].made \subseteq DOMAIN books
  BY DEF RunsOK, RunOK
<1>2. job[k].user # 0
  BY <1>1 DEF WhoseOK, UsersOK
<1>3. IF k = Filing THEN BackfillRuns' ELSE phase' = phase /\ job[k].user \notin passwords'
  BY <1>1 DEF WhoseOK, BackfillRuns
<1> QED BY <1>1, <1>2, <1>3 DEF Undisturbed

\* All runs are in order if the one is that takes the step.
LEMMA RunsBy ==
    ASSUME BootOK, UsersOK, HomesOK, RunsOK, [OnboardingNext]_onboardingVars,
           NEW j \in Jobs, job' = [k \in Jobs |-> job'[k]],
           \A k \in Jobs : k # j => job'[k] = job[k] /\ Undisturbed(k),
           RunOK(j)',
           \/ j = Filing \/ job'[j].stage = "idle" \/ job'[j].user \notin DOMAIN users
           \/ job'[j].user = job[j].user /\ job[j].stage # "idle",
           job'[j].made \cap DOMAIN books \subseteq job[j].made
    PROVE  RunsOK'
<1>1. ASSUME NEW k \in Jobs PROVE RunOK(k)'
  <2>1. CASE k = j
    BY <2>1
  <2>2. CASE k # j
    BY <2>2, RunStays
  <2> QED BY <2>1, <2>2
<1>2. \A k \in Jobs : /\ job[k].made \subseteq DOMAIN books
                      /\ job[k].stage # "idle" => job[k].user \in DOMAIN users
  BY DEF RunsOK, RunOK, WhoseOK
<1>3. ASSUME NEW k \in SignUps, NEW m \in SignUps, k # m, job'[k].stage # "idle",
             job'[m].stage # "idle"
      PROVE  job'[k].user # job'[m].user
  <2>1. k \in Jobs /\ m \in Jobs /\ k # Filing /\ m # Filing
    BY OnboardingAssumption DEF Jobs
  <2>2. CASE k # j /\ m # j
    BY <1>3, <2>1, <2>2 DEF RunsOK
  <2>3. CASE k = j
    <3>1. job'[m] = job[m] /\ job[m].user \in DOMAIN users
      BY <1>2, <1>3, <2>1, <2>3
    <3> QED BY <1>3, <2>1, <2>3, <3>1 DEF RunsOK
  <2>4. CASE m = j
    <3>1. job'[k] = job[k] /\ job[k].user \in DOMAIN users
      BY <1>2, <1>3, <2>1, <2>4
    <3> QED BY <1>3, <2>1, <2>4, <3>1 DEF RunsOK
  <2> QED BY <2>2, <2>3, <2>4
<1>4. ASSUME NEW k \in Jobs, NEW m \in Jobs, k # m PROVE job'[k].made \cap job'[m].made = {}
  <2>1. \A h \in Jobs : /\ h # j => job'[h].made = job[h].made
                        /\ job[h].made \subseteq DOMAIN books
    BY <1>2
  <2>2. \A h, i \in Jobs : h # i => job[h].made \cap job[i].made = {}
    BY DEF RunsOK
  <2> QED BY <1>4, <2>1, <2>2
<1> QED BY <1>1, <1>3, <1>4 DEF RunsOK

\* The run is still about its user, and about its shelf.
LEMMA SameUser ==
    ASSUME UNCHANGED <<users, phase, current, step, passwords>>, NEW j \in Jobs,
           WhoseOK(j), job'[j].user = job[j].user,
           IF j = Filing THEN job'[j].stage # "password"
           ELSE job'[j].stage \notin {"collect", "adopt"}
    PROVE  WhoseOK(j)'
BY DEF WhoseOK, BackfillRuns

LEMMA SameShelf ==
    ASSUME UNCHANGED users, shelves \subseteq shelves', NEW j \in Jobs, WhereOK(j),
           job[j].stage # "shelf", job'[j].user = job[j].user, job'[j].shelf = job[j].shelf
    PROVE  WhereOK(j)'
<1>1. PICK r : r = job[j]
  OBVIOUS
<1>2. PICK q : q = job'[j] /\ q.user = r.user /\ q.shelf = r.shelf
  BY <1>1
<1>3. Slug(r.user)' = Slug(r.user)
  BY <1>1 DEF Slug
<1>4. /\ r.shelf \in shelves /\ r.shelf.slug = Slug(r.user)
      /\ IF j = Filing THEN r.shelf.k = 1 /\ ~users[r.shelf.owner].live
         ELSE r.shelf.owner = r.user
  BY <1>1 DEF WhereOK
<1> QED BY <1>1, <1>2, <1>3, <1>4 DEF WhereOK, Slug

\* What a step of a run must show besides.
LEMMA RunAgain ==
    ASSUME UNCHANGED <<users, phase, current, step, passwords>>,
           shelves \subseteq shelves', DOMAIN books \subseteq DOMAIN books',
           NEW j \in Jobs, RunOK(j), job[j].stage # "idle",
           NEW a \in RecipeStages, NEW s, NEW t, NEW m,
           job'[j] = Run(a, job[j].user, s, t, m), m \subseteq DOMAIN books',
           IF j = Filing THEN a # "password" ELSE a \notin {"collect", "adopt"},
           (s = job[j].shelf /\ job[j].stage # "shelf") \/ WhereOK(j)',
           FoundOK(j)', MakesOK(j)'
    PROVE  RunOK(j)'
<1>1. PICK q : q = job'[j] /\ q = Run(a, job[j].user, s, t, m)
  OBVIOUS
<1>2. /\ IsRun(q) /\ q.stage = a /\ q.user = job[j].user /\ q.shelf = s /\ q.todo = t
      /\ q.made = m
  BY <1>1, RunIs
<1>3. WhoseOK(j) /\ WhereOK(j) /\ job[j].user \in DOMAIN users
  BY DEF RunOK, WhoseOK
<1>4. WhoseOK(j)'
  BY <1>1, <1>2, <1>3, SameUser
<1>5. WhereOK(j)'
  BY <1>1, <1>2, <1>3, SameShelf
<1> QED BY <1>1, <1>2, <1>3, <1>4, <1>5 DEF RunOK

LEMMA Running ==
    ASSUME UsersOK, RunsOK, NEW j \in Jobs, job[j].stage # "idle"
    PROVE  /\ RunOK(j) /\ WhoseOK(j) /\ WhereOK(j) /\ FoundOK(j) /\ MakesOK(j)
           /\ IsRun(job[j]) /\ job[j].made \subseteq DOMAIN books
           /\ job[j].user \in DOMAIN users /\ job[j].user # 0
<1>1. RunOK(j)
  BY DEF RunsOK
<1>2. /\ WhoseOK(j) /\ WhereOK(j) /\ FoundOK(j) /\ MakesOK(j)
      /\ IsRun(job[j]) /\ job[j].made \subseteq DOMAIN books
  BY <1>1 DEF RunOK
<1>3. job[j].user \in DOMAIN users
  BY <1>2 DEF WhoseOK
<1> QED BY <1>1, <1>2, <1>3 DEF UsersOK

LEMMA RestingOK ==
    ASSUME NEW j \in Jobs, job'[j] = Resting PROVE RunOK(j)' /\ job'[j].made = {}
<1>1. IsRun(Resting) /\ Resting.stage = "idle" /\ Resting.user = 0 /\ Resting.made = {}
  BY DEF Resting, IsRun
<1> QED BY <1>1 DEF RunOK, RecipeStages

\* The first steps of the migration.
LEMMA EnsureShelfRuns ==
    ASSUME BootOK, UsersOK, HomesOK, RunsOK, [OnboardingNext]_onboardingVars, EnsureShelf
    PROVE  RunsOK'
<1> Filing \in Jobs
  BY DEF Jobs
<1> PICK r : r = job[Filing]
  OBVIOUS
<1>1. RunOK(Filing) /\ r.stage = "shelf" /\ IsRun(r) /\ r.made = {}
  BY DEF RunsOK, RunOK, FoundOK, Making, EnsureShelf
<1>2. PICK s \in shelves' :
         /\ s.slug = Slug(r.user) /\ s.k = 1 /\ ~users[s.owner].live
         /\ Set(Filing, [r EXCEPT !.stage = "collect", !.shelf = s])
         /\ UNCHANGED <<users, books, shelved, rules>> /\ shelves' = shelves \cup {s}
  BY <1>1, EnsureShelfHomes
<1>3. PICK q : q = Run("collect", r.user, s, r.todo, {})
  OBVIOUS
<1>4. /\ job'[Filing] = q /\ job' = [k \in Jobs |-> job'[k]]
      /\ \A k \in Jobs : k # Filing => job'[k] = job[k]
  <2>1. [r EXCEPT !.stage = "collect", !.shelf = s] = q
    <3>1. [r EXCEPT !.stage = "collect", !.shelf = s]
             = Run("collect", r.user, s, r.todo, r.made)
      BY <1>1, ShelfSet, Zenon
    <3> QED BY <1>1, <1>3, <3>1
  <2>2. Set(Filing, q)
    BY <1>2, <2>1
  <2> QED BY <2>2, JobSet
<1>5. q.stage = "collect" /\ q.user = r.user /\ q.shelf = s /\ q.made = {}
  BY <1>3, RunIs
<1>6. UNCHANGED <<phase, current, step, passwords>>
  BY DEF EnsureShelf, bootVars
<1>7. WhereOK(Filing)'
  BY <1>2, <1>4, <1>5 DEF WhereOK, Slug
<1>8. FoundOK(Filing)' /\ MakesOK(Filing)'
  BY <1>4, <1>5 DEF FoundOK, MakesOK, Making
<1>9. RunOK(Filing)'
  <2>1. /\ UNCHANGED <<users, phase, current, step, passwords>>
        /\ shelves \subseteq shelves' /\ DOMAIN books \subseteq DOMAIN books'
    BY <1>2, <1>6
  <2>2. /\ "collect" \in RecipeStages /\ job[Filing].stage # "idle"
        /\ {} \subseteq DOMAIN books'
        /\ job'[Filing] = Run("collect", job[Filing].user, s, r.todo, {})
    BY <1>1, <1>3, <1>4 DEF RecipeStages
  <2> QED BY <1>1, <1>7, <1>8, <2>1, <2>2, RunAgain
<1>10. \A k \in Jobs : Undisturbed(k)
  BY <1>2, <1>6, QuietStep
<1> QED BY <1>1, <1>4, <1>5, <1>9, <1>10, RunsBy

LEMMA CollectRuns ==
    ASSUME BootOK, UsersOK, HomesOK, RunsOK, [OnboardingNext]_onboardingVars, Collect
    PROVE  RunsOK'
<1> Filing \in Jobs
  BY DEF Jobs
<1> PICK r : r = job[Filing]
  OBVIOUS
<1> PICK t : t = {b \in DOMAIN books : books[b].owner = r.user}
  OBVIOUS
<1>1. RunOK(Filing) /\ r.stage = "collect" /\ IsRun(r) /\ r.made = {}
  BY DEF RunsOK, RunOK, FoundOK, Making, Collect
<1>2. /\ Set(Filing, [r EXCEPT !.stage = "adopt", !.todo = t])
      /\ UNCHANGED <<users, homeVars, phase, current, step, passwords>>
  BY DEF Collect, bootVars
<1>3. PICK q : q = Run("adopt", r.user, r.shelf, t, {})
  OBVIOUS
<1>4. /\ job'[Filing] = q /\ job' = [k \in Jobs |-> job'[k]]
      /\ \A k \in Jobs : k # Filing => job'[k] = job[k]
  <2>1. [r EXCEPT !.stage = "adopt", !.todo = t] = q
    <3>1. [r EXCEPT !.stage = "adopt", !.todo = t]
             = Run("adopt", r.user, r.shelf, t, r.made)
      BY <1>1, StageTodoSet, Zenon
    <3> QED BY <1>1, <1>3, <3>1
  <2>2. Set(Filing, q)
    BY <1>2, <2>1
  <2> QED BY <2>2, JobSet
<1>5. q.stage = "adopt" /\ q.user = r.user /\ q.shelf = r.shelf /\ q.todo = t /\ q.made = {}
  BY <1>3, RunIs
<1>6. FoundOK(Filing)' /\ MakesOK(Filing)'
  BY <1>2, <1>4, <1>5 DEF FoundOK, MakesOK, Making, Theirs, homeVars
<1>7. RunOK(Filing)'
  <2>1. /\ UNCHANGED <<users, phase, current, step, passwords>>
        /\ shelves \subseteq shelves' /\ DOMAIN books \subseteq DOMAIN books'
    BY <1>2 DEF homeVars
  <2>2. /\ "adopt" \in RecipeStages /\ job[Filing].stage # "idle"
        /\ {} \subseteq DOMAIN books' /\ job[Filing].stage # "shelf"
        /\ job'[Filing] = Run("adopt", job[Filing].user, job[Filing].shelf, t, {})
    BY <1>1, <1>3, <1>4 DEF RecipeStages
  <2> QED BY <1>1, <1>6, <2>1, <2>2, RunAgain
<1>8. \A k \in Jobs : Undisturbed(k)
  BY <1>2, QuietStep DEF homeVars
<1> QED BY <1>1, <1>4, <1>5, <1>7, <1>8, RunsBy

\* On the shelf of the backfill is what it finds shelved anywhere.
LEMMA AdoptRuns ==
    ASSUME BootOK, UsersOK, HomesOK, RunsOK, [OnboardingNext]_onboardingVars, Adopt
    PROVE  RunsOK'
<1> Filing \in Jobs
  BY DEF Jobs
<1> PICK r : r = job[Filing]
  OBVIOUS
<1>1. /\ RunOK(Filing) /\ r.stage = "adopt" /\ IsRun(r) /\ r.made = {}
      /\ WhoseOK(Filing) /\ WhereOK(Filing) /\ FoundOK(Filing)
  BY DEF RunsOK, RunOK, FoundOK, Making, Adopt
<1>2. /\ r.shelf \in shelves /\ r.shelf.slug = Slug(r.user) /\ r.shelf.k = 1
      /\ BackfillRuns
      /\ \A b \in r.todo : b \in DOMAIN books /\ books[b].owner = r.user
      /\ \A b \in DOMAIN books : books[b].owner = r.user
                                    => b \in r.todo \/ <<r.shelf, b>> \in shelved
  BY <1>1 DEF WhoseOK, WhereOK, FoundOK, Theirs, OnShelf
<1>3. UNCHANGED <<users, shelves, books, phase, current, step, passwords>>
  BY DEF Adopt, bootVars
<1>4. \A k \in Jobs : Undisturbed(k)
  BY <1>3, QuietStep
<1>5. CASE r.todo = {}
  <2>1. PICK q : q = Run("probe", r.user, r.shelf, r.todo, {})
    OBVIOUS
  <2>2. q.stage = "probe" /\ q.user = r.user /\ q.shelf = r.shelf /\ q.todo = {} /\ q.made = {}
    BY <1>5, <2>1, RunIs
  <2>3. Set(Filing, q) /\ UNCHANGED shelved
    <3>1. [r EXCEPT !.stage = "probe"] = q
      BY <1>1, <2>1, StageSet
    <3> QED BY <1>5, <3>1 DEF Adopt, Go
  <2>4. /\ job'[Filing] = q /\ job' = [k \in Jobs |-> job'[k]]
        /\ \A k \in Jobs : k # Filing => job'[k] = job[k]
    BY <2>3, JobSet
  <2>5. FoundOK(Filing)' /\ MakesOK(Filing)'
    BY <1>2, <1>3, <1>5, <2>2, <2>3, <2>4 DEF FoundOK, MakesOK, Making, Theirs, OnShelf
  <2>6. RunOK(Filing)'
    BY <1>1, <1>3, <2>1, <2>4, <2>5, RunAgain DEF RecipeStages
  <2> QED BY <1>1, <1>4, <2>2, <2>4, <2>6, RunsBy
<1>6. CASE r.todo # {}
  <2>1. PICK b \in r.todo :
           /\ Set(Filing, [r EXCEPT !.todo = r.todo \ {b}])
           /\ shelved' = IF \E s \in shelves : <<s, b>> \in shelved
                         THEN shelved ELSE shelved \cup {<<r.shelf, b>>}
    BY <1>6 DEF Adopt
  <2>2. PICK q : q = Run("adopt", r.user, r.shelf, r.todo \ {b}, {})
    OBVIOUS
  <2>3. /\ q.stage = "adopt" /\ q.user = r.user /\ q.shelf = r.shelf /\ q.made = {}
        /\ q.todo = r.todo \ {b}
    BY <2>2, RunIs
  <2>4. Set(Filing, q)
    <3>1. [r EXCEPT !.todo = r.todo \ {b}] = q
      BY <1>1, <2>2, TodoSet
    <3> QED BY <2>1, <3>1
  <2>5. /\ job'[Filing] = q /\ job' = [k \in Jobs |-> job'[k]]
        /\ \A k \in Jobs : k # Filing => job'[k] = job[k]
    BY <2>4, JobSet
  <2>6. shelved \subseteq shelved'
    BY <2>1
  <2>7. <<r.shelf, b>> \in shelved'
    <3>1. CASE \E s \in shelves : <<s, b>> \in shelved
      <4>1. PICK s \in shelves : <<s, b>> \in shelved
        BY <3>1
      <4>2. PICK h \in DOMAIN users : h = s.owner
        BY DEF HomesOK, ShelvesOK
      <4>3. b \in BooksOf(s) /\ books[b].owner = r.user
        BY <1>2, <4>1 DEF BooksOf
      <4>4. ~users[h].live
        BY <1>2, NobodyYet
      <4>5. s.k = 1 /\ s.slug = Slug(r.user)
        BY <4>2, <4>3, <4>4 DEF HomesOK, ShelvesOK, ShelvedOK
      <4>6. s = r.shelf
        BY <1>2, <4>5 DEF HomesOK, ShelvesOK
      <4> QED BY <2>6, <4>1, <4>6
    <3>2. CASE ~\E s \in shelves : <<s, b>> \in shelved
      BY <2>1, <3>2
    <3> QED BY <3>1, <3>2
  <2>8. FoundOK(Filing)' /\ MakesOK(Filing)'
    BY <1>2, <1>3, <2>3, <2>5, <2>6, <2>7 DEF FoundOK, MakesOK, Making, Theirs, OnShelf
  <2>9. RunOK(Filing)'
    <3>1. job'[Filing] = Run("adopt", job[Filing].user, job[Filing].shelf, r.todo \ {b}, {})
      BY <2>2, <2>5
    <3> QED BY <1>1, <1>3, <2>8, <3>1, RunAgain DEF RecipeStages
  <2> QED BY <1>1, <1>4, <2>3, <2>5, <2>9, RunsBy
<1> QED BY <1>5, <1>6

\* A sign-up puts a new shelf up, and it has no books yet.
LEMMA NewShelfRuns ==
    ASSUME BootOK, UsersOK, HomesOK, RunsOK, [OnboardingNext]_onboardingVars,
           NEW j \in SignUps, NewShelf(j)
    PROVE  RunsOK'
<1> j \in Jobs /\ j # Filing
  BY OnboardingAssumption DEF Jobs
<1> PICK r : r = job[j]
  OBVIOUS
<1>1. /\ RunOK(j) /\ r.stage = "shelf" /\ IsRun(r) /\ r.made = {}
      /\ \A b \in DOMAIN books : books[b].owner # r.user
  BY DEF RunsOK, RunOK, FoundOK, Making, NewShelf, Theirs
<1>2. PICK s \in shelves' :
         /\ s.slug = Slug(r.user) /\ s.owner = r.user
         /\ Set(j, [r EXCEPT !.stage = "probe", !.shelf = s])
         /\ UNCHANGED <<users, books, shelved, rules>> /\ shelves' = shelves \cup {s}
  BY <1>1, NewShelfHomes
<1>3. PICK q : q = Run("probe", r.user, s, r.todo, {})
  OBVIOUS
<1>4. /\ job'[j] = q /\ job' = [k \in Jobs |-> job'[k]]
      /\ \A k \in Jobs : k # j => job'[k] = job[k]
  <2>1. [r EXCEPT !.stage = "probe", !.shelf = s] = q
    <3>1. [r EXCEPT !.stage = "probe", !.shelf = s]
             = Run("probe", r.user, s, r.todo, r.made)
      BY <1>1, ShelfSet, Zenon
    <3> QED BY <1>1, <1>3, <3>1
  <2>2. Set(j, q)
    BY <1>2, <2>1
  <2> QED BY <2>2, JobSet
<1>5. q.stage = "probe" /\ q.user = r.user /\ q.shelf = s /\ q.made = {}
  BY <1>3, RunIs
<1>6. UNCHANGED <<phase, current, step, passwords>>
  BY DEF NewShelf, bootVars
<1>7. WhereOK(j)'
  BY <1>2, <1>4, <1>5 DEF WhereOK, Slug
<1>8. FoundOK(j)' /\ MakesOK(j)'
  BY <1>1, <1>2, <1>4, <1>5 DEF FoundOK, MakesOK, Making, Theirs
<1>9. RunOK(j)'
  <2>1. job'[j] = Run("probe", job[j].user, s, r.todo, {})
    BY <1>3, <1>4
  <2> QED BY <1>1, <1>2, <1>6, <1>7, <1>8, <2>1, RunAgain DEF RecipeStages
<1>10. \A k \in Jobs : Undisturbed(k)
  BY <1>2, <1>6, QuietStep
<1> QED BY <1>1, <1>4, <1>5, <1>9, <1>10, RunsBy

-----------------------------------------------------------------------------
(* The recipe itself.                                                        *)

\* The backfill makes no default book for any but the oldest user of a slug: the others
\* find the shelf complete.
LEMMA ProbeRuns ==
    ASSUME BootOK, UsersOK, HomesOK, FiledOK, RunsOK, [OnboardingNext]_onboardingVars,
           NEW j \in Jobs, Probe(j)
    PROVE  RunsOK'
<1> PICK r : r = job[j]
  OBVIOUS
<1> PICK t : t = Specs \ {books[b].slug : b \in BooksOf(r.shelf)}
  OBVIOUS
<1>1. /\ RunOK(j) /\ r.stage = "probe" /\ IsRun(r) /\ r.made = {}
      /\ WhoseOK(j) /\ WhereOK(j) /\ FoundOK(j)
  BY DEF RunsOK, RunOK, FoundOK, Making, Probe
<1>2. /\ Set(j, [r EXCEPT !.stage = "create", !.todo = t])
      /\ UNCHANGED <<users, homeVars, phase, current, step, passwords>>
  BY DEF Probe, bootVars
<1>3. PICK q : q = Run("create", r.user, r.shelf, t, {})
  OBVIOUS
<1>4. /\ job'[j] = q /\ job' = [k \in Jobs |-> job'[k]]
      /\ \A k \in Jobs : k # j => job'[k] = job[k]
  <2>1. [r EXCEPT !.stage = "create", !.todo = t] = q
    <3>1. [r EXCEPT !.stage = "create", !.todo = t] = Run("create", r.user, r.shelf, t, r.made)
      BY <1>1, StageTodoSet, Zenon
    <3> QED BY <1>1, <1>3, <3>1
  <2>2. Set(j, q)
    BY <1>2, <2>1
  <2> QED BY <2>2, JobSet
<1>5. /\ q.stage = "create" /\ q.user = r.user /\ q.shelf = r.shelf /\ q.todo = t
      /\ q.made = {}
  BY <1>3, RunIs
<1>6. \A b \in DOMAIN books : books[b].owner = r.user => <<r.shelf, b>> \in shelved
  BY <1>1 DEF FoundOK, Theirs, OnShelf
<1>7. \A b \in DOMAIN books : books[b].owner = r.user => books[b].slug \notin t
  BY <1>6 DEF BooksOf
<1>8. \A slug \in Specs : slug \in t \/ Has(r.shelf, slug)
  BY DEF BooksOf, Has
<1>9. j = Filing /\ t # {} => Oldest(r.user)
  <2> SUFFICES ASSUME j = Filing, t # {}, NEW h \in DOMAIN users, h < r.user,
                      Slug(h) = Slug(r.user)
               PROVE  FALSE
    BY DEF Oldest
  <2>1. BackfillRuns /\ r.shelf \in shelves /\ r.shelf.slug = Slug(r.user) /\ r.shelf.k = 1
    BY <1>1 DEF WhoseOK, WhereOK
  <2>2. Filed(h)
    BY <2>1 DEF FiledOK
  <2>3. PICK s \in shelves : s.slug = Slug(h) /\ s.k = 1 /\ Complete(s)
    BY <2>2 DEF Filed
  <2>4. s = r.shelf
    BY <2>1, <2>3 DEF HomesOK, ShelvesOK
  <2>5. \A slug \in Specs : \E b \in BooksOf(r.shelf) : books[b].slug = slug
    BY <2>3, <2>4 DEF Complete, Has, BooksOf
  <2> QED BY <2>5
<1>10. FoundOK(j)'
  BY <1>2, <1>4, <1>5, <1>6 DEF FoundOK, Making, Theirs, OnShelf, homeVars
<1>11. MakesOK(j)'
  <2>1. t \subseteq Specs
    OBVIOUS
  <2>2. \A b \in DOMAIN books : Theirs(j, b)' => books[b].slug \notin t
    BY <1>2, <1>4, <1>5, <1>7 DEF Theirs, homeVars
  <2>3. \A slug \in Specs : slug \in t \/ Has(r.shelf, slug)'
    BY <1>2, <1>8 DEF Has, homeVars
  <2>4. j = Filing /\ t # {} => Oldest(r.user)'
    BY <1>2, <1>9 DEF Oldest, Slug
  <2>5. books' = books
    BY <1>2 DEF homeVars
  <2> QED BY <1>4, <1>5, <2>1, <2>2, <2>3, <2>4, <2>5 DEF MakesOK
<1>12. RunOK(j)'
  <2>1. job'[j] = Run("create", job[j].user, job[j].shelf, t, {})
    BY <1>3, <1>4
  <2> QED BY <1>1, <1>2, <1>10, <1>11, <2>1, RunAgain DEF RecipeStages, homeVars
<1>13. \A k \in Jobs : Undisturbed(k)
  BY <1>2, QuietStep DEF homeVars
<1> QED BY <1>1, <1>4, <1>5, <1>12, <1>13, RunsBy

\* Each default book is made once: what is still to be made is neither among the books of
\* the user nor among those made.
LEMMA CreateBookRuns ==
    ASSUME BootOK, UsersOK, HomesOK, RunsOK, [OnboardingNext]_onboardingVars,
           NEW j \in Jobs, CreateBook(j)
    PROVE  RunsOK'
<1> PICK r : r = job[j]
  OBVIOUS
<1> PICK i : i = r.user
  OBVIOUS
<1>1. /\ RunOK(j) /\ r.stage = "create" /\ IsRun(r) /\ r.made \subseteq DOMAIN books
      /\ WhoseOK(j) /\ WhereOK(j) /\ FoundOK(j) /\ MakesOK(j) /\ i # 0
  <2>1. job[j].stage = "create"
    BY DEF CreateBook
  <2> QED BY <2>1, Running
<1>2. UNCHANGED <<users, shelves, shelved, rules, phase, current, step, passwords>>
  BY DEF CreateBook, bootVars
<1>3. /\ r.todo \subseteq Specs
      /\ \A b \in r.made : books[b].owner = i
      /\ \A b \in DOMAIN books : b \in r.made \/ books[b].owner = i => books[b].slug \notin r.todo
      /\ \A slug \in Specs : \/ slug \in r.todo \/ Has(r.shelf, slug)
                             \/ \E b \in r.made : books[b].slug = slug
      /\ j = Filing /\ (r.todo # {} \/ r.made # {}) => Oldest(i)
  BY <1>1 DEF MakesOK, Making, Theirs
<1>4. \A b \in DOMAIN books : books[b].owner = i => b \in r.made \/ <<r.shelf, b>> \in shelved
  BY <1>1 DEF FoundOK, Making, Theirs, OnShelf
<1>5. CASE r.todo = {}
  <2>1. PICK q : q = Run("bind", r.user, r.shelf, r.todo, r.made)
    OBVIOUS
  <2>2. /\ q.stage = "bind" /\ q.user = i /\ q.shelf = r.shelf /\ q.todo = {}
        /\ q.made = r.made
    BY <1>5, <2>1, RunIs
  <2>3. Set(j, q) /\ UNCHANGED books
    <3>1. [r EXCEPT !.stage = "bind"] = q
      BY <1>1, <2>1, StageSet
    <3> QED BY <1>5, <3>1 DEF CreateBook, Go
  <2>4. /\ job'[j] = q /\ job' = [k \in Jobs |-> job'[k]]
        /\ \A k \in Jobs : k # j => job'[k] = job[k]
    BY <2>3, JobSet
  <2>5. FoundOK(j)'
    BY <1>2, <1>4, <2>2, <2>3, <2>4 DEF FoundOK, Making, Theirs, OnShelf
  <2>6. MakesOK(j)'
    BY <1>1, <1>2, <1>3, <1>5, <2>2, <2>3, <2>4
       DEF MakesOK, Making, Theirs, OnShelf, Has, Oldest, Slug
  <2>7. RunOK(j)'
    <3>1. /\ UNCHANGED <<users, phase, current, step, passwords>>
          /\ shelves \subseteq shelves' /\ DOMAIN books \subseteq DOMAIN books'
      BY <1>2, <2>3
    <3>2. /\ "bind" \in RecipeStages /\ "bind" \notin {"password", "collect", "adopt"}
          /\ job[j].stage # "idle" /\ job[j].stage # "shelf" /\ r.made \subseteq DOMAIN books'
          /\ job'[j] = Run("bind", job[j].user, job[j].shelf, r.todo, r.made)
      BY <1>1, <2>1, <2>3, <2>4 DEF RecipeStages
    <3> QED BY <1>1, <2>5, <2>6, <3>1, <3>2, RunAgain
  <2>8. \A k \in Jobs : Undisturbed(k)
    BY <1>2, <2>3, QuietStep
  <2> QED BY <1>1, <2>2, <2>4, <2>7, <2>8, RunsBy
<1>6. CASE r.todo # {}
  <2>1. PICK n : n = Len(books) + 1
    OBVIOUS
  <2>2. PICK slug \in r.todo :
           /\ books' = Append(books, [slug |-> slug, owner |-> 0])
           /\ Set(j, [r EXCEPT !.stage = "own", !.todo = r.todo \ {slug},
                               !.made = r.made \cup {n}])
    BY <1>6, <2>1 DEF CreateBook
  <2>3. /\ DOMAIN books' = DOMAIN books \cup {n} /\ n \notin DOMAIN books
        /\ \A b \in DOMAIN books : books'[b] = books[b]
        /\ books'[n] = [slug |-> slug, owner |-> 0]
    BY <1>2, <1>3, <2>1, <2>2, BookAdded
  <2>4. books'[n].slug = slug /\ books'[n].owner = 0
    BY <2>3
  <2>5. PICK t, m : t = r.todo \ {slug} /\ m = r.made \cup {n}
    OBVIOUS
  <2>6. PICK q : q = Run("own", r.user, r.shelf, t, m)
    OBVIOUS
  <2>7. q.stage = "own" /\ q.user = i /\ q.shelf = r.shelf /\ q.todo = t /\ q.made = m
    BY <2>6, RunIs
  <2>8. /\ job'[j] = q /\ job' = [k \in Jobs |-> job'[k]]
        /\ \A k \in Jobs : k # j => job'[k] = job[k]
    <3>1. [r EXCEPT !.stage = "own", !.todo = t, !.made = m] = q
      <4>1. PICK p : p = Run("own", r.user, r.shelf, t, r.made)
        OBVIOUS
      <4>2. [r EXCEPT !.stage = "own", !.todo = t] = p
        BY <1>1, <4>1, StageTodoSet
      <4>3. [p EXCEPT !.made = m] = q
        BY <2>6, <4>1 DEF Run
      <4> QED BY <4>2, <4>3, Zenon
    <3>2. Set(j, q)
      BY <2>2, <2>5, <3>1
    <3> QED BY <3>2, JobSet
  <2>9. \A b \in DOMAIN books' : books'[b].owner = i => b \in DOMAIN books /\ books'[b] = books[b]
    BY <1>1, <2>3, <2>4
  <2>10. FoundOK(j)'
    <3>1. \A b \in DOMAIN books' : books'[b].owner = i => b \in m \/ <<r.shelf, b>> \in shelved'
      BY <1>2, <1>4, <2>5, <2>9
    <3> QED BY <2>7, <2>8, <3>1 DEF FoundOK, Making, Theirs, OnShelf
  <2>11. MakesOK(j)'
    <3>1. t \subseteq Specs
      BY <1>3, <2>5
    <3>2. \A b \in m : books'[b].owner = i \/ books'[b].owner = 0
      BY <1>1, <1>3, <2>3, <2>4, <2>5
    <3>3. \A b \in DOMAIN books' : b \in m \/ books'[b].owner = i => books'[b].slug \notin t
      BY <1>3, <2>3, <2>4, <2>5
    <3>4. ASSUME NEW b \in m, books'[b].owner = 0
          PROVE  /\ books'[b].slug \in Specs
                 /\ \A c \in DOMAIN books' : (c \in m \/ books'[c].owner = i)
                                             /\ books'[c].slug = books'[b].slug => c = b
      <4>1. b = n
        BY <1>1, <1>3, <2>3, <2>5, <3>4
      <4> QED BY <1>3, <2>2, <2>3, <2>4, <2>5, <2>9, <4>1
    <3>5. \A g \in Specs : g \in t \/ Has(r.shelf, g)' \/ \E b \in m : books'[b].slug = g
      <4>1. \A g \in Specs : Has(r.shelf, g) => Has(r.shelf, g)'
        BY HomesKeep, CompleteStays
      <4> QED BY <1>1, <1>3, <2>3, <2>4, <2>5, <4>1
    <3>6. j = Filing => Oldest(i)'
      <4>1. Oldest(i)' = Oldest(i)
        BY <1>2, SameUsers
      <4> QED BY <1>3, <1>6, <4>1
    <3> QED BY <2>7, <2>8, <3>1, <3>2, <3>3, <3>4, <3>5, <3>6
            DEF MakesOK, Making, Theirs, OnShelf, Oldest, Slug
  <2>12. RunOK(j)'
    <3>1. job'[j] = Run("own", job[j].user, job[j].shelf, t, m) /\ m \subseteq DOMAIN books'
      BY <1>1, <2>3, <2>5, <2>6, <2>8
    <3> QED BY <1>1, <1>2, <2>3, <2>10, <2>11, <3>1, RunAgain DEF RecipeStages
  <2>13. \A k \in Jobs : Undisturbed(k)
    BY <1>2, <2>3, <2>4, QuietStep
  <2> QED BY <1>1, <2>3, <2>5, <2>7, <2>8, <2>12, <2>13, RunsBy
<1> QED BY <1>5, <1>6

LEMMA OwnBookRuns ==
    ASSUME BootOK, UsersOK, HomesOK, RunsOK, [OnboardingNext]_onboardingVars,
           NEW j \in Jobs, OwnBook(j)
    PROVE  RunsOK'
<1> PICK r : r = job[j]
  OBVIOUS
<1> PICK i : i = r.user
  OBVIOUS
<1>1. job[j].stage = "own"
  BY DEF OwnBook
<1>2. /\ RunOK(j) /\ r.stage = "own" /\ IsRun(r) /\ r.made \subseteq DOMAIN books
      /\ WhoseOK(j) /\ WhereOK(j) /\ FoundOK(j) /\ MakesOK(j) /\ i # 0
  BY <1>1, Running
<1>3. UNCHANGED <<users, shelves, shelved, rules, phase, current, step, passwords>>
  BY DEF OwnBook, bootVars
<1>4. /\ DOMAIN books' = DOMAIN books
      /\ \A b \in DOMAIN books :
            /\ books'[b].slug = books[b].slug
            /\ IF b \in r.made /\ books[b].owner = 0
               THEN books'[b].owner = i ELSE books'[b] = books[b]
  BY <1>2, BooksOwned DEF Owns
<1>5. PICK q : q = Run("create", r.user, r.shelf, r.todo, r.made)
  OBVIOUS
<1>6. /\ q.stage = "create" /\ q.user = i /\ q.shelf = r.shelf /\ q.todo = r.todo
      /\ q.made = r.made
  BY <1>5, RunIs
<1>7. /\ job'[j] = q /\ job' = [k \in Jobs |-> job'[k]]
      /\ \A k \in Jobs : k # j => job'[k] = job[k]
  <2>1. [r EXCEPT !.stage = "create"] = q
    BY <1>2, <1>5, StageSet
  <2>2. Set(j, q)
    BY <2>1 DEF OwnBook, Go
  <2> QED BY <2>2, JobSet
<1>8. /\ r.todo \subseteq Specs
      /\ \A b \in r.made : books[b].owner = i \/ books[b].owner = 0
      /\ \A b \in DOMAIN books : b \in r.made \/ books[b].owner = i => books[b].slug \notin r.todo
      /\ \A slug \in Specs : \/ slug \in r.todo \/ Has(r.shelf, slug)
                             \/ \E b \in r.made : books[b].slug = slug
      /\ j = Filing /\ (r.todo # {} \/ r.made # {}) => Oldest(i)
  BY <1>2 DEF MakesOK, Making, Theirs
<1>9. \A b \in DOMAIN books : books[b].owner = i => b \in r.made \/ <<r.shelf, b>> \in shelved
  BY <1>2 DEF FoundOK, Making, Theirs, OnShelf
<1>10. \A b \in r.made : books'[b].owner = i
  BY <1>2, <1>4, <1>8
<1>11. \A b \in DOMAIN books : books'[b].owner = i => b \in r.made \/ books[b].owner = i
  BY <1>4
<1>12. FoundOK(j)'
  <2>1. \A b \in DOMAIN books' : books'[b].owner = i => b \in r.made \/ <<r.shelf, b>> \in shelved'
    BY <1>3, <1>4, <1>9, <1>11
  <2> QED BY <1>6, <1>7, <2>1 DEF FoundOK, Making, Theirs, OnShelf
<1>13. MakesOK(j)'
  <2>1. \A b \in DOMAIN books' : b \in r.made \/ books'[b].owner = i => books'[b].slug \notin r.todo
    BY <1>4, <1>8, <1>11
  <2>2. \A g \in Specs : g \in r.todo \/ Has(r.shelf, g)' \/ \E b \in r.made : books'[b].slug = g
    <3>1. \A g \in Specs : Has(r.shelf, g) => Has(r.shelf, g)'
      BY HomesKeep, CompleteStays
    <3> QED BY <1>2, <1>4, <1>8, <3>1
  <2>3. Oldest(i)' = Oldest(i)
    BY <1>3, SameUsers
  <2>4. /\ job'[j].stage = q.stage /\ job'[j].user = i /\ job'[j].shelf = r.shelf
        /\ job'[j].todo = r.todo /\ job'[j].made = r.made
    BY <1>6, <1>7
  <2>5. \A b \in r.made : books'[b].owner # 0
    BY <1>2, <1>10
  <2>6. j = Filing /\ (r.todo # {} \/ r.made # {}) => Oldest(i)'
    BY <1>8, <2>3
  <2>7. \A g \in Specs : \/ g \in r.todo \/ Has(job[j].shelf, g)'
                         \/ \E b \in r.made : books'[b].slug = g
    BY <2>2, <2>4 DEF Has
  <2>8. Oldest(job[j].user)' <=> Oldest(i)'
    BY <2>4 DEF Oldest, Slug
  <2> QED BY <1>2, <1>6, <1>8, <1>10, <2>1, <2>4, <2>5, <2>6, <2>7, <2>8
          DEF MakesOK, Making, Theirs
<1>14. RunOK(j)'
  <2>1. job'[j] = Run("create", job[j].user, job[j].shelf, r.todo, r.made)
        /\ r.made \subseteq DOMAIN books'
    BY <1>2, <1>4, <1>5, <1>7
  <2> QED BY <1>2, <1>3, <1>4, <1>12, <1>13, <2>1, RunAgain DEF RecipeStages
<1>15. ASSUME NEW k \in Jobs, k # j PROVE Undisturbed(k)
  <2> SUFFICES ASSUME job[k].stage # "idle" PROVE Undisturbed(k)
    BY DEF Undisturbed
  <2>1. /\ WhoseOK(k) /\ job[k].made \subseteq DOMAIN books
        /\ job[k].user # i /\ job[k].user # 0 /\ job[k].made \cap r.made = {}
    BY <1>1, <1>15, Running, RunsApart
  <2>2. IF k = Filing THEN BackfillRuns' ELSE phase' = phase /\ job[k].user \notin passwords'
    BY <1>3, <2>1 DEF WhoseOK, BackfillRuns
  <2>3. \A b \in DOMAIN books : b \in job[k].made \/ books[b].owner = job[k].user
                                   => books'[b] = books[b]
    BY <1>4, <2>1
  <2>4. \A b \in DOMAIN books : books'[b].owner = job[k].user => books'[b] = books[b]
    BY <1>4, <2>1
  <2> QED BY <1>4, <2>2, <2>3, <2>4 DEF Undisturbed, Theirs
<1> QED BY <1>1, <1>6, <1>7, <1>14, <1>15, RunsBy

LEMMA BindBookRuns ==
    ASSUME BootOK, UsersOK, HomesOK, RunsOK, [OnboardingNext]_onboardingVars,
           NEW j \in Jobs, BindBook(j)
    PROVE  RunsOK'
<1> PICK r : r = job[j]
  OBVIOUS
<1> PICK i : i = r.user
  OBVIOUS
<1> PICK loose : loose = {b \in r.made : <<r.shelf, b>> \notin shelved}
  OBVIOUS
<1>1. job[j].stage = "bind"
  BY DEF BindBook
<1>2. /\ RunOK(j) /\ r.stage = "bind" /\ IsRun(r) /\ r.made \subseteq DOMAIN books
      /\ WhoseOK(j) /\ WhereOK(j) /\ FoundOK(j) /\ MakesOK(j) /\ i # 0
  BY <1>1, Running
<1>3. UNCHANGED <<users, shelves, books, rules, phase, current, step, passwords>>
  BY DEF BindBook, bootVars
<1>4. \A k \in Jobs : Undisturbed(k)
  BY <1>3, QuietStep
<1>5. CASE loose = {}
  <2>1. PICK q : q = Run("rule", r.user, r.shelf, r.todo, r.made)
    OBVIOUS
  <2>2. /\ q.stage = "rule" /\ q.user = i /\ q.shelf = r.shelf /\ q.todo = r.todo
        /\ q.made = r.made
    BY <2>1, RunIs
  <2>3. Set(j, q) /\ UNCHANGED shelved
    <3>1. [r EXCEPT !.stage = "rule"] = q
      BY <1>2, <2>1, StageSet
    <3> QED BY <1>5, <3>1 DEF BindBook, Go
  <2>4. /\ job'[j] = q /\ job' = [k \in Jobs |-> job'[k]]
        /\ \A k \in Jobs : k # j => job'[k] = job[k]
    BY <2>3, JobSet
  <2>5. FoundOK(j)'
    BY <1>2, <1>3, <2>2, <2>3, <2>4 DEF FoundOK, Making, Theirs, OnShelf
  <2>6. \A b \in r.made : <<r.shelf, b>> \in shelved
    BY <1>5
  <2>7. MakesOK(j)'
    BY <1>2, <1>3, <2>2, <2>3, <2>4, <2>6 DEF MakesOK, Making, Theirs, OnShelf, Has, Oldest, Slug
  <2>8. RunOK(j)'
    BY <1>2, <1>3, <2>1, <2>4, <2>5, <2>7, RunAgain DEF RecipeStages
  <2> QED BY <1>1, <1>4, <2>2, <2>4, <2>8, RunsBy
<1>6. CASE loose # {}
  <2>1. UNCHANGED job
    BY <1>6 DEF BindBook
  <2>2. RunOK(j)' /\ job' = [k \in Jobs |-> job'[k]]
    BY <1>4, <2>1, RunStays DEF RunsOK
  <2> QED BY <1>1, <1>4, <2>1, <2>2, RunsBy
<1> QED BY <1>5, <1>6

LEMMA EnsureRuleRuns ==
    ASSUME BootOK, UsersOK, HomesOK, RunsOK, [OnboardingNext]_onboardingVars,
           NEW j \in Jobs, EnsureRule(j)
    PROVE  RunsOK'
<1> PICK r : r = job[j]
  OBVIOUS
<1> PICK i : i = r.user
  OBVIOUS
<1> PICK a : a = IF j = Filing THEN "idle" ELSE "password"
  OBVIOUS
<1>1. job[j].stage = "rule"
  BY DEF EnsureRule
<1>2. /\ RunOK(j) /\ r.stage = "rule" /\ IsRun(r) /\ r.made \subseteq DOMAIN books
      /\ WhoseOK(j) /\ WhereOK(j) /\ FoundOK(j) /\ MakesOK(j) /\ i # 0
  BY <1>1, Running
<1>3. UNCHANGED <<users, shelves, books, shelved, phase, current, step, passwords>>
  BY DEF EnsureRule, bootVars
<1>4. \A k \in Jobs : Undisturbed(k)
  BY <1>3, QuietStep
<1>5. PICK q : q = Run(a, r.user, r.shelf, r.todo, r.made)
  OBVIOUS
<1>6. q.stage = a /\ q.user = i /\ q.shelf = r.shelf /\ q.todo = r.todo /\ q.made = r.made
  BY <1>5, RunIs
<1>7. /\ job'[j] = q /\ job' = [k \in Jobs |-> job'[k]]
      /\ \A k \in Jobs : k # j => job'[k] = job[k]
  <2>1. [r EXCEPT !.stage = a] = q
    BY <1>2, <1>5, StageSet
  <2>2. Set(j, q)
    BY <2>1 DEF EnsureRule, Go
  <2> QED BY <2>2, JobSet
<1>8. \A s : s = r.shelf => HasRule(s)'
  BY <1>2, EnsureRuleHomes DEF Complete
<1>9. CASE j = Filing
  <2>1. RunOK(j)'
    <3>1. IsRun(q)
      BY <1>5, RunIs
    <3> QED BY <1>2, <1>3, <1>6, <1>7, <1>9, <3>1 DEF RunOK, RecipeStages
  <2> QED BY <1>1, <1>4, <1>6, <1>7, <2>1, RunsBy
<1>10. CASE j # Filing
  <2>1. q.stage = "password"
    BY <1>6, <1>10
  <2>2. FoundOK(j)'
    BY <1>2, <1>3, <1>6, <1>7, <2>1 DEF FoundOK, Making, Theirs, OnShelf
  <2>3. MakesOK(j)'
    <3>1. /\ r.todo = {} /\ \A b \in r.made : books[b].owner = i /\ <<r.shelf, b>> \in shelved
          /\ \A slug \in Specs : Has(r.shelf, slug) \/ \E b \in r.made : books[b].slug = slug
      BY <1>2 DEF MakesOK, Making, Theirs, OnShelf
    <3>2. \A b \in r.made : books[b].owner # 0
      BY <1>2, <3>1
    <3>3. \A s, slug : Has(s, slug)' = Has(s, slug)
      BY <1>3 DEF Has
    <3>4. job'[j].stage = "password" /\ job'[j].user = i /\ job'[j].shelf = r.shelf
          /\ job'[j].todo = {} /\ job'[j].made = r.made
      BY <1>6, <1>7, <2>1, <3>1
    <3>5. HasRule(job[j].shelf)'
      BY <1>8, <3>4 DEF HasRule
    <3>6. \A slug \in Specs : Has(job[j].shelf, slug)' \/ \E b \in r.made : books'[b].slug = slug
      BY <1>3, <3>1, <3>3, <3>4 DEF Has
    <3> QED BY <1>3, <1>10, <3>1, <3>2, <3>4, <3>5, <3>6 DEF MakesOK, Theirs, OnShelf
  <2>4. RunOK(j)'
    BY <1>2, <1>3, <1>5, <1>7, <1>10, <2>2, <2>3, RunAgain DEF RecipeStages
  <2> QED BY <1>1, <1>4, <1>6, <1>7, <2>4, RunsBy
<1> QED BY <1>9, <1>10

-----------------------------------------------------------------------------
(* The runs begin and end.                                                   *)

\* The user who signs up is new: no book is theirs.
LEMMA SignUpRuns ==
    ASSUME BootOK, UsersOK, HomesOK, PasswordsOK, RunsOK, [OnboardingNext]_onboardingVars,
           NEW j \in SignUps, NEW name \in Names, SignUp(j, name)
    PROVE  RunsOK'
<1> j \in Jobs /\ j # Filing
  BY OnboardingAssumption DEF Jobs
<1>1. /\ UNCHANGED <<phase, current, step, homeVars, passwords>> /\ phase = "serving"
      /\ job[j].stage = "idle"
  BY DEF SignUp
<1>2. \A k \in Jobs : Undisturbed(k)
  BY <1>1, QuietStep DEF homeVars
<1>3. CASE UNCHANGED <<users, job>>
  <2>1. RunOK(j)' /\ job' = [k \in Jobs |-> job'[k]]
    BY <1>2, <1>3, RunStays DEF RunsOK
  <2> QED BY <1>1, <1>2, <1>3, <2>1, RunsBy
<1>4. ASSUME users' = Append(users, User(name, "human", TRUE)),
             Set(j, [Resting EXCEPT !.stage = "shelf", !.user = Len(users) + 1])
      PROVE  RunsOK'
  <2>1. PICK n : n = Len(users) + 1
    OBVIOUS
  <2>2. User(name, "human", TRUE) \in UserRow /\ User(name, "human", TRUE).live
    BY OnboardingAssumption DEF User, UserRow
  <2>3. n \notin DOMAIN users /\ n \in DOMAIN users' /\ users'[n].live /\ n \in Nat /\ n # 0
    <3>1. PICK u : u = User(name, "human", TRUE)
      OBVIOUS
    <3>2. u \in UserRow /\ u.live /\ users' = Append(users, u)
      BY <1>4, <2>2, <3>1
    <3>3. n \notin DOMAIN users /\ n \in DOMAIN users' /\ users'[n] = u /\ Len(users) \in Nat
      BY <2>1, <3>2, UserAppended
    <3> QED BY <2>1, <3>2, <3>3
  <2>4. PICK q : q = Run("shelf", n, 0, {}, {})
    OBVIOUS
  <2>5. q.stage = "shelf" /\ q.user = n /\ q.todo = {} /\ q.made = {} /\ IsRun(q)
    BY <2>4, RunIs
  <2>6. /\ job'[j] = q /\ job' = [k \in Jobs |-> job'[k]]
        /\ \A k \in Jobs : k # j => job'[k] = job[k]
    <3>1. [Resting EXCEPT !.stage = "shelf", !.user = n] = q
      BY <2>4, RestingIs
    <3>2. Set(j, q)
      BY <1>4, <2>1, <3>1
    <3> QED BY <3>2, JobSet
  <2>7. n \notin passwords
    BY <2>3 DEF PasswordsOK
  <2>8. \A b \in DOMAIN books : books[b].owner # n
    BY <2>3 DEF HomesOK, BooksOK
  <2>9. WhoseOK(j)'
    BY <1>1, <2>3, <2>5, <2>6, <2>7 DEF WhoseOK
  <2>10. WhereOK(j)' /\ FoundOK(j)' /\ MakesOK(j)'
    BY <1>1, <2>5, <2>6, <2>8 DEF WhereOK, FoundOK, MakesOK, Making, Theirs, homeVars
  <2>11. RunOK(j)'
    BY <2>3, <2>5, <2>6, <2>9, <2>10 DEF RunOK, RecipeStages
  <2> QED BY <1>2, <2>3, <2>5, <2>6, <2>11, RunsBy
<1>5. \/ UNCHANGED <<users, job>>
      \/ /\ users' = Append(users, User(name, "human", TRUE))
         /\ Set(j, [Resting EXCEPT !.stage = "shelf", !.user = Len(users) + 1])
  BY DEF SignUp
<1> QED BY <1>3, <1>4, <1>5

LEMMA EndRuns ==
    ASSUME BootOK, UsersOK, HomesOK, RunsOK, [OnboardingNext]_onboardingVars,
           NEW j \in SignUps, StorePassword(j) \/ SignUpFails(j)
    PROVE  RunsOK'
<1> j \in Jobs /\ j # Filing
  BY OnboardingAssumption DEF Jobs
<1>1. /\ UNCHANGED <<phase, current, step, homeVars, users>> /\ job[j].stage # "idle"
      /\ Set(j, Resting) /\ passwords' \in {passwords, passwords \cup {job[j].user}}
  BY DEF StorePassword, SignUpFails, bootVars
<1>2. /\ job'[j] = Resting /\ job' = [k \in Jobs |-> job'[k]]
      /\ \A k \in Jobs : k # j => job'[k] = job[k]
  BY <1>1, JobSet
<1>3. RunOK(j)' /\ job'[j].made = {} /\ job'[j].stage = "idle"
  BY <1>2, RestingOK DEF Resting
<1>4. ASSUME NEW k \in Jobs, k # j PROVE Undisturbed(k)
  <2> SUFFICES ASSUME job[k].stage # "idle" PROVE Undisturbed(k)
    BY DEF Undisturbed
  <2>1. WhoseOK(k) /\ job[k].made \subseteq DOMAIN books /\ job[k].user # job[j].user
    BY <1>1, <1>4, Running, RunsApart
  <2>2. IF k = Filing THEN BackfillRuns' ELSE phase' = phase /\ job[k].user \notin passwords'
    BY <1>1, <2>1 DEF WhoseOK, BackfillRuns
  <2> QED BY <1>1, <2>1, <2>2 DEF Undisturbed, homeVars
<1> QED BY <1>2, <1>3, <1>4, RunsBy

LEMMA NextUserRuns ==
    ASSUME BootOK, UsersOK, HomesOK, RunsOK, [OnboardingNext]_onboardingVars, NextUser
    PROVE  RunsOK'
<1> Filing \in Jobs
  BY DEF Jobs
<1>1. /\ UNCHANGED <<phase, current, homeVars, users, passwords>> /\ phase = "migrating"
      /\ BackfillRuns /\ job[Filing].stage = "idle"
  BY AtIs DEF NextUser, BackfillRuns
<1>2. ASSUME NEW k \in Jobs, k # Filing PROVE Undisturbed(k)
  BY <1>1, <1>2, Running DEF Undisturbed, WhoseOK
<1> DEFINE later == {i \in Present : i > job[Filing].user}
<1>3. CASE later = {}
  <2>1. Set(Filing, Resting)
    BY <1>3 DEF NextUser
  <2>2. /\ job'[Filing] = Resting /\ job' = [k \in Jobs |-> job'[k]]
        /\ \A k \in Jobs : k # Filing => job'[k] = job[k]
    BY <2>1, JobSet
  <2>3. RunOK(Filing)' /\ job'[Filing].made = {} /\ job'[Filing].stage = "idle"
    BY <2>2, RestingOK DEF Resting
  <2> QED BY <1>2, <2>2, <2>3, RunsBy
<1>4. CASE later # {}
  <2>1. PICK i \in later : i = Least(later)
    <3>1. later \in SUBSET Nat
      BY DEF Present, UsersOK
    <3> QED BY <1>4, <3>1, LeastIs
  <2>2. PICK q : q = Run("shelf", i, 0, {}, {})
    OBVIOUS
  <2>3. q.stage = "shelf" /\ q.user = i /\ q.todo = {} /\ q.made = {} /\ IsRun(q)
    BY <2>2, RunIs
  <2>4. Set(Filing, q) /\ UNCHANGED step
    <3>1. [Resting EXCEPT !.stage = "shelf", !.user = i] = q
      BY <2>2, RestingIs
    <3>2. Set(Filing, [Resting EXCEPT !.stage = "shelf", !.user = i]) /\ UNCHANGED step
      BY <1>4, <2>1 DEF NextUser
    <3> QED BY <3>1, <3>2
  <2>5. /\ job'[Filing] = q /\ job' = [k \in Jobs |-> job'[k]]
        /\ \A k \in Jobs : k # Filing => job'[k] = job[k]
    BY <2>4, JobSet
  <2>6. i \in DOMAIN users /\ ~users[i].live
    BY <1>1, NobodyYet DEF Present
  <2>7. WhoseOK(Filing)'
    <3>1. users[i].live = FALSE
      BY <2>6 DEF UsersOK, UserRow
    <3>2. BackfillRuns'
      BY <1>1, <2>4 DEF BackfillRuns
    <3> QED BY <1>1, <2>3, <2>5, <2>6, <3>1, <3>2 DEF WhoseOK
  <2>8. WhereOK(Filing)' /\ FoundOK(Filing)' /\ MakesOK(Filing)'
    BY <2>3, <2>5 DEF WhereOK, FoundOK, MakesOK, Making
  <2>9. RunOK(Filing)'
    BY <1>1, <2>3, <2>5, <2>6, <2>7, <2>8 DEF RunOK, RecipeStages
  <2> QED BY <1>2, <2>3, <2>5, <2>9, RunsBy
<1> QED BY <1>3, <1>4

\* While the other migrations run, nobody is filed or signs up.
LEMMA BootApart ==
    ASSUME BootOK, BootStep PROVE phase # "serving" /\ ~BackfillRuns
<1>1. CASE Boot \/ NextMigration \/ Record
  BY <1>1 DEF Boot, NextMigration, Record, BackfillRuns
<1>2. CASE SeedPublicUser
  BY <1>2, AtIs DEF SeedPublicUser, BackfillRuns
<1>3. CASE Dedupe
  BY <1>3, AtIs DEF Dedupe, BackfillRuns
<1>4. CASE PageAdminStep
  BY <1>4, AtIs DEF PageAdminStep, ReadLegacy, CopyLegacy, DropLegacy, WriteSchema, EnsureRole,
     GrantPage, AssignFirst, BackfillRuns
<1> QED BY <1>1, <1>2, <1>3, <1>4 DEF BootStep

LEMMA BootRuns ==
    ASSUME BootOK, UsersOK, HomesOK, RunsOK, [OnboardingNext]_onboardingVars,
           BootStep, UNCHANGED job
    PROVE  RunsOK'
<1>1. phase # "serving" /\ ~BackfillRuns
  BY BootApart
<1>2. \A j \in Jobs : job[j].stage = "idle"
  BY <1>1, Running DEF WhoseOK
<1>3. \A j \in Jobs : RunOK(j)'
  BY <1>2, RunStays DEF Undisturbed
<1> QED BY <1>3 DEF RunsOK

LEMMA StopRuns == ASSUME Stop PROVE RunsOK'
<1>1. job' = [j \in Jobs |-> Resting]
  BY DEF Stop
<1>2. \A j \in Jobs : job'[j] = Resting /\ RunOK(j)' /\ job'[j].made = {}
  BY <1>1, RestingOK
<1>3. Resting.stage = "idle"
  BY DEF Resting
<1>4. SignUps \subseteq Jobs
  BY DEF Jobs
<1> QED BY <1>1, <1>2, <1>3, <1>4 DEF RunsOK

LEMMA RunsKeep ==
    ASSUME BootOK, UsersOK, HomesOK, FiledOK, PasswordsOK, RunsOK,
           [OnboardingNext]_onboardingVars
    PROVE  RunsOK'
<1>1. SignUps \subseteq Jobs
  BY DEF Jobs
<1>2. CASE BootStep /\ UNCHANGED <<homeVars, passwords, job, signUps>>
  BY <1>2, BootRuns
<1>3. CASE NextUser \/ EnsureShelf \/ Collect \/ Adopt
  BY <1>3, NextUserRuns, EnsureShelfRuns, CollectRuns, AdoptRuns
<1>4. ASSUME NEW j \in Jobs, Recipe(j) PROVE RunsOK'
  BY <1>4, ProbeRuns, CreateBookRuns, OwnBookRuns, BindBookRuns, EnsureRuleRuns DEF Recipe
<1>5. ASSUME NEW j \in SignUps,
             \/ \E name \in Names : SignUp(j, name)
             \/ NewShelf(j) \/ StorePassword(j) \/ SignUpFails(j)
      PROVE  RunsOK'
  BY <1>5, SignUpRuns, NewShelfRuns, EndRuns
<1>6. CASE Stop
  BY <1>6, StopRuns
<1>7. CASE UNCHANGED onboardingVars
  <2>1. UNCHANGED <<phase, current, step, passwords, books, job>>
    BY <1>7 DEF onboardingVars, bootVars, homeVars
  <2>2. \A j \in Jobs : RunOK(j)'
    BY <2>1, QuietStep, RunStays
  <2> QED BY <2>1, <2>2 DEF RunsOK
<1> QED BY <1>2, <1>3, <1>4, <1>5, <1>6, <1>7 DEF OnboardingNext

-----------------------------------------------------------------------------
(* Who is filed stays so.                                                    *)

\* An owner is written by the run that made the book.
LEMMA OwnersAre ==
    ASSUME BootOK, UsersOK, HomesOK, RunsOK, [OnboardingNext]_onboardingVars,
           NEW b \in DOMAIN books', books'[b].owner # 0
    PROVE  /\ b \in DOMAIN books
           /\ \/ books'[b] = books[b]
              \/ \E j \in Jobs : OwnBook(j) /\ books'[b].owner = job[j].user
<1>1. CASE UNCHANGED books
  BY <1>1
<1>2. ASSUME NEW j \in Jobs, OwnBook(j)
      PROVE  /\ b \in DOMAIN books
             /\ books'[b] = books[b] \/ books'[b].owner = job[j].user
  <2>1. Owns(j)
    BY <1>2, BooksOwned DEF RunsOK
  <2> QED BY <2>1 DEF Owns
<1>3. ASSUME NEW j \in Jobs, CreateBook(j), books' # books
      PROVE  b \in DOMAIN books /\ books'[b] = books[b]
  <2>1. PICK slug \in job[j].todo : books' = Append(books, [slug |-> slug, owner |-> 0])
    BY <1>3 DEF CreateBook
  <2>2. slug \in Specs
    BY <1>3 DEF CreateBook, RunsOK, RunOK, MakesOK, Making
  <2>3. UNCHANGED <<users, shelves, shelved, rules>>
    BY <1>3 DEF CreateBook, bootVars
  <2>4. PICK n : n = Len(books) + 1
    OBVIOUS
  <2>5. /\ DOMAIN books' = DOMAIN books \cup {n}
        /\ \A c \in DOMAIN books : books'[c] = books[c]
        /\ books'[n] = [slug |-> slug, owner |-> 0]
    BY <2>1, <2>2, <2>3, <2>4, BookAdded
  <2>6. books'[n].owner = 0
    BY <2>5
  <2> QED BY <2>5, <2>6
<1>4. \/ UNCHANGED books
      \/ \E j \in Jobs : OwnBook(j) \/ (CreateBook(j) /\ books' # books)
  BY DEF OnboardingNext, Recipe, NextUser, EnsureShelf, Collect, Adopt, Probe, CreateBook,
         OwnBook, BindBook, EnsureRule, SignUp, NewShelf, StorePassword, SignUpFails, Stop,
         onboardingVars, homeVars
<1> QED BY <1>1, <1>2, <1>3, <1>4

LEMMA FiledStays ==
    ASSUME BootOK, UsersOK, HomesOK, RunsOK, [OnboardingNext]_onboardingVars,
           NEW i \in DOMAIN users, ~users[i].live, Filed(i),
           OwnBook(Filing) => job[Filing].user # i
    PROVE  Filed(i)'
<1>1. Grown /\ Slug(i)' = Slug(i) /\ i # 0
  BY HomesKeep, UsersGrow DEF UsersOK
<1>2. \E s \in shelves' : s.slug = Slug(i)' /\ s.k = 1 /\ Complete(s)'
  <2>1. PICK s \in shelves : s.slug = Slug(i) /\ s.k = 1 /\ Complete(s)
    BY DEF Filed
  <2>2. Complete(s)'
    BY <1>1, <2>1, CompleteStays
  <2> QED BY <1>1, <2>1, <2>2 DEF Grown
<1>3. ASSUME NEW b \in DOMAIN books', books'[b].owner = i
      PROVE  \E s \in shelves' : <<s, b>> \in shelved'
  <2>1. ~\E j \in Jobs : OwnBook(j) /\ job[j].user = i
    <3> SUFFICES ASSUME NEW j \in Jobs, OwnBook(j), job[j].user = i, j # Filing PROVE FALSE
      OBVIOUS
    <3>1. job[j].stage # "idle"
      BY DEF OwnBook
    <3>2. users[i].live = (j # Filing)
      BY <3>1, Running DEF WhoseOK
    <3> QED BY <3>2
  <2>2. b \in DOMAIN books /\ books[b].owner = i
    BY <1>1, <1>3, <2>1, OwnersAre
  <2>3. \E s \in shelves : <<s, b>> \in shelved
    BY <2>2 DEF Filed
  <2> QED BY <1>1, <2>3 DEF Grown
<1> QED BY <1>2, <1>3 DEF Filed

\* The run of the backfill keeps its user until it is through.
FilingStep == EnsureShelf \/ Collect \/ Adopt \/ Recipe(Filing)

LEMMA FilingGoes ==
    ASSUME UsersOK, HomesOK, BootOK, RunsOK, FilingStep
    PROVE  /\ bootSame /\ UNCHANGED users /\ job[Filing].stage # "idle"
           /\ job'[Filing].user = job[Filing].user
           /\ EnsureRule(Filing) \/ job'[Filing].stage # "idle"
<1> Filing \in Jobs
  BY DEF Jobs
<1> PICK r : r = job[Filing]
  OBVIOUS
<1>1. job[Filing].stage # "idle" /\ bootSame /\ UNCHANGED users
  <2>1. RecipeStep
    BY DEF FilingStep, RecipeStep
  <2> QED BY <2>1, RecipeFrame DEF FilingStep, EnsureShelf, Collect, Adopt, Recipe, Probe,
             CreateBook, OwnBook, BindBook, EnsureRule, bootVars
<1>2. IsRun(r)
  BY <1>1, Running
<1>3. ASSUME NEW a, a # "idle", Set(Filing, [r EXCEPT !.stage = a])
      PROVE  job'[Filing].user = r.user /\ job'[Filing].stage # "idle"
  <2>1. job'[Filing] = Run(a, r.user, r.shelf, r.todo, r.made)
    BY <1>2, <1>3, StageSet, JobSet
  <2> QED BY <1>3, <2>1, RunIs
<1>4. ASSUME NEW a, NEW x, a # "idle", Set(Filing, [r EXCEPT !.stage = a, !.todo = x])
      PROVE  job'[Filing].user = r.user /\ job'[Filing].stage # "idle"
  <2>1. PICK q : q = Run(a, r.user, r.shelf, x, r.made)
    OBVIOUS
  <2>2. [r EXCEPT !.stage = a, !.todo = x] = q
    BY <1>2, <2>1, StageTodoSet
  <2>3. job'[Filing] = q
    BY <1>4, <2>2, JobSet
  <2> QED BY <1>4, <2>1, <2>3, RunIs
<1>5. CASE EnsureShelf
  <2>1. PICK s : Set(Filing, [r EXCEPT !.stage = "collect", !.shelf = s])
    BY <1>5 DEF EnsureShelf
  <2>2. PICK q : q = Run("collect", r.user, s, r.todo, r.made)
    OBVIOUS
  <2>3. [r EXCEPT !.stage = "collect", !.shelf = s] = q
    BY <1>2, <2>2, ShelfSet
  <2>4. job'[Filing] = q
    BY <2>1, <2>3, JobSet
  <2> QED BY <1>1, <2>2, <2>4, RunIs
<1>6. CASE Collect
  BY <1>1, <1>4, <1>6 DEF Collect
<1>7. CASE Adopt
  <2>1. CASE r.todo = {}
    BY <1>1, <1>3, <1>7, <2>1 DEF Adopt, Go
  <2>2. CASE r.todo # {}
    <3>1. PICK b : Set(Filing, [r EXCEPT !.todo = r.todo \ {b}])
      BY <1>7, <2>2 DEF Adopt
    <3>2. PICK q : q = Run(r.stage, r.user, r.shelf, r.todo \ {b}, r.made)
      OBVIOUS
    <3>3. [r EXCEPT !.todo = r.todo \ {b}] = q
      BY <1>2, <3>2, TodoSet
    <3>4. job'[Filing] = q
      BY <3>1, <3>3, JobSet
    <3> QED BY <1>1, <3>2, <3>4, RunIs
  <2> QED BY <2>1, <2>2
<1>8. CASE Probe(Filing)
  BY <1>1, <1>4, <1>8 DEF Probe
<1>9. CASE CreateBook(Filing)
  <2>1. CASE r.todo = {}
    BY <1>1, <1>3, <1>9, <2>1 DEF CreateBook, Go
  <2>2. CASE r.todo # {}
    <3>1. PICK slug : Set(Filing, [r EXCEPT !.stage = "own", !.todo = r.todo \ {slug},
                                            !.made = r.made \cup {Len(books) + 1}])
      BY <1>9, <2>2 DEF CreateBook
    <3>2. PICK t, m : t = r.todo \ {slug} /\ m = r.made \cup {Len(books) + 1}
      OBVIOUS
    <3>3. PICK p : p = Run("own", r.user, r.shelf, t, r.made)
      OBVIOUS
    <3>4. [r EXCEPT !.stage = "own", !.todo = t] = p
      BY <1>2, <3>3, StageTodoSet
    <3>5. PICK q : q = Run("own", r.user, r.shelf, t, m)
      OBVIOUS
    <3>6. [p EXCEPT !.made = m] = q
      BY <3>3, <3>5 DEF Run
    <3>7. [r EXCEPT !.stage = "own", !.todo = t, !.made = m] = q
      BY <3>4, <3>6, Zenon
    <3>8. Set(Filing, q)
      BY <3>1, <3>2, <3>7
    <3>9. job'[Filing] = q
      BY <3>8, JobSet
    <3> QED BY <1>1, <3>5, <3>9, RunIs
  <2> QED BY <2>1, <2>2
<1>10. CASE OwnBook(Filing)
  BY <1>1, <1>3, <1>10 DEF OwnBook, Go
<1>11. CASE BindBook(Filing)
  BY <1>1, <1>3, <1>11 DEF BindBook, Go
<1>12. CASE EnsureRule(Filing)
  <2>1. PICK q : q = Run("idle", r.user, r.shelf, r.todo, r.made)
    OBVIOUS
  <2>2. [r EXCEPT !.stage = "idle"] = q
    BY <1>2, <2>1, StageSet
  <2>3. Set(Filing, q)
    BY <1>12, <2>2 DEF EnsureRule, Go
  <2>4. job'[Filing] = q
    BY <2>3, JobSet
  <2> QED BY <1>1, <1>12, <2>1, <2>4, RunIs
<1> QED BY <1>5, <1>6, <1>7, <1>8, <1>9, <1>10, <1>11, <1>12 DEF FilingStep, Recipe

\* Nobody else touches it.
LEMMA FilingCases ==
    ASSUME BootOK, UsersOK, HomesOK, RunsOK, [OnboardingNext]_onboardingVars
    PROVE  \/ NextUser \/ FilingStep
           \/ Stop \/ (BootStep /\ UNCHANGED job)
           \/ /\ bootSame /\ job'[Filing] = job[Filing]
              /\ ~NextUser /\ ~FilingStep
<1> SUFFICES ASSUME ~NextUser, ~FilingStep, ~Stop, ~(BootStep /\ UNCHANGED job)
             PROVE  bootSame /\ job'[Filing] = job[Filing]
  OBVIOUS
<1> Filing \in Jobs /\ Filing \notin SignUps /\ SignUps \subseteq Jobs
  BY OnboardingAssumption DEF Jobs
<1>1. CASE UNCHANGED onboardingVars
  BY <1>1 DEF onboardingVars, bootVars, adminVars, bootSame
<1>2. ASSUME NEW j \in Jobs, j # Filing, \/ UNCHANGED job \/ \E q : Set(j, q)
      PROVE  job'[Filing] = job[Filing]
  BY <1>2, JobSet
<1>3. ASSUME NEW j \in Jobs, Recipe(j) PROVE bootSame /\ job'[Filing] = job[Filing]
  <2>1. j # Filing /\ RecipeStep
    BY <1>3 DEF FilingStep, RecipeStep
  <2>2. UNCHANGED job \/ \E q : Set(j, q)
    BY <1>3, <2>1 DEF Recipe, Probe, CreateBook, OwnBook, BindBook, EnsureRule, Go
  <2> QED BY <1>2, <2>1, <2>2, RecipeFrame
<1>4. ASSUME NEW j \in SignUps,
             \/ \E name \in Names : SignUp(j, name)
             \/ NewShelf(j) \/ StorePassword(j) \/ SignUpFails(j)
      PROVE  bootSame /\ job'[Filing] = job[Filing]
  <2>1. RecipeStep
    BY <1>4 DEF RecipeStep
  <2>2. UNCHANGED job \/ \E q : Set(j, q)
    BY <1>4 DEF SignUp, NewShelf, StorePassword, SignUpFails
  <2> QED BY <1>2, <2>1, <2>2, RecipeFrame
<1> QED BY <1>1, <1>3, <1>4 DEF OnboardingNext, FilingStep

LEMMA FiledKeep ==
    ASSUME BootOK, UsersOK, HomesOK, FiledOK, RunsOK, [OnboardingNext]_onboardingVars
    PROVE  FiledOK'
<1> Filing \in Jobs
  BY DEF Jobs
<1>1. OwnBook(Filing) => job[Filing].stage # "idle"
  BY DEF OwnBook
<1>2. Resting.stage = "idle" /\ Resting.user = 0
  BY DEF Resting
<1>3. \A i \in DOMAIN users : /\ users'[i].live = users[i].live /\ Slug(i)' = Slug(i)
                              /\ i \in Nat \ {0} /\ i \in DOMAIN users'
  BY UsersGrow DEF UsersOK
<1>4. Ended(2)' /\ Ended(2) => \A i \in DOMAIN users' : ~users'[i].live => Filed(i)'
  <2> SUFFICES ASSUME Ended(2)', Ended(2), NEW i \in DOMAIN users', ~users'[i].live
               PROVE  Filed(i)'
    OBVIOUS
  <2>1. ~BackfillRuns
    BY DEF Ended, BackfillRuns, BootOK, Working
  <2>2. ~OwnBook(Filing)
    BY <1>1, <1>2, <2>1 DEF FiledOK
  <2>3. i \in DOMAIN users
    <3> SUFFICES ASSUME i \notin DOMAIN users PROVE FALSE
      OBVIOUS
    <3>1. ~SeedPublicUser
      <4> SUFFICES ASSUME SeedPublicUser PROVE FALSE
        OBVIOUS
      <4>1. current = 1 /\ ~Applied(1)
        BY AtIs DEF SeedPublicUser
      <4> QED BY <4>1 DEF Ended, BootOK
    <3>2. CASE UNCHANGED users
      BY <3>2
    <3>3. CASE Dedupe
      BY <3>3, DedupeIs
    <3>4. ASSUME NEW name \in Names, users' = Append(users, User(name, "human", TRUE))
          PROVE  FALSE
      <4>1. PICK u : u = User(name, "human", TRUE)
        OBVIOUS
      <4>2. User(name, "human", TRUE) \in UserRow /\ User(name, "human", TRUE).live
        BY OnboardingAssumption DEF User, UserRow
      <4>3. users'[Len(users) + 1] = u /\ DOMAIN users' = DOMAIN users \cup {Len(users) + 1}
        BY <3>4, <4>1, <4>2, UserAppended
      <4> QED BY <4>1, <4>2, <4>3
    <3> QED BY <3>1, <3>2, <3>3, <3>4, UserCases
  <2>4. Filed(i) /\ ~users[i].live
    BY <1>3, <2>3 DEF FiledOK
  <2> QED BY <2>2, <2>3, <2>4, FiledStays
<1>5. ~(NextUser /\ step' = "record") => (Ended(2)' => Ended(2))
  <2>1. 2 \in 1..4 /\ 2 # 1 /\ 2 # 3 /\ 2 # 4
    OBVIOUS
  <2> QED BY <2>1, EndedGrows
<1>6. CASE NextUser
  <2>1. /\ BackfillRuns /\ job[Filing].stage = "idle" /\ ~OwnBook(Filing)
        /\ UNCHANGED <<users, phase, current, applied>>
    BY <1>1, <1>6, AtIs DEF NextUser, BackfillRuns
  <2>2. \A i \in DOMAIN users : i <= job[Filing].user => Filed(i)
    BY <2>1 DEF FiledOK, RunsOK, RunOK, UsersOK
  <2>3. \A i \in DOMAIN users : Filed(i) => Filed(i)'
    BY <2>1, NobodyYet, FiledStays
  <2> DEFINE later == {i \in Present : i > job[Filing].user}
  <2>4. later \in SUBSET Nat /\ Present = DOMAIN users /\ DOMAIN users \subseteq Nat
        /\ job[Filing].user \in Nat
    <3>1. Present = DOMAIN users
      BY <2>1, NobodyYet DEF Present
    <3>2. DOMAIN users \subseteq Nat
      BY <1>3
    <3>3. job[Filing].user \in {0} \cup DOMAIN users
      BY DEF RunsOK, RunOK
    <3> QED BY <3>1, <3>2, <3>3
  <2>5. CASE later = {}
    <3>1. step' = "record" /\ Set(Filing, Resting)
      BY <1>6, <2>5 DEF NextUser
    <3>2. job'[Filing] = Resting
      BY <3>1, JobSet
    <3>3. \A i \in DOMAIN users : Filed(i)'
      <4> SUFFICES ASSUME NEW i \in DOMAIN users PROVE i <= job[Filing].user
        BY <2>2, <2>3
      <4>1. i \in Present /\ i \notin later
        BY <2>4, <2>5
      <4> QED BY <2>4, <4>1
    <3>4. ~BackfillRuns'
      BY <3>1 DEF BackfillRuns
    <3> QED BY <2>1, <3>2, <3>3, <3>4 DEF FiledOK
  <2>6. CASE later # {}
    <3>1. PICK n \in later : n = Least(later) /\ \A i \in later : n <= i
      BY <2>4, <2>6, LeastIs
    <3>2. Set(Filing, [Resting EXCEPT !.stage = "shelf", !.user = n]) /\ UNCHANGED step
      BY <1>6, <2>6, <3>1 DEF NextUser
    <3>3. PICK q : q = Run("shelf", n, 0, {}, {})
      OBVIOUS
    <3>4. [Resting EXCEPT !.stage = "shelf", !.user = n] = q
      BY <3>3, RestingIs
    <3>5. job'[Filing] = q
      BY <3>2, <3>4, JobSet
    <3>6. q.stage = "shelf" /\ q.user = n
      BY <3>3, RunIs
    <3>7. BackfillRuns'
      BY <2>1, <3>2 DEF BackfillRuns
    <3>8. \A i \in DOMAIN users : i < n => Filed(i)'
      <4> SUFFICES ASSUME NEW i \in DOMAIN users, i < n PROVE i <= job[Filing].user
        BY <2>2, <2>3
      <4>1. i \in Present /\ (i \in later => n <= i)
        BY <2>4, <3>1
      <4>2. n \in Nat /\ i \in Nat
        BY <2>4
      <4>3. i \notin later
        BY <4>1, <4>2
      <4> QED BY <2>4, <4>1, <4>3
    <3>9. Ended(2)' => Ended(2)
      BY <1>5, <3>2, <2>1 DEF BackfillRuns
    <3> QED BY <1>4, <2>1, <3>5, <3>6, <3>7, <3>8, <3>9 DEF FiledOK
  <2> QED BY <2>5, <2>6
<1>7. CASE FilingStep
  <2>1. /\ bootSame /\ UNCHANGED users /\ job[Filing].stage # "idle"
        /\ job'[Filing].user = job[Filing].user
        /\ EnsureRule(Filing) \/ job'[Filing].stage # "idle"
    BY <1>7, FilingGoes
  <2>2. BackfillRuns /\ BackfillRuns' /\ Ended(2)' = Ended(2)
    BY <1>2, <2>1, RecipeEnded DEF FiledOK, bootSame, BackfillRuns
  <2>3. ASSUME NEW i \in DOMAIN users, i < job[Filing].user PROVE Filed(i)'
    <3>1. Filed(i) /\ ~users[i].live /\ job[Filing].user # i
      BY <1>3, <2>2, <2>3, NobodyYet DEF FiledOK
    <3> QED BY <3>1, FiledStays
  <2>4. ASSUME NEW i \in DOMAIN users, i = job[Filing].user, job'[Filing].stage = "idle"
        PROVE  Filed(i)'
    <3>1. EnsureRule(Filing) /\ job[Filing].stage = "rule"
      BY <2>1, <2>4 DEF EnsureRule
    <3>2. PICK s : s = job[Filing].shelf
      OBVIOUS
    <3>3. Complete(s)' /\ Grown
      BY <3>1, <3>2, EnsureRuleHomes DEF RunsOK
    <3>4. WhereOK(Filing) /\ FoundOK(Filing) /\ MakesOK(Filing)
      BY <2>1, Running
    <3>5. s \in shelves /\ s.slug = Slug(i) /\ s.k = 1
      BY <2>4, <3>1, <3>2, <3>4 DEF WhereOK
    <3>6. \A b \in DOMAIN books : books[b].owner = i => <<s, b>> \in shelved
      BY <2>4, <3>1, <3>2, <3>4 DEF FoundOK, MakesOK, Making, Theirs, OnShelf
    <3>7. UNCHANGED <<books, shelves, shelved>>
      BY <3>1 DEF EnsureRule
    <3>8. Slug(i)' = Slug(i)
      BY <1>3
    <3> QED BY <3>3, <3>5, <3>6, <3>7, <3>8 DEF Filed
  <2> QED BY <1>4, <2>1, <2>2, <2>3, <2>4 DEF FiledOK
<1>8. CASE Stop
  <2>1. job'[Filing] = Resting /\ ~BackfillRuns'
    BY <1>8 DEF Stop, Down, BackfillRuns
  <2>2. Ended(2)' => Ended(2)
    BY <1>8 DEF Stop, Down, Ended, Applied
  <2> QED BY <1>4, <2>1, <2>2 DEF FiledOK
<1>9. CASE BootStep /\ UNCHANGED job
  <2>1. ~BackfillRuns /\ job'[Filing] = Resting
    BY <1>9, BootApart DEF FiledOK
  <2>2. ~NextUser
    BY <2>1, AtIs DEF NextUser, BackfillRuns
  <2>3. \A i \in DOMAIN users' : i \in Nat /\ i # 0
    BY UsersGrow
  <2> QED BY <1>2, <1>4, <1>5, <2>1, <2>2, <2>3 DEF FiledOK
<1>10. CASE bootSame /\ job'[Filing] = job[Filing] /\ ~NextUser /\ ~FilingStep
  <2>1. BackfillRuns' = BackfillRuns /\ Ended(2)' = Ended(2)
    BY <1>10, RecipeEnded DEF bootSame, BackfillRuns
  <2>2. ~OwnBook(Filing)
    BY <1>10 DEF FilingStep, Recipe
  <2>3. ASSUME BackfillRuns, NEW i \in DOMAIN users',
               i < job[Filing].user \/ (i = job[Filing].user /\ job[Filing].stage = "idle")
        PROVE  Filed(i)'
    <3>1. i \in DOMAIN users
      <4>1. i # 0 /\ i \in Nat /\ job[Filing].user \in {0} \cup DOMAIN users
        BY UsersGrow DEF RunsOK, RunOK
      <4>2. \A h \in DOMAIN users' \ DOMAIN users : \A g \in DOMAIN users : g < h
        BY UsersGrow
      <4> QED BY <1>3, <2>3, <4>1, <4>2
    <3>2. Filed(i) /\ ~users[i].live
      BY <2>3, <3>1, NobodyYet DEF FiledOK
    <3> QED BY <2>2, <3>1, <3>2, FiledStays
  <2> QED BY <1>4, <1>10, <2>1, <2>3 DEF FiledOK
<1> QED BY <1>6, <1>7, <1>8, <1>9, <1>10, FilingCases

-----------------------------------------------------------------------------
(* Who has a password, and the types.                                        *)

LEMMA PasswordsKeep ==
    ASSUME BootOK, UsersOK, HomesOK, RunsOK, PasswordsOK, [OnboardingNext]_onboardingVars
    PROVE  PasswordsOK'
<1>1. Grown /\ \A i \in DOMAIN users : i \in DOMAIN users' /\ users'[i].live = users[i].live
  BY HomesKeep, UsersGrow
<1>2. ASSUME NEW i \in passwords
      PROVE  /\ i \in DOMAIN users' /\ users'[i].live
             /\ \E s \in shelves' : s.owner = i /\ Complete(s)'
  <2>1. i \in DOMAIN users /\ users[i].live
    BY DEF PasswordsOK
  <2>2. PICK s \in shelves : s.owner = i /\ Complete(s)
    BY DEF PasswordsOK
  <2>3. Complete(s)'
    BY <1>1, <2>2, CompleteStays
  <2> QED BY <1>1, <2>1, <2>2, <2>3 DEF Grown
<1>3. ASSUME NEW j \in SignUps, StorePassword(j)
      PROVE  LET i == job[j].user
             IN /\ i \in DOMAIN users' /\ users'[i].live
                /\ \E s \in shelves' : s.owner = i /\ Complete(s)'
  <2> j \in Jobs /\ j # Filing
    BY OnboardingAssumption DEF Jobs
  <2>1. job[j].stage = "password"
    BY <1>3 DEF StorePassword
  <2>2. WhoseOK(j) /\ WhereOK(j) /\ MakesOK(j)
    BY <2>1, Running
  <2>3. PICK i : i = job[j].user
    OBVIOUS
  <2>4. PICK s : s = job[j].shelf
    OBVIOUS
  <2>5. i \in DOMAIN users /\ users[i].live /\ s \in shelves /\ s.owner = i
    BY <2>1, <2>2, <2>3, <2>4 DEF WhoseOK, WhereOK
  <2>6. Complete(s)
    BY <2>1, <2>2, <2>4 DEF MakesOK, Making, Complete, OnShelf, Has, RunsOK, RunOK
  <2>7. Complete(s)'
    BY <1>1, <2>6, CompleteStays
  <2> QED BY <1>1, <2>3, <2>5, <2>7 DEF Grown
<1>4. UNCHANGED passwords \/ \E j \in SignUps : StorePassword(j)
  <2>1. \A j \in Jobs : StorePassword(j) => job[j].stage = "password"
    BY DEF StorePassword
  <2> QED BY <2>1 DEF OnboardingNext, Recipe, NextUser, EnsureShelf, Collect, Adopt, Probe,
          CreateBook, OwnBook, BindBook, EnsureRule, SignUp, NewShelf, SignUpFails, Stop,
          onboardingVars
<1>5. CASE UNCHANGED passwords
  BY <1>2, <1>5 DEF PasswordsOK
<1>6. ASSUME NEW j \in SignUps, StorePassword(j) PROVE PasswordsOK'
  <2>1. passwords' = passwords \cup {job[j].user}
    BY <1>6 DEF StorePassword
  <2>2. \A i \in passwords' : /\ i \in DOMAIN users' /\ users'[i].live
                              /\ \E s \in shelves' : s.owner = i /\ Complete(s)'
    BY <1>2, <1>3, <1>6, <2>1
  <2> QED BY <2>2 DEF PasswordsOK
<1> QED BY <1>4, <1>5, <1>6

LEMMA PlainKeeps ==
    ASSUME BootOK, Plain, [OnboardingNext]_onboardingVars PROVE Plain'
<1> USE DEF Plain
<1>1. CASE UNCHANGED <<starts, applied, schema, grants>>
  BY <1>1
<1>2. CASE Boot
  <2>1. starts' \in 0..MaxStarts
    BY <1>2, OnboardingAssumption DEF Boot
  <2> QED BY <1>2, <2>1 DEF Boot, adminVars
<1>3. CASE Record
  <2>1. Files[current] \in {Files[i] : i \in DOMAIN Files}
    BY <1>3, TheFiles DEF Record, BootOK, Working
  <2> QED BY <1>3, <2>1 DEF Record, adminVars
<1>4. CASE PageAdminStep
  BY <1>4 DEF PageAdminStep, ReadLegacy, CopyLegacy, DropLegacy, WriteSchema, EnsureRole,
     GrantPage, AssignFirst
<1>5. CASE NextMigration \/ SeedPublicUser \/ Dedupe \/ NextUser
  BY <1>1, <1>5 DEF NextMigration, SeedPublicUser, Dedupe, NextUser, adminVars
<1>6. CASE RecipeStep
  BY <1>1, <1>6, RecipeFrame DEF bootSame
<1>7. CASE Stop \/ UNCHANGED onboardingVars
  BY <1>1, <1>7 DEF Stop, Down, onboardingVars, bootVars, adminVars
<1> QED BY <1>2, <1>3, <1>4, <1>5, <1>6, <1>7 DEF OnboardingNext, BootStep, RecipeStep

LEMMA TypeIs ==
    ASSUME Plain, BootOK, RightsOK, UsersOK, AdminsOK, HomesOK, PasswordsOK, RunsOK
    PROVE  OnboardingTypeOK
<1>1. admins \subseteq DOMAIN users
  <2>1. Humans \in SUBSET Nat /\ Humans \subseteq DOMAIN users
    BY DEF Humans, Present, UsersOK
  <2>2. FirstHuman \subseteq Humans
    BY <2>1, LeastIs DEF FirstHuman
  <2> QED BY <2>1, <2>2 DEF AdminsOK
<1>2. passwords \subseteq DOMAIN users
  BY DEF PasswordsOK
<1>3. \A j \in Jobs : job[j].stage \in RecipeStages /\ job[j].made \subseteq DOMAIN books
                      /\ job[j].user \in {0} \cup DOMAIN users
  BY DEF RunsOK, RunOK
<1>4. \A s \in shelves : s.owner \in DOMAIN users /\ s.k >= 1
  BY DEF HomesOK, ShelvesOK
<1>5. \A r \in rules : r.shelf \in shelves /\ <<r.shelf, r.book>> \in shelved
  BY DEF HomesOK, RulesOK
<1>6. /\ shelved \subseteq shelves \X DOMAIN books /\ books \in Seq(OwnedBook)
      /\ \A b \in DOMAIN books : books[b].owner \in {0} \cup DOMAIN users
  BY DEF HomesOK, BooksOK, ShelvedOK
<1>7. /\ phase \in {"down", "migrating", "serving"} /\ current \in 0..Len(Files)
      /\ users \in Seq(UserRow) /\ old \cup new \cup legacyRead \subseteq Legacy
  BY TheFiles DEF BootOK, UsersOK, RightsOK
<1> QED BY <1>1, <1>2, <1>3, <1>4, <1>5, <1>6, <1>7 DEF OnboardingTypeOK, Plain

-----------------------------------------------------------------------------
(* What the invariant says.                                                  *)

\* A complete shelf has nothing twice: on the shelf of one who signed up all books are
\* theirs, and of those who share a shelf of before only the oldest has default books.
LEMMA FurnishedIs ==
    ASSUME UsersOK, HomesOK, NEW s \in shelves, Complete(s)
    PROVE  Equipped(s) /\ (users[s.owner].live \/ EarlyDefaults(s.slug) => Furnished(s))
<1>1. ASSUME users[s.owner].live \/ EarlyDefaults(s.slug),
             NEW b \in BooksOf(s), NEW c \in BooksOf(s), books[b].slug \in Specs,
             books[c].slug = books[b].slug
      PROVE  b = c
  <2>1. b \in DOMAIN books /\ c \in DOMAIN books
    BY DEF BooksOf
  <2>2. PICK o, p : o = books[b].owner /\ p = books[c].owner
    OBVIOUS
  <2>3. /\ o # 0 /\ p # 0
        /\ IF users[s.owner].live THEN o = s.owner ELSE ~users[o].live /\ Slug(o) = s.slug
        /\ IF users[s.owner].live THEN p = s.owner ELSE ~users[p].live /\ Slug(p) = s.slug
    BY <2>2 DEF HomesOK, ShelvedOK
  <2>4. o \in DOMAIN users /\ p \in DOMAIN users /\ o \in Nat /\ p \in Nat
    BY <2>1, <2>2, <2>3 DEF HomesOK, BooksOK, UsersOK
  <2>n. Neat(o) /\ Neat(p)
    BY <1>1, <2>3 DEF Neat
  <2>5. o = p
    <3>1. CASE users[s.owner].live
      BY <2>3, <3>1
    <3>2. CASE ~users[s.owner].live
      <4>1. Oldest(o) /\ Oldest(p)
        BY <1>1, <2>1, <2>2, <2>3, <2>n, <3>2 DEF HomesOK, BooksOK
      <4>2. Slug(o) = Slug(p)
        BY <2>3, <3>2
      <4> QED BY <2>4, <4>1, <4>2 DEF Oldest
    <3> QED BY <3>1, <3>2
  <2>6. books[b] = books[c]
    <3>1. /\ books[b] = [slug |-> books[b].slug, owner |-> books[b].owner]
          /\ books[c] = [slug |-> books[c].slug, owner |-> books[c].owner]
      BY <2>1, BooksTyped DEF HomesOK
    <3> QED BY <1>1, <2>2, <2>5, <3>1
  <2> QED BY <1>1, <2>1, <2>2, <2>3, <2>n, <2>6 DEF HomesOK, BooksOK
<1>2. ASSUME users[s.owner].live \/ EarlyDefaults(s.slug), NEW slug \in Specs
      PROVE  Cardinality({b \in BooksOf(s) : books[b].slug = slug}) = 1
  <2>1. PICK b \in BooksOf(s) : books[b].slug = slug
    BY DEF Complete, Has, BooksOf
  <2>2. {c \in BooksOf(s) : books[c].slug = slug} = {b}
    BY <1>1, <1>2, <2>1
  <2> QED BY <2>2, FS_Singleton
<1>3. Cardinality({r \in rules : r.shelf = s}) = 1
  <2>1. PICK r \in rules : r.shelf = s
    BY DEF Complete, HasRule
  <2>2. {q \in rules : q.shelf = s} = {r}
    BY <2>1 DEF HomesOK, RulesOK
  <2> QED BY <2>2, FS_Singleton
<1>4. \A r \in rules : r.shelf = s => books[r.book].slug = Fleeting
  BY DEF HomesOK, RulesOK
<1>5. Specs \subseteq {books[b].slug : b \in BooksOf(s)}
  BY DEF Complete, Has, BooksOf
<1> QED BY <1>2, <1>3, <1>4, <1>5 DEF Equipped, Furnished

LEMMA SaysWhole == ASSUME OnboardingInv PROVE SignUpIsWhole
<1> SUFFICES ASSUME NEW i \in passwords
             PROVE  \E s \in shelves :
                       /\ s.owner = i /\ Furnished(s)
                       /\ \A b \in BooksOf(s) : books[b].owner = i
  BY DEF SignUpIsWhole
<1>1. PICK s \in shelves : s.owner = i /\ Complete(s)
  BY DEF OnboardingInv, PasswordsOK
<1>2. users[i].live
  BY DEF OnboardingInv, PasswordsOK
<1>3. Furnished(s)
  BY <1>1, <1>2, FurnishedIs DEF OnboardingInv
<1>4. \A b \in BooksOf(s) : books[b].owner = i
  BY <1>1, <1>2 DEF OnboardingInv, HomesOK, ShelvedOK
<1> QED BY <1>1, <1>3, <1>4

LEMMA SaysSurvive == ASSUME OnboardingInv PROVE MigrationsSurvive
<1> USE DEF OnboardingInv
<1>1. \A n \in 1..4 : Applied(n) => Ended(n)
  BY DEF Ended
<1>2. RightsSurvive
  BY RightsSay
<1>3. RecordedIsDone
  <2>1. "auth-schema" \in applied => \E i \in Present : users[i].name = "public_user"
    BY <1>1, TheFiles DEF UsersOK, Applied
  <2>2. "unique-user-identifiers" \in applied =>
           \A i, j \in Present : users[i].name = users[j].name => i = j
    BY <1>1, TheFiles DEF UsersOK, Applied
  <2>3. "add-page-administrator" \in applied =>
           new = Legacy /\ old = {} /\ adminRole /\ grants = PageRelations /\ admins = FirstHuman
    BY <1>1, TheFiles, RightsSay DEF AdminsOK, Applied
  <2> QED BY <2>1, <2>2, <2>3 DEF RecordedIsDone, FirstHuman, Humans
<1>4. BackfillDone
  <2> SUFFICES ASSUME "bootstrap-users-shelf" \in applied
               PROVE  /\ \A i \in DOMAIN users : ~users[i].live =>
                            \E s \in shelves : /\ s.slug = Slug(i) /\ s.k = 1
                               /\ Equipped(s) /\ (EarlyDefaults(Slug(i)) => Furnished(s))
                      /\ \A b \in DOMAIN books :
                            books[b].owner # 0 /\ ~users[books[b].owner].live
                               => \E s \in shelves : <<s, b>> \in shelved
    BY DEF BackfillDone
  <2>1. \A i \in DOMAIN users : ~users[i].live => Filed(i)
    BY <1>1, TheFiles DEF FiledOK, Applied
  <2>2. \A i \in DOMAIN users : ~users[i].live =>
           \E s \in shelves : /\ s.slug = Slug(i) /\ s.k = 1
                               /\ Equipped(s) /\ (EarlyDefaults(Slug(i)) => Furnished(s))
    BY <2>1, FurnishedIs DEF Filed
  <2>3. ASSUME NEW b \in DOMAIN books, books[b].owner # 0, ~users[books[b].owner].live
        PROVE  \E s \in shelves : <<s, b>> \in shelved
    <3>1. books[b].owner \in DOMAIN users
      BY <2>3 DEF HomesOK, BooksOK
    <3> QED BY <2>1, <2>3, <3>1 DEF Filed
  <2> QED BY <2>2, <2>3
<1> QED BY <1>2, <1>3, <1>4 DEF MigrationsSurvive

-----------------------------------------------------------------------------
LEMMA InitHolds == ASSUME OnboardingInit PROVE OnboardingInv
<1> USE DEF OnboardingInit, BootInit
<1>1. Plain
  BY OnboardingAssumption DEF Plain
<1>2. BootOK
  BY TheFiles DEF BootOK, Applied, Working, PageSteps
<1>3. \A n : ~Ended(n) /\ ~Applied(n)
  BY DEF Ended, Applied
<1>4. RightsOK
  BY <1>3 DEF RightsOK, RightsSurvive
<1>5. UsersOK
  BY <1>3, OnboardingAssumption DEF UsersOK
<1>6. AdminsOK
  BY <1>3 DEF AdminsOK
<1>7. HomesOK
  <2>1. ShelvesOK /\ ShelvedOK /\ RulesOK
    BY FS_EmptySet DEF ShelvesOK, ShelvedOK, RulesOK
  <2>2. BooksOK
    <3>1. books \in Seq(OwnedBook) /\ \A b \in DOMAIN books : books[b].owner \in {0} \cup DOMAIN users
      BY OnboardingAssumption
    <3>2. ASSUME NEW b \in DOMAIN books, books[b].owner # 0, books[b].slug \in Specs,
                 Neat(books[b].owner)
          PROVE  /\ \A c \in DOMAIN books : books[c] = books[b] => b = c
                 /\ Oldest(books[b].owner)
      <4>1. PICK o \in DOMAIN Early : o = books[b].owner
        BY <3>1, <3>2
      <4>2. ~Early[o].live /\ SlugOf[Early[o].name] = Slug(o)
        BY OnboardingAssumption DEF Slug
      <4>3. EarlyDefaults(Slug(o))
        BY <3>2, <4>1, <4>2 DEF Neat
      <4>4. /\ \A c \in DOMAIN EarlyBooks : EarlyBooks[c] = EarlyBooks[b] => c = b
            /\ \A i \in DOMAIN Early : i < o => SlugOf[Early[i].name] # Slug(o)
        BY <3>2, <4>1, <4>2, <4>3 DEF EarlyDefaults
      <4> QED BY <4>1, <4>4 DEF Oldest, Slug
    <3> QED BY <3>1, <3>2 DEF BooksOK
  <2> QED BY <2>1, <2>2 DEF HomesOK
<1>8. \A j \in Jobs : job[j] = Resting
  OBVIOUS
<1>9. ~BackfillRuns /\ Filing \in Jobs /\ SignUps \subseteq Jobs
  BY DEF BackfillRuns, Jobs
<1>10. FiledOK /\ PasswordsOK
  BY <1>3, <1>8, <1>9 DEF FiledOK, PasswordsOK
<1>11. RunsOK
  <2>1. IsRun(Resting) /\ Resting.stage = "idle" /\ Resting.user = 0 /\ Resting.made = {}
    BY DEF Resting, IsRun
  <2>2. \A j \in Jobs : RunOK(j)
    BY <1>8, <2>1 DEF RunOK, RecipeStages
  <2> QED BY <1>8, <1>9, <2>1, <2>2 DEF RunsOK
<1> QED BY <1>1, <1>2, <1>4, <1>5, <1>6, <1>7, <1>10, <1>11 DEF OnboardingInv

LEMMA StepHolds == ASSUME OnboardingInv, [OnboardingNext]_onboardingVars PROVE OnboardingInv'
<1>1. /\ Plain /\ BootOK /\ RightsOK /\ UsersOK /\ AdminsOK
      /\ HomesOK /\ FiledOK /\ PasswordsOK /\ RunsOK
  BY DEF OnboardingInv
<1>2. OnboardingTypeOK
  BY <1>1, TypeIs
<1>3. Plain' /\ BootOK' /\ RightsOK' /\ UsersOK' /\ AdminsOK'
  BY <1>1, <1>2, PlainKeeps, BootKeeps, RightsKeep, UsersKeep, AdminsKeep
<1>4. HomesOK' /\ FiledOK' /\ PasswordsOK' /\ RunsOK'
  BY <1>1, HomesKeep, FiledKeep, PasswordsKeep, RunsKeep
<1> QED BY <1>3, <1>4 DEF OnboardingInv

\* The invariant of the migrations and the sign-ups, at every point of every run.
THEOREM OnboardingInvariant == OnboardingSpec => []OnboardingInv
<1>1. OnboardingInit => OnboardingInv
  BY InitHolds
<1>2. OnboardingInv /\ [OnboardingNext]_onboardingVars => OnboardingInv'
  BY StepHolds
<1> QED BY <1>1, <1>2, PTL DEF OnboardingSpec

\* The rows of the users' homes refer to rows that are there
\* (20260825-bootstrap-users-shelf.py and UserServiceImpl.create_user).
THEOREM OnboardingTypeCorrect == OnboardingSpec => []OnboardingTypeOK
<1>1. OnboardingInv => OnboardingTypeOK
  BY TypeIs DEF OnboardingInv
<1> QED BY <1>1, OnboardingInvariant, PTL

\* Whenever the service dies while it migrates, and however often: no right is lost, and a
\* migration that is recorded has done all it does (runner.py, run_pending_migrations).
THEOREM MigrationsAlwaysSurvive == OnboardingSpec => []MigrationsSurvive
<1>1. OnboardingInv => MigrationsSurvive
  BY SaysSurvive
<1> QED BY <1>1, OnboardingInvariant, PTL

\* Whoever has a password has a shelf of their own with each default book and the rule,
\* whatever overlapped with their sign-up (UserServiceImpl.create_user).
THEOREM SignUpsAreWhole == OnboardingSpec => []SignUpIsWhole
<1>1. OnboardingInv => SignUpIsWhole
  BY SaysWhole
<1> QED BY <1>1, OnboardingInvariant, PTL
===============================================================================
