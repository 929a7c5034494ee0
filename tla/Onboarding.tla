------------------------------ MODULE Onboarding ------------------------------
(***************************************************************************)
(* How a user comes by a shelf, its default books and the rule that files  *)
(* new notes: at sign-up (UserServiceImpl.create_user behind               *)
(* CreateUserAuth), and for the users of before by the migration           *)
(* 20260825-bootstrap-users-shelf.  Both run the same recipe, call by      *)
(* call; sign-ups overlap, and both may be cut short.                      *)
(***************************************************************************)
EXTENDS Boots

CONSTANTS
    SignUps,        \* sign-ups in flight
    Names,          \* user names signed up with
    SlugOf,         \* users_shelf_slug_for: [names -> slugs]
    Specs,          \* slugs of the default books
    Fleeting,       \* the one the rule is about
    EarlyBooks,     \* books of the early users: a sequence of [slug, owner]
    MaxSignUps      \* bound: sign-ups begun

Filing == "backfill"    \* the migration's own run of the recipe
Jobs == SignUps \cup {Filing}

VARIABLES
    shelves,        \* rows: slug, the number behind it, owner
    books,          \* rows: slug, owner of the tuple (0: not written)
    shelved,        \* rows of shelf_book: <<shelf, book>>
    rules,          \* NoteCreated rules: shelf, book, number
    passwords,      \* ids of the users with a password row
    job,            \* runs of the recipe
    signUps

homeVars == <<shelves, books, shelved, rules>>
onboardingVars == <<bootVars, homeVars, passwords, job, signUps>>

UserRow == [name : DOMAIN SlugOf, kind : {"human", "system"}, live : BOOLEAN, gone : BOOLEAN]
OwnedBook == [slug : Specs \cup {EarlyBooks[b].slug : b \in DOMAIN EarlyBooks}, owner : Nat]

ASSUME OnboardingAssumption ==
    /\ Filing \notin SignUps /\ Fleeting \in Specs /\ MaxStarts \in Nat
    /\ Names \cup {"public_user"} \subseteq DOMAIN SlugOf
    /\ Early \in Seq(UserRow) /\ EarlyBooks \in Seq(OwnedBook)
    /\ \A i \in DOMAIN Early : ~Early[i].live /\ ~Early[i].gone
    /\ \A b \in DOMAIN EarlyBooks : EarlyBooks[b].owner \in {0} \cup DOMAIN Early

\* Of the users of before whose names have this slug only the oldest has default books,
\* each once: the others' are put beside them, on the one shelf of the slug.
EarlyDefaults(slug) ==
    \A b \in DOMAIN EarlyBooks :
        LET o == EarlyBooks[b].owner
        IN EarlyBooks[b].slug \in Specs /\ o # 0 /\ SlugOf[Early[o].name] = slug =>
              /\ \A i \in DOMAIN Early : i < o => SlugOf[Early[i].name] # slug
              /\ \A c \in DOMAIN EarlyBooks : EarlyBooks[c] = EarlyBooks[b] => c = b

Resting == [stage |-> "idle", user |-> 0, shelf |-> 0, todo |-> {}, made |-> {}]
RecipeStages == {"idle", "insert", "shelf", "collect", "adopt", "probe", "create", "own",
           "bind", "rule", "password"}
Shelf(slug, k, i) == [slug |-> slug, k |-> k, owner |-> i]
Slug(i) == SlugOf[users[i].name]
BooksOf(s) == {b \in DOMAIN books : <<s, b>> \in shelved}
Set(j, r) == job' = [job EXCEPT ![j] = r]
Go(j, s) == Set(j, [job[j] EXCEPT !.stage = s])

OnboardingInit ==
    /\ BootInit
    /\ shelves = {} /\ books = EarlyBooks /\ shelved = {} /\ rules = {}
    /\ passwords = {} /\ signUps = 0
    /\ job = [j \in Jobs |-> Resting]

-----------------------------------------------------------------------------
(* The migration: every user of before, in the order of the ids.             *)

NextUser ==
    /\ At("bootstrap-users-shelf", "begin") /\ job[Filing].stage = "idle"
    /\ LET later == {i \in Present : i > job[Filing].user}
       IN IF later = {}
          THEN step' = "record" /\ Set(Filing, Resting)
          ELSE /\ Set(Filing, [Resting EXCEPT !.stage = "shelf", !.user = Least(later)])
               /\ UNCHANGED step
    /\ UNCHANGED <<phase, starts, applied, current, users, adminVars, homeVars, passwords, signUps>>

\* _ensure_shelf_row: the shelf of that slug, whoever has it, or a new one.
EnsureShelf ==
    /\ job[Filing].stage = "shelf"
    /\ LET i == job[Filing].user
           there == {s \in shelves : s.slug = Slug(i) /\ s.k = 1}
           s == IF there = {} THEN Shelf(Slug(i), 1, i) ELSE CHOOSE t \in there : TRUE
       IN /\ shelves' = shelves \cup {s}
          /\ Set(Filing, [job[Filing] EXCEPT !.stage = "collect", !.shelf = s])
    /\ UNCHANGED <<bootVars, books, shelved, rules, passwords, signUps>>

\* _bind_user_books: the books whose owner tuple names the user.
Collect ==
    /\ job[Filing].stage = "collect"
    /\ Set(Filing, [job[Filing] EXCEPT !.stage = "adopt",
                        !.todo = {b \in DOMAIN books : books[b].owner = job[Filing].user}])
    /\ UNCHANGED <<bootVars, homeVars, passwords, signUps>>

Adopt ==
    /\ job[Filing].stage = "adopt"
    /\ LET r == job[Filing]
       IN IF r.todo = {} THEN Go(Filing, "probe") /\ UNCHANGED shelved
          ELSE \E b \in r.todo :
                 /\ Set(Filing, [r EXCEPT !.todo = @ \ {b}])
                 /\ shelved' = IF \E s \in shelves : <<s, b>> \in shelved
                               THEN shelved ELSE shelved \cup {<<r.shelf, b>>}
    /\ UNCHANGED <<bootVars, shelves, books, rules, passwords, signUps>>

-----------------------------------------------------------------------------
(* ZettelkastenStrategy.apply                                                *)

Probe(j) ==
    /\ job[j].stage = "probe"
    /\ Set(j, [job[j] EXCEPT !.stage = "create",
                   !.todo = Specs \ {books[b].slug : b \in BooksOf(job[j].shelf)}])
    /\ UNCHANGED <<bootVars, homeVars, passwords, signUps>>

\* create_directory: the row, then the owner tuple.
CreateBook(j) ==
    /\ job[j].stage = "create"
    /\ IF job[j].todo = {} THEN Go(j, "bind") /\ UNCHANGED books
       ELSE \E slug \in job[j].todo :
              /\ books' = Append(books, [slug |-> slug, owner |-> 0])
              /\ Set(j, [job[j] EXCEPT !.stage = "own", !.todo = @ \ {slug},
                             !.made = @ \cup {Len(books) + 1}])
    /\ UNCHANGED <<bootVars, shelves, shelved, rules, passwords, signUps>>

OwnBook(j) ==
    /\ job[j].stage = "own"
    /\ books' = [b \in DOMAIN books |->
                    IF b \in job[j].made /\ books[b].owner = 0
                    THEN [books[b] EXCEPT !.owner = job[j].user] ELSE books[b]]
    /\ Go(j, "create")
    /\ UNCHANGED <<bootVars, shelves, shelved, rules, passwords, signUps>>

BindBook(j) ==
    /\ job[j].stage = "bind"
    /\ LET r == job[j]
           loose == {b \in r.made : <<r.shelf, b>> \notin shelved}
       IN IF loose = {} THEN Go(j, "rule") /\ UNCHANGED shelved
          ELSE \E b \in loose : shelved' = shelved \cup {<<r.shelf, b>>} /\ UNCHANGED job
    /\ UNCHANGED <<bootVars, shelves, books, rules, passwords, signUps>>

\* ensure_default_fleeting_rule: the first rule of the shelf, and none without the
\* fleeting book.  Nobody else writes rules of a shelf before its recipe is through.
EnsureRule(j) ==
    /\ job[j].stage = "rule"
    /\ LET s == job[j].shelf
           target == {b \in BooksOf(s) : books[b].slug = Fleeting}
       IN rules' = IF target = {} \/ \E r \in rules : r.shelf = s THEN rules
                   ELSE rules \cup {[shelf |-> s, book |-> Least(target),
                                     n |-> Cardinality(rules)]}
    /\ IF j = Filing THEN Go(j, "idle") ELSE Go(j, "password")
    /\ UNCHANGED <<bootVars, shelves, books, shelved, passwords, signUps>>

-----------------------------------------------------------------------------
(* Sign-up.                                                                  *)

\* The user row, whose name has a unique index by now; taken, it is refused.
SignUp(j, name) ==
    /\ phase = "serving" /\ job[j].stage = "idle" /\ signUps < MaxSignUps
    /\ signUps' = signUps + 1
    /\ IF \E i \in Present : users[i].name = name
       THEN UNCHANGED <<users, job>>
       ELSE /\ users' = Append(users, User(name, "human", TRUE))
            /\ Set(j, [Resting EXCEPT !.stage = "shelf", !.user = Len(users) + 1])
    /\ UNCHANGED <<phase, starts, applied, current, step, adminVars, homeVars, passwords>>

\* Seeded fault: the shelf is looked up by its slug, as the migration does it.
ReuseShelf(j) ==
    /\ j # Filing /\ job[j].stage = "shelf"
    /\ LET slug == Slug(job[j].user)
           there == {s \in shelves : s.slug = slug}
           s == IF there = {} THEN Shelf(slug, 1, job[j].user) ELSE CHOOSE t \in there : TRUE
       IN /\ shelves' = shelves \cup {s}
          /\ Set(j, [job[j] EXCEPT !.stage = "probe", !.shelf = s])
    /\ UNCHANGED <<bootVars, books, shelved, rules, passwords, signUps>>

\* insert_shelf: slug, slug-2, slug-3, ... until the unique index lets it in.
NewShelf(j) ==
    /\ j # Filing /\ job[j].stage = "shelf"
    /\ LET slug == Slug(job[j].user)
           free == {k \in 1..Cardinality(shelves) + 1 : \A s \in shelves : s.slug = slug => s.k # k}
           s == Shelf(slug, Least(free), job[j].user)
       IN /\ shelves' = shelves \cup {s}
          /\ Set(j, [job[j] EXCEPT !.stage = "probe", !.shelf = s])
    /\ UNCHANGED <<bootVars, books, shelved, rules, passwords, signUps>>

StorePassword(j) ==
    /\ job[j].stage = "password"
    /\ passwords' = passwords \cup {job[j].user}
    /\ Set(j, Resting)
    /\ UNCHANGED <<bootVars, homeVars, signUps>>

\* A store raises or the client leaves; what was written stays.
SignUpFails(j) ==
    /\ j # Filing /\ job[j].stage # "idle"
    /\ Set(j, Resting)
    /\ UNCHANGED <<bootVars, homeVars, passwords, signUps>>

Stop ==
    /\ Down
    /\ job' = [j \in Jobs |-> Resting]
    /\ UNCHANGED <<homeVars, passwords, signUps>>

Recipe(j) ==
    \/ Probe(j) \/ CreateBook(j) \/ OwnBook(j) \/ BindBook(j) \/ EnsureRule(j)

OnboardingNext ==
    \/ BootStep /\ UNCHANGED <<homeVars, passwords, job, signUps>>
    \/ NextUser \/ EnsureShelf \/ Collect \/ Adopt
    \/ \E j \in Jobs : Recipe(j)
    \/ \E j \in SignUps :
          \/ \E name \in Names : SignUp(j, name)
          \/ NewShelf(j) \/ StorePassword(j) \/ SignUpFails(j)
    \/ Stop

OnboardingSpec == OnboardingInit /\ [][OnboardingNext]_onboardingVars

-----------------------------------------------------------------------------
OnboardingTypeOK ==
    /\ phase \in {"down", "migrating", "serving"} /\ starts \in 0..MaxStarts
    /\ applied \subseteq {Files[i] : i \in DOMAIN Files} /\ current \in 0..Len(Files)
    /\ users \in Seq(UserRow) /\ books \in Seq(OwnedBook)
    /\ old \cup new \cup legacyRead \subseteq Legacy /\ schema \in {"old", "bridge", "final"}
    /\ grants \subseteq PageRelations /\ admins \cup passwords \subseteq DOMAIN users
    /\ \A s \in shelves : s.owner \in DOMAIN users /\ s.k >= 1
    /\ \A b \in DOMAIN books : books[b].owner \in {0} \cup DOMAIN users
    /\ shelved \subseteq shelves \X DOMAIN books
    /\ \A r \in rules : r.shelf \in shelves /\ <<r.shelf, r.book>> \in shelved
    /\ \A j \in Jobs : job[j].stage \in RecipeStages /\ job[j].made \subseteq DOMAIN books
                       /\ job[j].user \in {0} \cup DOMAIN users

\* What the recipe makes of a shelf: every default book, and one rule, about the
\* fleeting one.
Equipped(s) ==
    /\ Specs \subseteq {books[b].slug : b \in BooksOf(s)}
    /\ Cardinality({r \in rules : r.shelf = s}) = 1
    /\ \A r \in rules : r.shelf = s => books[r.book].slug = Fleeting

\* And no default book twice.
Furnished(s) ==
    /\ Equipped(s)
    /\ \A slug \in Specs : Cardinality({b \in BooksOf(s) : books[b].slug = slug}) = 1

(* The backfill may be cut short and run again at any point                  *)
(* (20260825-bootstrap-users-shelf.py: "Idempotent on every step"): once it  *)
(* is recorded every user of before has a shelf with the default books and   *)
(* one rule, no book twice unless it was there twice, and every book they    *)
(* own is on a shelf.                                                        *)
BackfillDone ==
    "bootstrap-users-shelf" \in applied =>
        /\ \A i \in DOMAIN users : ~users[i].live =>
              \E s \in shelves : /\ s.slug = Slug(i) /\ s.k = 1
                                 /\ Equipped(s) /\ (EarlyDefaults(Slug(i)) => Furnished(s))
        /\ \A b \in DOMAIN books :
              books[b].owner # 0 /\ ~users[books[b].owner].live
                  => \E s \in shelves : <<s, b>> \in shelved

(* Migrations survive the death of the service: no right is lost on the way, *)
(* and what is recorded is done.                                             *)
MigrationsSurvive == RightsSurvive /\ RecordedIsDone /\ BackfillDone

(* A sign-up that came to its end has a furnished shelf of its own, whatever *)
(* overlapped with it and whoever else has the slug (shelf/postgres.py,      *)
(* insert_shelf), with nobody else's books on it.                            *)
SignUpIsWhole ==
    \A i \in passwords :
        \E s \in shelves :
            /\ s.owner = i /\ Furnished(s)
            /\ \A b \in BooksOf(s) : books[b].owner = i
=============================================================================
