------------------------- MODULE NoteVersions_proofs -------------------------
(***************************************************************************)
(* Proofs about the history of a note.                                     *)
(***************************************************************************)
EXTENDS NoteVersions, FiniteSetTheorems, WellFoundedInduction, TLAPS

-----------------------------------------------------------------------------
(* Sets of numbers *)

LEMMA MaxIs ==
  ASSUME NEW S \in SUBSET Nat, NEW m \in S, \A k \in S : k <= m
  PROVE  Max(S) = m
  <1>1. \A x \in S : (\A y \in S : x >= y) => x = m
    OBVIOUS
  <1>2. \A y \in S : m >= y
    OBVIOUS
  <1> QED
    BY <1>1, <1>2 DEF Max

\* A set of numbers that has a bound has a greatest one.
LEMMA GreatestExists ==
  ASSUME NEW S \in SUBSET Nat, S # {}, NEW n \in Nat, \A k \in S : k <= n
  PROVE  \E m \in S : \A k \in S : k <= m
  <1> DEFINE R == {ss \in Nat \X Nat : ss[1] < ss[2]}
             T == {b \in Nat : \A k \in S : k <= b}
  <1>1. IsWellFoundedOn(R, Nat)
    BY NatLessThanWellFounded DEF OpToRel
  <1>2. n \in T /\ T \in SUBSET Nat
    OBVIOUS
  <1>3. PICK b \in T : \A a \in T : ~ (<<a, b>> \in R)
    <2> HIDE DEF R, T
    <2> QED
      BY <1>1, <1>2, WFMin
  <1>4. b \in S
    <2> SUFFICES ASSUME b \notin S PROVE FALSE
      OBVIOUS
    <2>1. PICK k \in S : TRUE
      OBVIOUS
    <2>2. b # 0
      BY <2>1
    <2>3. b - 1 \in T
      BY <2>2
    <2>4. b \in Nat /\ b - 1 \in Nat /\ b - 1 < b
      BY <2>2
    <2>5. <<b - 1, b>> \in R
      BY <2>4
    <2> QED
      BY <1>3, <2>3, <2>5
  <1> QED
    BY <1>4

\* Induction, for a set of naturals.
LEMMA NatSetInduction ==
  ASSUME NEW S \in SUBSET Nat, 0 \in S, \A n \in S : n + 1 \in S
  PROVE  S = Nat
  <1> DEFINE R == {ss \in Nat \X Nat : ss[1] < ss[2]}
             T == Nat \ S
  <1>1. IsWellFoundedOn(R, Nat)
    BY NatLessThanWellFounded DEF OpToRel
  <1>2. CASE T # {}
    <2>1. PICK n \in T : \A m \in T : ~ (<<m, n>> \in R)
      <3> HIDE DEF R
      <3> QED
        BY <1>1, <1>2, WFMin
    <2>2. n # 0 /\ n - 1 \in Nat /\ n - 1 < n
      BY <2>1
    <2>3. n - 1 \in S
      BY <2>1, <2>2
    <2> QED
      BY <2>1, <2>2, <2>3
  <1> QED
    BY <1>2

-----------------------------------------------------------------------------
(* The inductive invariant.  It is about the requests that are about to    *)
(* append: what they counted may be old by then.                           *)

Held == Cardinality(Indexes)

\* The versions that only a delta gives.
AsDeltas == Indexes \ IndexesOf(snapshots)

\* Requests that are making the first version, and those about to append one.
Started == {c \in Caller : req[c].pc \in {"parent", "owner", "index"}}
First == Started \cup {c \in Caller : At(c, "append")}

\* Nothing is done to a note before its row is there, or after it is gone.
InsertFirst ==
  /\ ~inserted => row = NoRow /\ links = {} /\ Busy = {}
  /\ \A c \in Caller : At(c, "content") =>
       req[c].ask \in Doc /\ row = NoRow /\ links = {} /\ Busy = {c}
  /\ row = NoRow => snapshots = {} /\ deltas = {}

NoGap ==
  /\ IsFiniteSet(Indexes)
  /\ Indexes = 1..Held
  /\ Indexes # {} => 1 \in IndexesOf(snapshots)

OneEach == \A d, e \in deltas : d.index = e.index => d = e

Room == IsFiniteSet(Busy) /\ Held + Cardinality(Busy) <= MaxVersions

\* Whoever is about to append counted at most the versions there are, and found
\* room for a delta if nobody took its index since.
Queued ==
  row # NoRow => \A c \in Caller : At(c, "append") =>
    /\ req[c].n \in 1..Held + 1
    /\ req[c].base # 0 => snapshots # {}
    /\ req[c].base # 0 /\ req[c].n = Held + 1 => Cardinality(AsDeltas) < MaxDeltas

FewDeltas == Cardinality(AsDeltas) <= MaxDeltas

Prev(i) == Max({j \in IndexesOf(snapshots) : j < i})

\* If no update came before the first snapshot, two requests that counted the same
\* versions append the same kind of version, so that one of them is refused.
Alike(c) ==
  /\ req[c].n <= Held => (req[c].base = 0 <=> req[c].n \in IndexesOf(snapshots))
  /\ req[c].n = Held + 1 => (req[c].base = 0 <=> Full \/ snapshots = {})
  /\ req[c].base # 0 => req[c].base = Prev(req[c].n)

InOrder ==
  ~early =>
    /\ IndexesOf(snapshots) \cap IndexesOf(deltas) = {}
    /\ \A d \in deltas : d.base = Prev(d.index)
    /\ row # NoRow /\ snapshots = {} => \A c, d \in First : c = d
    /\ row # NoRow /\ snapshots # {} => Started = {}
    /\ row # NoRow => \A c \in Caller : At(c, "append") => Alike(c)

NoteInv ==
  NoteTypeOK /\ InsertFirst /\ NoGap /\ OneEach /\ Room /\ Queued /\ FewDeltas /\ InOrder

-----------------------------------------------------------------------------
(* What the state says *)

LEMMA HeldIs ==
  ASSUME NoGap
  PROVE  /\ Held \in Nat
         /\ Max(Indexes \cup {0}) = Held /\ NextIndex = Held + 1
         /\ IsFiniteSet(IndexesOf(snapshots)) /\ IsFiniteSet(IndexesOf(deltas))
         /\ IsFiniteSet(AsDeltas) /\ Cardinality(AsDeltas) \in Nat
  <1>1. Held \in Nat
    BY FS_CardinalityType DEF NoGap, Held
  <1>2. Max(Indexes \cup {0}) = Held
    <2> DEFINE S == Indexes \cup {0}
    <2>1. S \in SUBSET Nat /\ Held \in S /\ \A k \in S : k <= Held
      BY <1>1 DEF NoGap
    <2> HIDE DEF S
    <2>2. Max(S) = Held
      BY <2>1, MaxIs
    <2> QED
      BY <2>2 DEF S
  <1>3. IsFiniteSet(IndexesOf(snapshots)) /\ IsFiniteSet(IndexesOf(deltas))
    BY FS_Subset DEF NoGap, Indexes
  <1>4. IsFiniteSet(AsDeltas)
    BY FS_Subset DEF NoGap, AsDeltas
  <1>5. Cardinality(AsDeltas) \in Nat
    BY <1>4, FS_CardinalityType
  <1> QED
    BY <1>1, <1>2, <1>3, <1>4, <1>5 DEF NextIndex

LEMMA LatestIs ==
  ASSUME NoteTypeOK, snapshots # {}
  PROVE  /\ Max(IndexesOf(snapshots)) \in IndexesOf(snapshots)
         /\ Max(IndexesOf(snapshots)) \in Index
         /\ \A k \in IndexesOf(snapshots) : k <= Max(IndexesOf(snapshots))
  <1> DEFINE S == IndexesOf(snapshots)
  <1>1. S \in SUBSET Index /\ S # {}
    BY DEF NoteTypeOK, IndexesOf, Snapshot
  <1>2. S \in SUBSET Nat /\ \A k \in S : k <= MaxVersions
    BY <1>1, VersionsAssumption DEF Index
  <1> HIDE DEF S
  <1>3. PICK m \in S : \A k \in S : k <= m
    BY <1>1, <1>2, VersionsAssumption, GreatestExists
  <1>4. Max(S) = m
    BY <1>2, <1>3, MaxIs
  <1> QED
    BY <1>1, <1>3, <1>4 DEF S

\* A delta has an index of its own, so that there are as many as indexes.
LEMMA DeltasCounted ==
  ASSUME NoGap, OneEach
  PROVE  /\ IsFiniteSet(deltas)
         /\ Cardinality(AsDeltas) <= Cardinality(deltas)
  <1> DEFINE I == IndexesOf(deltas)
             f == [d \in deltas |-> d.index]
  <1>1. IsFiniteSet(I)
    BY HeldIs
  <1>2. f \in Injection(deltas, I)
    BY DEF OneEach, IndexesOf, Injection, IsInjective
  <1>3. f \in Surjection(deltas, I)
    BY DEF IndexesOf, Surjection
  <1>4. IsFiniteSet(deltas) /\ Cardinality(deltas) = Cardinality(I)
    <2> HIDE DEF I, f
    <2> QED
      BY <1>1, <1>2, <1>3, FS_Injection
  <1>5. AsDeltas \in SUBSET I
    BY DEF AsDeltas, Indexes
  <1>6. Cardinality(AsDeltas) <= Cardinality(I)
    <2> HIDE DEF I
    <2> QED
      BY <1>1, <1>5, FS_Subset
  <1> QED
    BY <1>4, <1>6

\* The patches of a delta are a title and a text, and give one back.
LEMMA MergeTyped ==
  ASSUME NEW doc \in Doc, NEW ask \in Draft
  PROVE  Merge(doc, ask) \in Doc
  BY DEF Merge, Doc, Draft

LEMMA TextPatchTyped ==
  ASSUME NEW old \in Text, NEW new \in Text
  PROVE  TextPatch(old, new) \in Text \cup {NoChange}
  <1>1. PICK S \in SUBSET Line : new \in [S -> Word]
    BY DEF Text
  <1>2. Carried(old, new) \in SUBSET S
    BY <1>1 DEF Carried
  <1> DEFINE C == Carried(old, new)
             p == [l \in C |-> new[l]]
  <1>3. C \in SUBSET Line
    BY <1>2
  <1> HIDE DEF C
  <1>4. p \in [C -> Word]
    BY <1>1, <1>2 DEF C
  <1>5. p \in Text
    BY <1>3, <1>4 DEF Text
  <1> QED
    BY <1>5 DEF TextPatch, C

LEMMA DocFields ==
  ASSUME NEW doc \in Doc
  PROVE  doc.title \in Title /\ doc.text \in Text /\ doc # NoRow
  <1>1. DOMAIN doc = {"title", "text"} /\ DOMAIN NoRow = {"title"}
    BY DEF Doc, NoRow
  <1> QED
    BY <1>1 DEF Doc

LEMMA SomeDoc == NoDoc \in Doc
  <1>1. PICK t \in Title : TRUE
    BY VersionsAssumption
  <1>2. [l \in {} |-> l] \in [{} -> Word]
    OBVIOUS
  <1>3. [l \in {} |-> l] \in Text
    BY <1>2 DEF Text
  <1>4. [title |-> t, text |-> [l \in {} |-> l]] \in Doc
    BY <1>3 DEF Doc
  <1> QED
    BY <1>4 DEF NoDoc

LEMMA IdleTyped == Idle \in Request /\ Idle.pc = "idle"
  BY SomeDoc, VersionsAssumption DEF Idle, Request, Step, Draft, Doc

-----------------------------------------------------------------------------
(* Reconstruction.  The recursion of ContentAt is unfolded with the        *)
(* induction over the naturals in its set form.                            *)

\* One more version, onto the document of the one before.
Replayed(D, k, doc) ==
  IF k \notin IndexesOf(D) THEN doc
  ELSE LET d == CHOOSE d \in D : d.index = k
       IN  [title |-> Apply(d.title, doc.title), text |-> Apply(d.text, doc.text)]

IsReplay(D, s, i, f) ==
  f = [k \in s.index..i |-> IF k = s.index THEN s.doc ELSE Replayed(D, k, f[k - 1])]

LEMMA ReplayedTyped ==
  ASSUME NEW D \in SUBSET Delta, NEW k, NEW doc \in Doc
  PROVE  Replayed(D, k, doc) \in Doc
  <1>1. CASE k \in IndexesOf(D)
    <2> DEFINE d == CHOOSE d \in D : d.index = k
    <2>1. d \in D
      BY <1>1 DEF IndexesOf
    <2> HIDE DEF d
    <2>2. d.title \in Title \cup {NoChange} /\ d.text \in Text \cup {NoChange}
      BY <2>1 DEF Delta
    <2>3. Apply(d.title, doc.title) \in Title /\ Apply(d.text, doc.text) \in Text
      BY <2>2, DocFields DEF Apply
    <2>4. Replayed(D, k, doc) = [title |-> Apply(d.title, doc.title), text |-> Apply(d.text, doc.text)]
      BY <1>1 DEF Replayed, d
    <2> QED
      BY <2>3, <2>4 DEF Doc
  <1> QED
    BY <1>1 DEF Replayed

LEMMA ReplayExists ==
  ASSUME NEW D, NEW s, s.index \in Nat, NEW i \in Nat, s.index <= i
  PROVE  \E f : IsReplay(D, s, i, f)
  <1> DEFINE S == {n \in Nat : \E f : IsReplay(D, s, s.index + n, f)}
  <1>1. 0 \in S
    <2> DEFINE f == [k \in s.index..s.index |-> s.doc]
    <2>1. f = [k \in s.index..s.index |-> IF k = s.index THEN s.doc ELSE Replayed(D, k, f[k - 1])]
      OBVIOUS
    <2>2. s.index + 0 = s.index
      OBVIOUS
    <2> QED
      BY <2>1, <2>2 DEF IsReplay
  <1>2. ASSUME NEW n \in S PROVE n + 1 \in S
    <2> DEFINE m == s.index + n
    <2>1. PICK f : IsReplay(D, s, m, f)
      OBVIOUS
    <2>2. n \in Nat /\ m \in Nat /\ s.index <= m
      OBVIOUS
    <2> DEFINE g == [k \in s.index..m + 1 |-> IF k = m + 1 THEN Replayed(D, m + 1, f[m]) ELSE f[k]]
    <2> HIDE DEF S, m
    <2>3. \A k \in s.index..m : g[k] = f[k]
      BY <2>2
    <2>4. \A k \in s.index..m : f[k] = IF k = s.index THEN s.doc ELSE Replayed(D, k, f[k - 1])
      BY <2>1 DEF IsReplay
    <2>5. ASSUME NEW k \in s.index..m + 1
          PROVE  g[k] = IF k = s.index THEN s.doc ELSE Replayed(D, k, g[k - 1])
      <3>1. CASE k = m + 1
        <4>1. k # s.index /\ k - 1 = m /\ m \in s.index..m
          BY <2>2, <3>1
        <4>2. g[k - 1] = f[m] /\ g[k] = Replayed(D, m + 1, f[m])
          BY <2>2, <2>3, <3>1, <4>1
        <4> QED
          BY <3>1, <4>1, <4>2
      <3>2. CASE k # m + 1
        <4>1. k \in s.index..m
          BY <2>2, <3>2
        <4>2. CASE k = s.index
          BY <2>3, <2>4, <4>1, <4>2
        <4>3. CASE k # s.index
          <5>1. k - 1 \in s.index..m
            BY <2>2, <4>1, <4>3
          <5>2. g[k] = f[k] /\ g[k - 1] = f[k - 1] /\ f[k] = Replayed(D, k, f[k - 1])
            BY <2>3, <2>4, <4>1, <4>3, <5>1
          <5> QED
            BY <4>3, <5>2
        <4> QED
          BY <4>2, <4>3
      <3> QED
        BY <3>1, <3>2
    <2>6. IsReplay(D, s, m + 1, g)
      <3>1. g = [k \in s.index..m + 1 |-> g[k]]
        OBVIOUS
      <3> HIDE DEF g
      <3> QED
        BY <2>5, <3>1 DEF IsReplay
    <2>7. m + 1 = s.index + (n + 1)
      BY <2>2 DEF m
    <2> QED
      BY <2>2, <2>6, <2>7 DEF S
  <1>3. S = Nat
    <2> HIDE DEF S
    <2>1. S \in SUBSET Nat
      BY DEF S
    <2> QED
      BY <1>1, <1>2, <2>1, NatSetInduction
  <1>4. i - s.index \in Nat /\ s.index + (i - s.index) = i
    OBVIOUS
  <1> QED
    BY <1>3, <1>4

LEMMA ReplayTyped ==
  ASSUME NEW D \in SUBSET Delta, NEW s, s.index \in Nat, s.doc \in Doc, NEW i \in Nat, s.index <= i,
         NEW f, IsReplay(D, s, i, f)
  PROVE  f[i] \in Doc
  <1> DEFINE S == {n \in Nat : s.index + n <= i => f[s.index + n] \in Doc}
  <1>0. \A k \in s.index..i : f[k] = IF k = s.index THEN s.doc ELSE Replayed(D, k, f[k - 1])
    BY DEF IsReplay
  <1>1. 0 \in S
    BY <1>0
  <1>2. ASSUME NEW n \in S PROVE n + 1 \in S
    <2>1. CASE s.index + (n + 1) <= i
      <3> DEFINE k == s.index + (n + 1)
      <3>1. k \in s.index..i /\ k # s.index /\ k - 1 = s.index + n /\ s.index + n <= i
        BY <2>1
      <3>2. f[k - 1] \in Doc
        BY <3>1
      <3> HIDE DEF k
      <3>3. f[k] \in Doc
        BY <1>0, <3>1, <3>2, ReplayedTyped
      <3> QED
        BY <3>3 DEF k
    <2> QED
      BY <2>1
  <1>3. S = Nat
    <2> HIDE DEF S
    <2>1. S \in SUBSET Nat
      BY DEF S
    <2> QED
      BY <1>1, <1>2, <2>1, NatSetInduction
  <1>4. i - s.index \in S /\ s.index + (i - s.index) = i
    <2> HIDE DEF S
    <2> QED
      BY <1>3
  <1> QED
    BY <1>4

\* ContentAt, of whatever snapshots and deltas there are.
SnapshotIn(S, i) ==
  CHOOSE s \in S : s.index <= i /\ \A t \in S : t.index <= i => t.index <= s.index
ContentIn(S, D, i) == (CHOOSE f : IsReplay(D, SnapshotIn(S, i), i, f))[i]

LEMMA ContentIs == \A i : ContentAt(i) = ContentIn(snapshots, deltas, i)
  BY DEF ContentAt, ContentIn, SnapshotFor, SnapshotIn, IsReplay, Replayed

LEMMA SnapshotInIs ==
  ASSUME NEW S \in SUBSET Snapshot, NEW i \in Index, \E s \in S : s.index <= i
  PROVE  /\ SnapshotIn(S, i) \in S
         /\ SnapshotIn(S, i).index <= i
         /\ \A t \in S : t.index <= i => t.index <= SnapshotIn(S, i).index
  <1> DEFINE T == {k \in IndexesOf(S) : k <= i}
  <1>1. T \in SUBSET Nat /\ T # {} /\ i \in Nat /\ \A k \in T : k <= i
    BY VersionsAssumption DEF IndexesOf, Snapshot, Index
  <1>2. PICK m \in T : \A k \in T : k <= m
    <2> HIDE DEF T
    <2> QED
      BY <1>1, GreatestExists
  <1>3. PICK s \in S : s.index = m
    BY DEF IndexesOf
  <1>4. s.index <= i /\ \A t \in S : t.index <= i => t.index <= s.index
    BY <1>2, <1>3 DEF IndexesOf
  <1> QED
    BY <1>4 DEF SnapshotIn

LEMMA SnapshotIs ==
  ASSUME NoteTypeOK, NEW i \in Index, \E s \in snapshots : s.index <= i
  PROVE  /\ SnapshotFor(i) \in snapshots
         /\ SnapshotFor(i).index <= i
         /\ \A t \in snapshots : t.index <= i => t.index <= SnapshotFor(i).index
  <1>1. SnapshotFor(i) = SnapshotIn(snapshots, i) /\ snapshots \in SUBSET Snapshot
    BY DEF SnapshotFor, SnapshotIn, NoteTypeOK
  <1> QED
    BY <1>1, SnapshotInIs

\* The replay that ContentIn chooses is one.
LEMMA ReplayIs ==
  ASSUME NEW S \in SUBSET Snapshot, NEW D, NEW i \in Index, \E s \in S : s.index <= i
  PROVE  \E s \in S : \E f :
           /\ s = SnapshotIn(S, i) /\ s.index <= i /\ s.doc \in Doc
           /\ s.index \in Nat /\ i \in Nat
           /\ IsReplay(D, s, i, f) /\ ContentIn(S, D, i) = f[i]
  <1> DEFINE s == SnapshotIn(S, i)
             f == CHOOSE f : IsReplay(D, s, i, f)
  <1>1. s \in S /\ s.index <= i
    BY SnapshotInIs
  <1>2. s.index \in Nat /\ s.doc \in Doc /\ i \in Nat
    BY <1>1, VersionsAssumption DEF Snapshot, Index
  <1>3. ContentIn(S, D, i) = f[i]
    BY DEF ContentIn
  <1> HIDE DEF s
  <1>4. IsReplay(D, s, i, f)
    BY <1>1, <1>2, ReplayExists
  <1> QED
    BY <1>1, <1>2, <1>3, <1>4 DEF s

LEMMA ContentTyped ==
  ASSUME NoteTypeOK, NEW i \in Index, \E s \in snapshots : s.index <= i
  PROVE  ContentAt(i) \in Doc
  <1>1. snapshots \in SUBSET Snapshot /\ deltas \in SUBSET Delta
    BY DEF NoteTypeOK
  <1>2. PICK s \in snapshots : \E f :
          /\ s.index <= i /\ s.doc \in Doc /\ s.index \in Nat /\ i \in Nat
          /\ IsReplay(deltas, s, i, f) /\ ContentIn(snapshots, deltas, i) = f[i]
    BY <1>1, ReplayIs
  <1> QED
    BY <1>1, <1>2, ReplayTyped, ContentIs

-----------------------------------------------------------------------------
(* What a step does to the requests *)

Requests == req \in [Caller -> Request]
Others(c) == \A d \in Caller : d # c => req'[d] = req[d]

LEMMA BeginIs ==
  ASSUME Requests, NEW c \in Caller, NEW a \in Step, NEW ask \in Draft, Begin(c, a, ask)
  PROVE  /\ Requests' /\ Others(c)
         /\ req'[c].pc = a /\ req'[c].ask = ask
  <1>1. PICK q : q = Idle
    OBVIOUS
  <1>2. q \in Request
    BY <1>1, IdleTyped
  <1>3. req' = [req EXCEPT ![c] = [q EXCEPT !.pc = a, !.ask = ask]]
    BY <1>1 DEF Begin
  <1>4. [q EXCEPT !.pc = a, !.ask = ask] \in Request
    BY <1>2 DEF Request
  <1>5. /\ [q EXCEPT !.pc = a, !.ask = ask].pc = a
        /\ [q EXCEPT !.pc = a, !.ask = ask].ask = ask
    BY <1>2 DEF Request
  <1>6. PICK r : r = [q EXCEPT !.pc = a, !.ask = ask]
    OBVIOUS
  <1>7. r \in Request /\ r.pc = a /\ r.ask = ask /\ req' = [req EXCEPT ![c] = r]
    BY <1>3, <1>4, <1>5, <1>6
  <1> QED
    BY <1>7 DEF Requests, Others

LEMMA EndIs ==
  ASSUME Requests, NEW c \in Caller, End(c)
  PROVE  Requests' /\ Others(c) /\ req'[c].pc = "idle"
  BY IdleTyped DEF Requests, Others, End

LEMMA GotoIs ==
  ASSUME Requests, NEW c \in Caller, NEW a \in Step, Goto(c, a)
  PROVE  Requests' /\ Others(c) /\ req'[c].pc = a
  BY DEF Requests, Others, Goto, Request

LEMMA ReadIs ==
  ASSUME Requests, NEW c \in Caller, row \in Doc,
         req' = [req EXCEPT ![c].pc = "write", ![c].seen = row]
  PROVE  Requests' /\ Others(c) /\ req'[c].pc = "write"
  BY DEF Requests, Others, Request, Step

LEMMA CountIs ==
  ASSUME Requests, NEW c \in Caller, NEW n \in 0..MaxVersions + 1, NEW b \in 0..MaxVersions,
         req' = [req EXCEPT ![c].pc = "append", ![c].n = n, ![c].base = b]
  PROVE  /\ Requests' /\ Others(c)
         /\ req'[c].pc = "append" /\ req'[c].n = n /\ req'[c].base = b
  BY DEF Requests, Others, Request, Step

\* Where requests are: one comes or goes at a time.
LEMMA BusyAfter ==
  ASSUME NEW c \in Caller, Others(c)
  PROVE  Busy' = IF req'[c].pc = "idle" THEN Busy \ {c} ELSE Busy \cup {c}
  BY DEF Others, Busy, At

\* A request that goes on has room for its version.
LEMMA RoomForOne ==
  ASSUME NoGap, Room, NEW c \in Busy
  PROVE  Held + 1 <= MaxVersions /\ Held \in 0..MaxVersions
  <1>1. Cardinality(Busy) \in Nat /\ Cardinality(Busy) # 0
    BY FS_CardinalityType, FS_EmptySet DEF Room
  <1>2. Held \in Nat
    BY HeldIs
  <1> QED
    BY <1>1, <1>2, VersionsAssumption DEF Room

LEMMA NewSnapshotTyped ==
  ASSUME NEW r \in Request, r.n \in Index
  PROVE  NewSnapshot(r) \in Snapshot /\ NewSnapshot(r).index = r.n
  <1>1. Meant(r) \in Doc
    BY MergeTyped DEF Meant, Request
  <1> QED
    BY <1>1 DEF NewSnapshot, Snapshot

LEMMA NewDeltaTyped ==
  ASSUME NEW r \in Request, r.n \in Index, r.base # 0
  PROVE  NewDelta(r) \in Delta /\ NewDelta(r).index = r.n /\ NewDelta(r).base = r.base
  <1>1. Meant(r) \in Doc /\ r.seen \in Doc
    BY MergeTyped DEF Meant, Request
  <1>2. TextPatch(r.seen.text, Meant(r).text) \in Text \cup {NoChange}
    BY <1>1, DocFields, TextPatchTyped
  <1>3. TitlePatch(r.seen.title, Meant(r).title) \in Title \cup {NoChange}
    BY <1>1, DocFields DEF TitlePatch
  <1>4. r.base \in Index
    BY VersionsAssumption DEF Request, Index
  <1> QED
    BY <1>1, <1>2, <1>3, <1>4 DEF NewDelta, Delta

\* The steps, by what they do to the request of their caller.
Beginning(c) ==
  \/ \E ask \in Drafts : BeginInsert(c, ask) \/ BeginUpdate(c, ask)
  \/ \E i \in Index : BeginRestore(c, i)

Inserting(c) == InsertContent(c) \/ AddToParents(c) \/ InsertOwner(c)

Counting(c) == LoadAppendContext(c) \/ GetNextVersionIndex(c)

Going(c) == Inserting(c) \/ ReadCurrent(c) \/ WriteContent(c) \/ Counting(c) \/ Append(c)

LEMMA TheSteps ==
  ASSUME NEW c \in Caller
  PROVE  (\/ \E ask \in Drafts : BeginInsert(c, ask) \/ BeginUpdate(c, ask)
          \/ \E i \in Index : BeginRestore(c, i)
          \/ DeleteNote(c) \/ InsertContent(c) \/ AddToParents(c) \/ InsertOwner(c)
          \/ ReadCurrent(c) \/ WriteContent(c) \/ LoadAppendContext(c)
          \/ GetNextVersionIndex(c) \/ Append(c) \/ Fail(c))
         => Beginning(c) \/ DeleteNote(c) \/ Going(c) \/ Fail(c)
  BY DEF Beginning, Inserting, Counting, Going

\* A request begins with an insert of a document, or with a reading.
LEMMA BeginningIs ==
  ASSUME NoteTypeOK, NEW c \in Caller, Beginning(c)
  PROVE  /\ Requests' /\ Others(c) /\ req[c].pc = "idle"
         /\ Held + Cardinality(Busy) < MaxVersions \/ ~NoGap
         /\ UNCHANGED <<row, links, snapshots, deltas, early>>
         /\ inserted \in BOOLEAN /\ raced' \in BOOLEAN
         /\ \/ /\ ~inserted /\ inserted' /\ req'[c].pc = "content" /\ req'[c].ask \in Doc
            \/ (links # {} \/ snapshots # {}) /\ inserted' = inserted /\ req'[c].pc = "read"
  <1>1. Requests
    BY DEF NoteTypeOK, Requests
  <1>2. \A a, ask : Begin(c, a, ask) => /\ Held + Cardinality(Busy) < MaxVersions \/ ~NoGap
                                        /\ req[c].pc = "idle" /\ raced' \in BOOLEAN /\ early' = early
    BY HeldIs DEF Begin, At, NoteTypeOK
  <1>3. ASSUME NEW ask \in Drafts, BeginInsert(c, ask)
        PROVE  /\ Requests' /\ Others(c) /\ ~inserted /\ inserted'
               /\ req'[c].pc = "content" /\ req'[c].ask \in Doc /\ Begin(c, "content", ask)
    <2>1. ask \in Draft /\ "content" \in Step /\ ask \in Doc /\ Begin(c, "content", ask)
      BY <1>3, VersionsAssumption DEF BeginInsert, Step
    <2> QED
      BY <1>1, <1>3, <2>1, BeginIs DEF BeginInsert
  <1>4. ASSUME NEW ask \in Drafts, BeginUpdate(c, ask)
        PROVE  /\ Requests' /\ Others(c) /\ links # {} /\ inserted' = inserted
               /\ req'[c].pc = "read" /\ Begin(c, "read", ask)
    <2>1. ask \in Draft /\ "read" \in Step /\ Begin(c, "read", ask)
      BY <1>4, VersionsAssumption DEF BeginUpdate, Step
    <2> QED
      BY <1>1, <1>4, <2>1, BeginIs DEF BeginUpdate
  <1>5. ASSUME NEW i \in Index, BeginRestore(c, i)
        PROVE  /\ Requests' /\ Others(c) /\ snapshots # {} /\ inserted' = inserted
               /\ req'[c].pc = "read" /\ \E ask : Begin(c, "read", ask)
    <2>1. ContentAt(i) \in Doc
      BY <1>5, ContentTyped DEF BeginRestore
    <2>2. PICK doc : doc = ContentAt(i)
      OBVIOUS
    <2>3. doc \in Draft /\ "read" \in Step /\ Begin(c, "read", doc)
      BY <1>5, <2>1, <2>2 DEF BeginRestore, Doc, Draft, Step
    <2>4. Requests' /\ Others(c) /\ req'[c].pc = "read"
      BY <1>1, <2>3, BeginIs
    <2>5. snapshots # {} /\ inserted' = inserted
      BY <1>5 DEF BeginRestore
    <2>6. \E ask : Begin(c, "read", ask)
      BY <2>3
    <2> QED
      BY <2>4, <2>5, <2>6
  <1>6. UNCHANGED <<row, links, snapshots, deltas>> /\ inserted \in BOOLEAN
    BY DEF Beginning, BeginInsert, BeginUpdate, BeginRestore, NoteTypeOK
  <1>7. CASE \E ask \in Drafts : BeginInsert(c, ask)
    BY <1>2, <1>3, <1>6, <1>7
  <1>8. CASE \E ask \in Drafts : BeginUpdate(c, ask)
    BY <1>2, <1>4, <1>6, <1>8
  <1>9. CASE \E i \in Index : BeginRestore(c, i)
    BY <1>2, <1>5, <1>6, <1>9
  <1> QED
    BY <1>7, <1>8, <1>9 DEF Beginning

\* What a request counts when it loads.
LEMMA CountingIs ==
  ASSUME NoteTypeOK, NoGap, Room, NEW c \in Caller, Counting(c)
  PROVE  /\ Requests' /\ Others(c) /\ c \in Busy
         /\ UNCHANGED <<row, links, inserted, snapshots, deltas, raced>>
         /\ early' = early \/ early'
         /\ \/ /\ At(c, "load") /\ snapshots = {} /\ req'[c].pc = "index" /\ early'
            \/ /\ At(c, "load") /\ snapshots # {} /\ early' = early
               /\ req'[c].pc = "append" /\ req'[c].n = Held + 1
               /\ req'[c].base = IF Full THEN 0 ELSE Max(IndexesOf(snapshots))
            \/ /\ At(c, "index") /\ early' = early
               /\ req'[c].pc = "append" /\ req'[c].n = Held + 1 /\ req'[c].base = 0
  <1>1. Requests /\ c \in Busy
    BY DEF NoteTypeOK, Requests, Counting, LoadAppendContext, GetNextVersionIndex, Busy, At
  <1>2. PICK n : n = Held + 1
    OBVIOUS
  <1>3. n \in 0..MaxVersions + 1 /\ NextIndex = n
    BY <1>1, <1>2, RoomForOne, HeldIs, VersionsAssumption
  <1>4. CASE LoadAppendContext(c) /\ snapshots = {}
    <2>1. Goto(c, "index") /\ early'
      BY <1>4 DEF LoadAppendContext
    <2>2. Requests' /\ Others(c) /\ req'[c].pc = "index"
      BY <1>1, <2>1, GotoIs DEF Step
    <2> QED
      BY <1>1, <1>4, <2>1, <2>2 DEF LoadAppendContext
  <1>5. CASE LoadAppendContext(c) /\ snapshots # {}
    <2>1. PICK b : b = IF Full THEN 0 ELSE Max(IndexesOf(snapshots))
      OBVIOUS
    <2>2. b \in 0..MaxVersions
      BY <1>5, <2>1, LatestIs, VersionsAssumption DEF Index
    <2>3. req' = [req EXCEPT ![c].pc = "append", ![c].n = n, ![c].base = b] /\ early' = early
      BY <1>3, <1>5, <2>1 DEF LoadAppendContext
    <2>4. /\ Requests' /\ Others(c)
          /\ req'[c].pc = "append" /\ req'[c].n = n /\ req'[c].base = b
      BY <1>1, <1>3, <2>2, <2>3, CountIs
    <2>5. /\ At(c, "load") /\ req'[c].n = Held + 1
          /\ UNCHANGED <<row, links, inserted, snapshots, deltas, raced, early>>
      BY <1>2, <1>5, <2>3, <2>4 DEF LoadAppendContext
    <2> QED
      BY <1>1, <1>5, <2>1, <2>4, <2>5
  <1>6. CASE GetNextVersionIndex(c)
    <2>1. 0 \in 0..MaxVersions
      BY VersionsAssumption
    <2>2. req' = [req EXCEPT ![c].pc = "append", ![c].n = n, ![c].base = 0] /\ early' = early
      BY <1>3, <1>6 DEF GetNextVersionIndex
    <2>3. /\ Requests' /\ Others(c)
          /\ req'[c].pc = "append" /\ req'[c].n = n /\ req'[c].base = 0
      BY <1>1, <1>3, <2>1, <2>2, CountIs
    <2>4. /\ At(c, "index") /\ req'[c].n = Held + 1
          /\ UNCHANGED <<row, links, inserted, snapshots, deltas, raced, early>>
      BY <1>2, <1>6, <2>3 DEF GetNextVersionIndex
    <2> QED
      BY <1>1, <2>3, <2>4
  <1> QED
    BY <1>4, <1>5, <1>6 DEF Counting

\* The insert up to its history.
LEMMA InsertingIs ==
  ASSUME NoteTypeOK, NEW c \in Caller, Inserting(c)
  PROVE  /\ Requests' /\ Others(c) /\ c \in Busy
         /\ UNCHANGED <<inserted, snapshots, deltas, raced, early>>
         /\ \/ At(c, "content") /\ req'[c].pc = "parent" /\ row' = req[c].ask /\ links' = links
            \/ At(c, "parent") /\ req'[c].pc = "owner" /\ row' = row /\ links' = links \cup {"parent"}
            \/ At(c, "owner") /\ req'[c].pc = "index" /\ row' = row /\ links' = links \cup {"owner"}
  <1>1. Requests
    BY DEF NoteTypeOK, Requests
  <1>2. "parent" \in Step /\ "owner" \in Step /\ "index" \in Step
    BY DEF Step
  <1>3. CASE InsertContent(c)
    BY <1>1, <1>2, <1>3, GotoIs DEF InsertContent, Busy, At
  <1>4. CASE AddToParents(c)
    BY <1>1, <1>2, <1>4, GotoIs DEF AddToParents, Busy, At
  <1>5. CASE InsertOwner(c)
    BY <1>1, <1>2, <1>5, GotoIs DEF InsertOwner, Busy, At
  <1> QED
    BY <1>3, <1>4, <1>5 DEF Inserting

\* The reading and the writing of an update: the row stays a row.
LEMMA UpdatingIs ==
  ASSUME NoteTypeOK, NEW c \in Caller, ReadCurrent(c) \/ WriteContent(c)
  PROVE  /\ Requests' /\ Others(c) /\ c \in Busy /\ ~At(c, "content")
         /\ UNCHANGED <<links, inserted, snapshots, deltas, raced, early>>
         /\ req'[c].pc \in {"idle", "write", "load"}
         /\ row' = row \/ (row # NoRow /\ row' \in Doc)
  <1>1. Requests
    BY DEF NoteTypeOK, Requests
  <1>2. c \in Busy /\ ~At(c, "content")
    BY DEF ReadCurrent, WriteContent, Busy, At
  <1>3. UNCHANGED <<links, inserted, snapshots, deltas, raced, early>>
    BY DEF ReadCurrent, WriteContent
  <1>5. CASE ReadCurrent(c)
    <2>1. CASE row # NoRow
      <3>1. row \in Doc /\ req' = [req EXCEPT ![c].pc = "write", ![c].seen = row]
        BY <1>5, <2>1 DEF ReadCurrent, NoteTypeOK
      <3>2. Requests' /\ Others(c) /\ req'[c].pc = "write"
        BY <1>1, <3>1, ReadIs
      <3> QED
        BY <1>2, <1>3, <1>5, <3>2 DEF ReadCurrent
    <2>2. CASE row = NoRow
      BY <1>1, <1>2, <1>3, <1>5, <2>2, EndIs DEF ReadCurrent
    <2> QED
      BY <2>1, <2>2
  <1>6. CASE WriteContent(c)
    <2>1. CASE row = NoRow
      <3>1. End(c) /\ row' = row
        BY <1>6, <2>1 DEF WriteContent
      <3> QED
        BY <1>1, <1>2, <1>3, <3>1, EndIs
    <2>2. CASE row # NoRow
      <3>1. req[c].ask \in Draft /\ row \in Doc
        BY <1>1, <2>2 DEF Requests, Request, NoteTypeOK
      <3>2. row' \in Doc
        BY <1>6, <2>2, <3>1, MergeTyped DEF WriteContent
      <3>3. CASE End(c)
        BY <1>1, <1>2, <1>3, <2>2, <3>2, <3>3, EndIs
      <3>4. CASE Goto(c, "load")
        BY <1>1, <1>2, <1>3, <2>2, <3>2, <3>4, GotoIs DEF Step
      <3> QED
        BY <1>6, <2>2, <3>3, <3>4 DEF WriteContent
    <2> QED
      BY <2>1, <2>2
  <1> QED
    BY <1>5, <1>6

\* The end of a request: a version, or none.
LEMMA AppendIs ==
  ASSUME NoteTypeOK, NEW c \in Caller, Append(c)
  PROVE  /\ Requests' /\ Others(c) /\ c \in Busy /\ At(c, "append") /\ req'[c].pc = "idle"
         /\ req[c] \in Request
         /\ UNCHANGED <<row, links, inserted, early>> /\ raced' \in BOOLEAN
         /\ \/ UNCHANGED <<snapshots, deltas>>
            \/ /\ req[c].base = 0 /\ row # NoRow /\ req[c].n \notin IndexesOf(snapshots)
               /\ snapshots' = snapshots \cup {NewSnapshot(req[c])} /\ deltas' = deltas
            \/ /\ req[c].base # 0 /\ row # NoRow /\ req[c].n \notin IndexesOf(deltas)
               /\ deltas' = deltas \cup {NewDelta(req[c])} /\ snapshots' = snapshots
  <1>1. Requests
    BY DEF NoteTypeOK, Requests
  <1>2. Requests' /\ Others(c) /\ req'[c].pc = "idle" /\ req[c] \in Request
    BY <1>1, EndIs DEF Append, Requests
  <1>3. c \in Busy /\ At(c, "append") /\ UNCHANGED <<row, links, inserted, early>>
    BY DEF Append, Busy, At
  <1>4. raced' \in BOOLEAN
    BY DEF Append, NoteTypeOK
  <1> QED
    BY <1>2, <1>3, <1>4 DEF Append

LEMMA FailIs ==
  ASSUME NoteTypeOK, NEW c \in Caller, Fail(c)
  PROVE  /\ Requests' /\ Others(c) /\ c \in Busy /\ req'[c].pc = "idle"
         /\ UNCHANGED <<row, links, inserted, snapshots, deltas, early>> /\ raced'
  BY EndIs DEF NoteTypeOK, Requests, Fail

-----------------------------------------------------------------------------
(* The types *)

LEMMA TypesStay ==
  ASSUME NoteTypeOK, Requests', snapshots' \subseteq Snapshot, deltas' \subseteq Delta,
         row' \in Doc \cup {NoRow}, links' \subseteq {"parent", "owner"},
         inserted' \in BOOLEAN, raced' \in BOOLEAN, early' \in BOOLEAN
  PROVE  NoteTypeOK'
  BY DEF NoteTypeOK, Requests

LEMMA AppendTypes ==
  ASSUME NoteInv, NEW c \in Caller, Append(c)
  PROVE  NoteTypeOK'
  <1>1. req[c] \in Request /\ c \in Busy /\ At(c, "append")
    BY AppendIs DEF NoteInv
  <1>2. row # NoRow => req[c].n \in Index
    <2>1. row # NoRow => req[c].n \in 1..Held + 1
      BY <1>1 DEF NoteInv, Queued
    <2>2. Held + 1 <= MaxVersions /\ Held \in 0..MaxVersions
      BY <1>1, RoomForOne DEF NoteInv
    <2> QED
      BY <2>1, <2>2, VersionsAssumption DEF Index
  <1>3. snapshots \subseteq Snapshot /\ deltas \subseteq Delta
    BY DEF NoteInv, NoteTypeOK
  <1>4. snapshots' \subseteq Snapshot /\ deltas' \subseteq Delta
    BY <1>1, <1>2, <1>3, AppendIs, NewSnapshotTyped, NewDeltaTyped DEF NoteInv
  <1>5. /\ Requests' /\ row' \in Doc \cup {NoRow} /\ links' \subseteq {"parent", "owner"}
        /\ inserted' \in BOOLEAN /\ raced' \in BOOLEAN /\ early' \in BOOLEAN
    BY AppendIs DEF NoteInv, NoteTypeOK
  <1> QED
    BY <1>4, <1>5, TypesStay DEF NoteInv

LEMMA TypesStep ==
  ASSUME NoteInv, NEW c \in Caller, Beginning(c) \/ DeleteNote(c) \/ Going(c) \/ Fail(c)
  PROVE  NoteTypeOK'
  <1>0. NoteTypeOK /\ InsertFirst /\ NoGap /\ Room
    BY DEF NoteInv
  <1>1. /\ snapshots \subseteq Snapshot /\ deltas \subseteq Delta /\ row \in Doc \cup {NoRow}
        /\ links \subseteq {"parent", "owner"}
        /\ inserted \in BOOLEAN /\ raced \in BOOLEAN /\ early \in BOOLEAN /\ Requests
    BY <1>0 DEF NoteTypeOK, Requests
  <1>2. CASE Beginning(c)
    <2>1. Requests' /\ UNCHANGED <<row, links, snapshots, deltas, early>> /\ raced' \in BOOLEAN
      BY <1>0, <1>2, BeginningIs
    <2>2. inserted' \in BOOLEAN
      BY <1>1, <1>2 DEF Beginning, BeginInsert, BeginUpdate, BeginRestore
    <2> QED
      BY <1>0, <1>1, <2>1, <2>2, TypesStay
  <1>3. CASE DeleteNote(c)
    BY <1>1, <1>3 DEF NoteTypeOK, Requests, DeleteNote
  <1>4. CASE Inserting(c)
    <2>1. At(c, "content") => req[c].ask \in Doc
      BY <1>0 DEF InsertFirst
    <2>2. Requests' /\ UNCHANGED <<inserted, snapshots, deltas, raced, early>>
      BY <1>0, <1>4, InsertingIs
    <2>3. row' \in Doc \cup {NoRow} /\ links' \subseteq {"parent", "owner"}
      BY <1>0, <1>1, <1>4, <2>1, InsertingIs
    <2> QED
      BY <1>0, <1>1, <2>2, <2>3, TypesStay
  <1>5. CASE ReadCurrent(c) \/ WriteContent(c)
    <2>1. Requests' /\ UNCHANGED <<links, inserted, snapshots, deltas, raced, early>>
      BY <1>0, <1>5, UpdatingIs
    <2>2. row' \in Doc \cup {NoRow}
      BY <1>0, <1>1, <1>5, UpdatingIs
    <2> QED
      BY <1>0, <1>1, <2>1, <2>2, TypesStay
  <1>6. CASE Counting(c)
    <2>1. Requests' /\ UNCHANGED <<row, links, inserted, snapshots, deltas, raced>>
      BY <1>0, <1>6, CountingIs
    <2>2. early' \in BOOLEAN
      BY <1>1, <1>6 DEF Counting, LoadAppendContext, GetNextVersionIndex
    <2> QED
      BY <1>0, <1>1, <2>1, <2>2, TypesStay
  <1>7. CASE Append(c)
    BY <1>7, AppendTypes
  <1>8. CASE Fail(c)
    <2>1. Requests' /\ UNCHANGED <<row, links, inserted, snapshots, deltas, early>>
      BY <1>0, <1>8, FailIs
    <2>2. raced' \in BOOLEAN
      BY <1>8 DEF Fail
    <2> QED
      BY <1>0, <1>1, <2>1, <2>2, TypesStay
  <1> QED
    BY <1>2, <1>3, <1>4, <1>5, <1>6, <1>7, <1>8 DEF Going

-----------------------------------------------------------------------------
(* The note comes first *)

\* A request that is not at the content: by then the row is there, or was.
LEMMA InsertFirstStays ==
  ASSUME InsertFirst, NEW c \in Busy, ~At(c, "content"), Others(c), req'[c].pc # "content",
         inserted' = inserted, row' = NoRow => snapshots' = {} /\ deltas' = {}
  PROVE  InsertFirst'
  <1>1. inserted
    BY DEF InsertFirst
  <1>2. \A d \in Caller : ~At(d, "content")
    BY DEF InsertFirst, Busy
  <1>3. \A d \in Caller : ~At(d, "content")'
    BY <1>2 DEF Others, At
  <1> QED
    BY <1>1, <1>3 DEF InsertFirst

LEMMA InsertFirstStep ==
  ASSUME NoteInv, NEW c \in Caller, Beginning(c) \/ DeleteNote(c) \/ Going(c) \/ Fail(c)
  PROVE  InsertFirst'
  <1>0. NoteTypeOK /\ InsertFirst /\ NoGap /\ Room
    BY DEF NoteInv
  <1>1. row = NoRow => snapshots = {} /\ deltas = {}
    BY <1>0 DEF InsertFirst
  <1>2. CASE Beginning(c)
    <2>1. /\ Others(c) /\ UNCHANGED <<row, links, snapshots, deltas>>
          /\ \/ /\ ~inserted /\ inserted' /\ req'[c].pc = "content" /\ req'[c].ask \in Doc
             \/ (links # {} \/ snapshots # {}) /\ inserted' = inserted /\ req'[c].pc = "read"
      BY <1>0, <1>2, BeginningIs
    <2>2. CASE ~inserted /\ inserted' /\ req'[c].pc = "content" /\ req'[c].ask \in Doc
      <3>1. row = NoRow /\ links = {} /\ Busy = {}
        BY <1>0, <2>2 DEF InsertFirst
      <3>2. Busy' = {c}
        BY <2>1, <2>2, <3>1, BusyAfter
      <3>3. \A d \in Caller : At(d, "content")' => d = c
        BY <3>2 DEF Busy, At
      <3> QED
        BY <1>1, <2>1, <2>2, <3>1, <3>2, <3>3 DEF InsertFirst
    <2>3. CASE (links # {} \/ snapshots # {}) /\ inserted' = inserted /\ req'[c].pc = "read"
      <3>1. inserted /\ \A d \in Caller : ~At(d, "content")
        BY <1>0, <1>1, <2>3 DEF InsertFirst
      <3>2. \A d \in Caller : ~At(d, "content")'
        BY <2>1, <2>3, <3>1 DEF Others, At
      <3> QED
        BY <1>1, <2>1, <2>3, <3>1, <3>2 DEF InsertFirst
    <2> QED
      BY <2>1, <2>2, <2>3
  <1>3. CASE DeleteNote(c)
    <2>1. row # NoRow /\ inserted' = inserted /\ req' = req /\ snapshots' = {} /\ deltas' = {}
      BY <1>3 DEF DeleteNote
    <2>2. inserted /\ \A d \in Caller : ~At(d, "content")
      BY <1>0, <2>1 DEF InsertFirst
    <2>3. \A d \in Caller : ~At(d, "content")'
      BY <2>1, <2>2 DEF At
    <2> QED
      BY <2>1, <2>2, <2>3 DEF InsertFirst
  <1>4. CASE Inserting(c) /\ At(c, "content")
    <2>1. /\ Others(c) /\ c \in Busy /\ UNCHANGED <<inserted, snapshots, deltas>>
          /\ req'[c].pc = "parent" /\ row' = req[c].ask
      BY <1>0, <1>4, InsertingIs DEF At
    <2>2. req[c].ask \in Doc /\ row = NoRow /\ Busy = {c} /\ inserted
      BY <1>0, <1>4, <2>1 DEF InsertFirst
    <2>3. row' # NoRow
      BY <2>1, <2>2, DocFields
    <2>4. \A d \in Caller : ~At(d, "content")'
      BY <2>1, <2>2 DEF Others, At, Busy
    <2> QED
      BY <2>1, <2>2, <2>3, <2>4 DEF InsertFirst
  <1>5. CASE Inserting(c) /\ ~At(c, "content")
    <2>1. /\ Others(c) /\ c \in Busy /\ UNCHANGED <<inserted, snapshots, deltas, row>>
          /\ req'[c].pc # "content"
      BY <1>0, <1>5, InsertingIs
    <2> QED
      BY <1>0, <1>1, <1>5, <2>1, InsertFirstStays
  <1>6. CASE ReadCurrent(c) \/ WriteContent(c)
    <2>1. /\ Others(c) /\ c \in Busy /\ ~At(c, "content") /\ UNCHANGED <<inserted, snapshots, deltas>>
          /\ req'[c].pc # "content" /\ (row' = row \/ (row # NoRow /\ row' \in Doc))
      BY <1>0, <1>6, UpdatingIs
    <2>2. row' = NoRow => row = NoRow
      BY <2>1, DocFields
    <2> QED
      BY <1>0, <1>1, <2>1, <2>2, InsertFirstStays
  <1>7. CASE Counting(c)
    <2>1. /\ Others(c) /\ c \in Busy /\ ~At(c, "content")
          /\ UNCHANGED <<inserted, snapshots, deltas, row>> /\ req'[c].pc # "content"
      BY <1>0, <1>7, CountingIs DEF At
    <2> QED
      BY <1>0, <1>1, <2>1, InsertFirstStays
  <1>8. CASE Append(c)
    <2>1. /\ Others(c) /\ c \in Busy /\ ~At(c, "content") /\ UNCHANGED <<inserted, row>>
          /\ req'[c].pc # "content" /\ (row = NoRow => UNCHANGED <<snapshots, deltas>>)
      BY <1>0, <1>8, AppendIs DEF At
    <2> QED
      BY <1>0, <1>1, <2>1, InsertFirstStays
  <1>9. CASE Fail(c) /\ ~At(c, "content")
    BY <1>0, <1>1, <1>9, FailIs, InsertFirstStays
  <1>10. CASE Fail(c) /\ At(c, "content")
    <2>1. /\ Others(c) /\ c \in Busy /\ UNCHANGED <<inserted, row, links, snapshots, deltas>>
          /\ req'[c].pc = "idle"
      BY <1>0, <1>10, FailIs
    <2>2. Busy = {c} /\ inserted
      BY <1>0, <1>10, <2>1 DEF InsertFirst
    <2>3. \A d \in Caller : ~At(d, "content")'
      BY <2>1, <2>2 DEF Others, At, Busy
    <2> QED
      BY <1>1, <2>1, <2>2, <2>3 DEF InsertFirst
  <1> QED
    BY <1>2, <1>3, <1>4, <1>5, <1>6, <1>7, <1>8, <1>9, <1>10 DEF Going

-----------------------------------------------------------------------------
(* The versions *)

\* A new version, by its index: a snapshot, or a delta beside the others.
NewIndex(c) ==
  /\ row # NoRow /\ req[c].n \in 1..Held + 1
  /\ \/ /\ req[c].base = 0 /\ req[c].n \notin IndexesOf(snapshots)
        /\ deltas' = deltas
        /\ IndexesOf(snapshots') = IndexesOf(snapshots) \cup {req[c].n}
        /\ IndexesOf(deltas') = IndexesOf(deltas)
     \/ /\ req[c].base # 0 /\ req[c].n \notin IndexesOf(deltas)
        /\ snapshots # {} /\ snapshots' = snapshots
        /\ \E d \in Delta : d.index = req[c].n /\ d.base = req[c].base /\ deltas' = deltas \cup {d}
        /\ IndexesOf(snapshots') = IndexesOf(snapshots)
        /\ IndexesOf(deltas') = IndexesOf(deltas) \cup {req[c].n}

LEMMA AppendAdds ==
  ASSUME NoteInv, NEW c \in Caller, Append(c)
  PROVE  UNCHANGED <<snapshots, deltas>> \/ NewIndex(c)
  <1>1. /\ req[c] \in Request /\ c \in Busy /\ At(c, "append")
        /\ \/ UNCHANGED <<snapshots, deltas>>
           \/ /\ req[c].base = 0 /\ row # NoRow /\ req[c].n \notin IndexesOf(snapshots)
              /\ snapshots' = snapshots \cup {NewSnapshot(req[c])} /\ deltas' = deltas
           \/ /\ req[c].base # 0 /\ row # NoRow /\ req[c].n \notin IndexesOf(deltas)
              /\ deltas' = deltas \cup {NewDelta(req[c])} /\ snapshots' = snapshots
    BY AppendIs DEF NoteInv
  <1>2. row # NoRow => req[c].n \in 1..Held + 1 /\ (req[c].base # 0 => snapshots # {})
    BY <1>1 DEF NoteInv, Queued
  <1>3. row # NoRow => req[c].n \in Index
    <2>1. Held + 1 <= MaxVersions /\ Held \in 0..MaxVersions
      BY <1>1, RoomForOne DEF NoteInv
    <2> QED
      BY <1>2, <2>1, VersionsAssumption DEF Index
  <1>4. \A S, v : IndexesOf(S \cup {v}) = IndexesOf(S) \cup {v.index}
    BY DEF IndexesOf
  <1>5. CASE /\ req[c].base = 0 /\ row # NoRow /\ req[c].n \notin IndexesOf(snapshots)
             /\ snapshots' = snapshots \cup {NewSnapshot(req[c])} /\ deltas' = deltas
    <2>1. NewSnapshot(req[c]).index = req[c].n
      BY <1>1, <1>3, <1>5, NewSnapshotTyped
    <2>2. IndexesOf(snapshots') = IndexesOf(snapshots) \cup {req[c].n}
      BY <1>4, <1>5, <2>1
    <2> QED
      BY <1>2, <1>5, <2>2 DEF NewIndex
  <1>6. CASE /\ req[c].base # 0 /\ row # NoRow /\ req[c].n \notin IndexesOf(deltas)
             /\ deltas' = deltas \cup {NewDelta(req[c])} /\ snapshots' = snapshots
    <2>1. PICK d : d = NewDelta(req[c])
      OBVIOUS
    <2>2. d \in Delta /\ d.index = req[c].n /\ d.base = req[c].base /\ deltas' = deltas \cup {d}
      BY <1>1, <1>3, <1>6, <2>1, NewDeltaTyped
    <2>3. IndexesOf(deltas') = IndexesOf(deltas) \cup {req[c].n}
      BY <1>4, <2>2
    <2> QED
      BY <1>2, <1>6, <2>2, <2>3 DEF NewIndex
  <1> QED
    BY <1>1, <1>5, <1>6

\* The versions after it: one more, or one that has now two.
LEMMA HeldAfter ==
  ASSUME NoteInv, NEW c \in Caller, NewIndex(c)
  PROVE  /\ NoGap'
         /\ req[c].n = Held + 1 => Held' = Held + 1
         /\ req[c].n # Held + 1 => Held' = Held /\ req[c].n \in Indexes
  <1>0. NoGap /\ Held \in Nat
    BY HeldIs DEF NoteInv
  <1>1. Indexes' = Indexes \cup {req[c].n} /\ req[c].n \in 1..Held + 1
    BY DEF NewIndex, Indexes
  <1>2. Indexes = 1..Held
    BY <1>0 DEF NoGap
  <1>3. CASE req[c].n = Held + 1
    <2>1. PICK m : m = Held + 1
      OBVIOUS
    <2>2. Indexes' = 1..m /\ m \in Nat
      BY <1>0, <1>1, <1>2, <1>3, <2>1
    <2>3. IsFiniteSet(1..m) /\ Cardinality(1..m) = m
      BY <2>2, FS_Interval
    <2>4. Held' = m
      BY <2>2, <2>3 DEF Held
    <2>5. 1 \in IndexesOf(snapshots')
      <3>1. CASE Indexes = {}
        <4>1. Held = 0
          <5>1. Held >= 1 => 1 \in 1..Held
            BY <1>0
          <5> QED
            BY <1>0, <1>2, <3>1, <5>1
        <4>2. snapshots = {}
          BY <3>1 DEF Indexes, IndexesOf
        <4>3. req[c].n = 1
          BY <1>3, <4>1
        <4> QED
          BY <4>2, <4>3 DEF NewIndex
      <3>2. CASE Indexes # {}
        BY <1>0, <3>2 DEF NewIndex, NoGap
      <3> QED
        BY <3>1, <3>2
    <2> QED
      BY <1>3, <2>1, <2>2, <2>3, <2>4, <2>5 DEF NoGap
  <1>4. CASE req[c].n # Held + 1
    <2>1. req[c].n \in Indexes /\ Indexes' = Indexes
      BY <1>0, <1>1, <1>2, <1>4
    <2>2. Held' = Held
      BY <2>1 DEF Held
    <2>3. 1 \in IndexesOf(snapshots) => 1 \in IndexesOf(snapshots')
      BY DEF NewIndex
    <2> QED
      BY <1>0, <1>4, <2>1, <2>2, <2>3 DEF NoGap
  <1> QED
    BY <1>3, <1>4

LEMMA SameVersions ==
  ASSUME UNCHANGED <<snapshots, deltas>>
  PROVE  /\ Indexes' = Indexes /\ Held' = Held /\ AsDeltas' = AsDeltas /\ Full' = Full
         /\ NoGap' = NoGap /\ OneEach' = OneEach /\ FewDeltas' = FewDeltas
         /\ \A i : Prev(i)' = Prev(i)
  <1>1. Indexes' = Indexes
    BY DEF Indexes
  <1>2. Held' = Held /\ AsDeltas' = AsDeltas
    BY <1>1 DEF Held, AsDeltas
  <1>3. Full' = Full /\ OneEach' = OneEach /\ \A i : Prev(i)' = Prev(i)
    BY DEF Full, OneEach, Prev
  <1>4. NoGap' = NoGap
    BY <1>1, <1>2 DEF NoGap
  <1>5. FewDeltas' = FewDeltas
    BY <1>2 DEF FewDeltas
  <1> QED
    BY <1>1, <1>2, <1>3, <1>4, <1>5

LEMMA NoVersions ==
  ASSUME snapshots' = {}, deltas' = {}, MaxDeltas \in Nat
  PROVE  /\ Indexes' = {} /\ Held' = 0 /\ NoGap' /\ OneEach' /\ FewDeltas'
  <1>1. Indexes' = {}
    BY DEF Indexes, IndexesOf
  <1>2. Held' = 0
    BY <1>1, FS_EmptySet DEF Held
  <1>3. NoGap'
    BY <1>1, <1>2, FS_EmptySet DEF NoGap
  <1>4. FewDeltas'
    <2>1. AsDeltas' = {}
      BY <1>1 DEF AsDeltas
    <2> QED
      BY <2>1, FS_EmptySet DEF FewDeltas
  <1> QED
    BY <1>1, <1>2, <1>3, <1>4 DEF OneEach

\* Which steps touch the versions.
LEMMA VersionsStep ==
  ASSUME NoteInv, NEW c \in Caller, Beginning(c) \/ DeleteNote(c) \/ Going(c) \/ Fail(c)
  PROVE  \/ UNCHANGED <<snapshots, deltas>>
         \/ DeleteNote(c) /\ snapshots' = {} /\ deltas' = {} /\ row' = NoRow
         \/ Append(c) /\ NewIndex(c)
  <1>0. NoteTypeOK /\ NoGap /\ Room
    BY DEF NoteInv
  <1> QED
    BY <1>0, BeginningIs, InsertingIs, UpdatingIs, CountingIs, AppendAdds, FailIs DEF Going, DeleteNote

\* The deltas that only a delta gives: an append adds one that found room.
LEMMA AsDeltasAfter ==
  ASSUME NoteInv, NEW c \in Caller, At(c, "append"), NewIndex(c)
  PROVE  /\ FewDeltas'
         /\ req[c].n # Held + 1 => Cardinality(AsDeltas') <= Cardinality(AsDeltas)
  <1>0. NoGap /\ FewDeltas /\ Queued /\ Held \in Nat
        /\ IsFiniteSet(AsDeltas) /\ Cardinality(AsDeltas) \in Nat
    BY HeldIs DEF NoteInv
  <1>1. Indexes' = Indexes \cup {req[c].n}
    BY DEF NewIndex, Indexes
  <1>2. CASE req[c].base = 0
    <2>1. AsDeltas' \in SUBSET AsDeltas
      BY <1>1, <1>2 DEF NewIndex, AsDeltas
    <2>2. Cardinality(AsDeltas') <= Cardinality(AsDeltas) /\ IsFiniteSet(AsDeltas')
      BY <1>0, <2>1, FS_Subset
    <2>3. Cardinality(AsDeltas') \in Nat
      BY <2>2, FS_CardinalityType
    <2> QED
      BY <1>0, <2>2, <2>3, VersionsAssumption DEF FewDeltas
  <1>3. CASE req[c].base # 0 /\ req[c].n = Held + 1
    <2>1. Cardinality(AsDeltas) < MaxDeltas
      BY <1>0, <1>3 DEF NewIndex, Queued
    <2>2. AsDeltas' \in SUBSET (AsDeltas \cup {req[c].n})
      BY <1>1, <1>3 DEF NewIndex, AsDeltas
    <2>3. /\ IsFiniteSet(AsDeltas \cup {req[c].n})
          /\ Cardinality(AsDeltas \cup {req[c].n}) <= Cardinality(AsDeltas) + 1
          /\ Cardinality(AsDeltas \cup {req[c].n}) \in Nat
      <3>1. IsFiniteSet(AsDeltas \cup {req[c].n})
        BY <1>0, FS_AddElement
      <3>2. Cardinality(AsDeltas \cup {req[c].n})
              = IF req[c].n \in AsDeltas THEN Cardinality(AsDeltas) ELSE Cardinality(AsDeltas) + 1
        BY <1>0, FS_AddElement
      <3> QED
        BY <1>0, <3>1, <3>2
    <2>4. Cardinality(AsDeltas') <= Cardinality(AsDeltas \cup {req[c].n}) /\ IsFiniteSet(AsDeltas')
      BY <2>2, <2>3, FS_Subset
    <2>5. Cardinality(AsDeltas') \in Nat
      BY <2>4, FS_CardinalityType
    <2> QED
      BY <1>0, <1>3, <2>1, <2>3, <2>4, <2>5, VersionsAssumption DEF FewDeltas
  <1>4. CASE req[c].base # 0 /\ req[c].n # Held + 1
    <2>1. req[c].n \in Indexes
      BY HeldAfter, <1>4
    <2>2. AsDeltas' = AsDeltas
      BY <1>1, <1>4, <2>1 DEF NewIndex, AsDeltas, Indexes
    <2> QED
      BY <1>0, <2>2 DEF FewDeltas
  <1> QED
    BY <1>2, <1>3, <1>4

LEMMA VersionsHold ==
  ASSUME NoteInv, NEW c \in Caller, Beginning(c) \/ DeleteNote(c) \/ Going(c) \/ Fail(c)
  PROVE  NoGap' /\ OneEach' /\ FewDeltas'
  <1>0. NoGap /\ OneEach /\ FewDeltas /\ NoteTypeOK
    BY DEF NoteInv
  <1>1. CASE UNCHANGED <<snapshots, deltas>>
    BY <1>0, <1>1, SameVersions
  <1>2. CASE snapshots' = {} /\ deltas' = {}
    BY <1>2, NoVersions, VersionsAssumption
  <1>3. CASE Append(c) /\ NewIndex(c)
    <2>1. At(c, "append")
      BY <1>3 DEF Append
    <2>2. OneEach'
      <3>1. CASE deltas' = deltas
        BY <1>0, <3>1 DEF OneEach
      <3>2. CASE req[c].n \notin IndexesOf(deltas)
                 /\ \E d \in Delta : d.index = req[c].n /\ deltas' = deltas \cup {d}
        <4>1. PICK d \in Delta : d.index = req[c].n /\ deltas' = deltas \cup {d}
          BY <3>2
        <4>2. \A e \in deltas : e.index # d.index
          BY <3>2, <4>1 DEF IndexesOf
        <4> QED
          BY <1>0, <4>1, <4>2 DEF OneEach
      <3> QED
        BY <1>3, <3>1, <3>2 DEF NewIndex
    <2> QED
      BY <1>3, <2>1, <2>2, HeldAfter, AsDeltasAfter
  <1> QED
    BY <1>1, <1>2, <1>3, VersionsStep

\* There is room for the versions of all requests.
LEMMA RoomStep ==
  ASSUME NoteInv, NEW c \in Caller, Beginning(c) \/ DeleteNote(c) \/ Going(c) \/ Fail(c)
  PROVE  Room'
  <1>0. NoteTypeOK /\ NoGap /\ Room /\ InsertFirst
    BY DEF NoteInv
  <1>1. Held \in Nat /\ IsFiniteSet(Busy) /\ Cardinality(Busy) \in Nat /\ MaxVersions \in Nat
    BY <1>0, HeldIs, FS_CardinalityType, VersionsAssumption DEF Room
  <1>2. CASE Beginning(c)
    <2>1. /\ Others(c) /\ UNCHANGED <<snapshots, deltas>> /\ req'[c].pc # "idle" /\ c \notin Busy
          /\ Held + Cardinality(Busy) < MaxVersions
      BY <1>0, <1>2, BeginningIs DEF Busy, At
    <2>2. Busy' = Busy \cup {c} /\ Held' = Held
      BY <2>1, BusyAfter, SameVersions
    <2>3. IsFiniteSet(Busy \cup {c}) /\ Cardinality(Busy \cup {c}) = Cardinality(Busy) + 1
      BY <1>1, <2>1, FS_AddElement
    <2> QED
      BY <1>1, <2>1, <2>2, <2>3 DEF Room
  <1>3. CASE DeleteNote(c)
    <2>1. Busy' = Busy /\ Held' = 0
      BY <1>3, NoVersions, VersionsAssumption DEF DeleteNote, Busy, At
    <2> QED
      BY <1>0, <1>1, <2>1 DEF Room
  <1>4. ASSUME Others(c), c \in Busy, Held' = Held
        PROVE  Room'
    <2>1. Busy' \in SUBSET Busy
      BY <1>4, BusyAfter
    <2>2. IsFiniteSet(Busy') /\ Cardinality(Busy') <= Cardinality(Busy)
      BY <1>1, <2>1, FS_Subset
    <2>3. Cardinality(Busy') \in Nat
      BY <2>2, FS_CardinalityType
    <2> QED
      BY <1>0, <1>1, <1>4, <2>2, <2>3 DEF Room
  <1>5. CASE (Going(c) /\ UNCHANGED <<snapshots, deltas>>) \/ Fail(c)
    <2>1. Others(c) /\ c \in Busy /\ UNCHANGED <<snapshots, deltas>>
      BY <1>0, <1>5, InsertingIs, UpdatingIs, CountingIs, AppendIs, FailIs DEF Going
    <2> QED
      BY <1>4, <2>1, SameVersions
  <1>6. CASE Append(c) /\ NewIndex(c)
    <2>1. Others(c) /\ c \in Busy /\ req'[c].pc = "idle"
      BY <1>0, <1>6, AppendIs
    <2>2. Busy' = Busy \ {c}
      BY <2>1, BusyAfter
    <2>3. IsFiniteSet(Busy \ {c}) /\ Cardinality(Busy \ {c}) = Cardinality(Busy) - 1
      BY <1>1, <2>1, FS_RemoveElement
    <2>4. Held' = Held \/ Held' = Held + 1
      BY <1>6, HeldAfter
    <2> QED
      BY <1>0, <1>1, <2>2, <2>3, <2>4 DEF Room
  <1> QED
    BY <1>2, <1>3, <1>5, <1>6, VersionsStep DEF DeleteNote

-----------------------------------------------------------------------------
(* Requests about to append *)

\* Others are as they were; the caller is there with what it has just counted.
LEMMA QueuedStep ==
  ASSUME NoteInv, NEW c \in Caller, Beginning(c) \/ DeleteNote(c) \/ Going(c) \/ Fail(c)
  PROVE  Queued'
  <1>0. NoteTypeOK /\ NoGap /\ OneEach /\ Room /\ InsertFirst /\ Queued
    BY DEF NoteInv
  <1>1. Held \in Nat /\ Cardinality(AsDeltas) \in Nat
    BY <1>0, HeldIs
  <1>2. ASSUME row = NoRow => row' = NoRow, UNCHANGED <<snapshots, deltas>>, Others(c),
               req'[c].pc # "append"
        PROVE  Queued'
    <2>1. \A d \in Caller : At(d, "append")' => At(d, "append") /\ req'[d] = req[d]
      BY <1>2 DEF Others, At
    <2> QED
      BY <1>0, <1>2, <2>1, SameVersions DEF Queued
  <1>3. CASE Beginning(c)
    BY <1>0, <1>2, <1>3, BeginningIs
  <1>4. CASE DeleteNote(c)
    BY <1>4 DEF DeleteNote, Queued
  <1>5. CASE Inserting(c) /\ ~At(c, "content")
    BY <1>0, <1>2, <1>5, InsertingIs
  <1>6. CASE Inserting(c) /\ At(c, "content")
    <2>1. Others(c) /\ req'[c].pc = "parent" /\ Busy = {c}
      BY <1>0, <1>6, InsertingIs DEF At, InsertFirst
    <2>2. \A d \in Caller : ~At(d, "append")'
      BY <2>1 DEF Others, Busy, At
    <2> QED
      BY <2>2 DEF Queued
  <1>7. CASE ReadCurrent(c) \/ WriteContent(c)
    BY <1>0, <1>2, <1>7, UpdatingIs
  <1>8. CASE Fail(c)
    BY <1>0, <1>2, <1>8, FailIs
  <1>9. CASE Counting(c)
    <2>1. Others(c) /\ UNCHANGED <<row, snapshots, deltas>>
      BY <1>0, <1>9, CountingIs
    <2>2. Held' = Held /\ AsDeltas' = AsDeltas
      BY <2>1, SameVersions
    <2>3. At(c, "append")' =>
            /\ req'[c].n = Held + 1
            /\ req'[c].base # 0 => snapshots # {} /\ ~Full
      BY <1>0, <1>9, CountingIs DEF At
    <2>4. ~Full => Cardinality(AsDeltas) < MaxDeltas
      <3>1. IsFiniteSet(deltas) /\ Cardinality(AsDeltas) <= Cardinality(deltas)
        BY <1>0, DeltasCounted
      <3>2. Cardinality(deltas) \in Nat
        BY <3>1, FS_CardinalityType
      <3> QED
        BY <1>1, <3>1, <3>2, VersionsAssumption DEF Full
    <2>5. ASSUME row' # NoRow, NEW d \in Caller, At(d, "append")'
          PROVE  /\ req'[d].n \in 1..Held' + 1
                 /\ req'[d].base # 0 => snapshots' # {}
                 /\ req'[d].base # 0 /\ req'[d].n = Held' + 1 => Cardinality(AsDeltas') < MaxDeltas
      <3>1. CASE d = c
        BY <1>1, <2>1, <2>2, <2>3, <2>4, <2>5, <3>1
      <3>2. CASE d # c
        BY <1>0, <2>1, <2>2, <2>5, <3>2 DEF Others, At, Queued
      <3> QED
        BY <3>1, <3>2
    <2> QED
      BY <2>5 DEF Queued
  <1>10. CASE Append(c) /\ UNCHANGED <<snapshots, deltas>>
    BY <1>0, <1>2, <1>10, AppendIs
  <1>11. CASE Append(c) /\ NewIndex(c)
    <2>1. Others(c) /\ UNCHANGED row /\ req'[c].pc = "idle" /\ At(c, "append")
      BY <1>0, <1>11, AppendIs
    <2>2. snapshots # {} => snapshots' # {}
      BY <1>11 DEF NewIndex, IndexesOf
    <2>3. ASSUME row' # NoRow, NEW d \in Caller, At(d, "append")'
          PROVE  /\ req'[d].n \in 1..Held' + 1
                 /\ req'[d].base # 0 => snapshots' # {}
                 /\ req'[d].base # 0 /\ req'[d].n = Held' + 1 => Cardinality(AsDeltas') < MaxDeltas
      <3>1. d # c /\ req'[d] = req[d] /\ At(d, "append")
        BY <2>1, <2>3 DEF Others, At
      <3>2. /\ req[d].n \in 1..Held + 1
            /\ req[d].base # 0 => snapshots # {}
            /\ req[d].base # 0 /\ req[d].n = Held + 1 => Cardinality(AsDeltas) < MaxDeltas
        BY <1>0, <2>1, <2>3, <3>1 DEF Queued
      <3>3. CASE Held' = Held + 1
        BY <1>1, <2>2, <3>1, <3>2, <3>3
      <3>4. CASE Held' # Held + 1
        <4>1. Held' = Held /\ req[c].n # Held + 1
          BY <1>11, <3>4, HeldAfter
        <4>2. Cardinality(AsDeltas') <= Cardinality(AsDeltas)
          BY <1>11, <2>1, <4>1, AsDeltasAfter
        <4>3. Cardinality(AsDeltas') \in Nat
          <5>1. NoGap'
            BY <1>11, HeldAfter
          <5>2. IsFiniteSet(AsDeltas')
            BY <5>1, FS_Subset DEF NoGap, AsDeltas
          <5> QED
            BY <5>2, FS_CardinalityType
        <4> QED
          BY <1>1, <2>2, <3>1, <3>2, <4>1, <4>2, <4>3, VersionsAssumption
      <3> QED
        BY <3>3, <3>4
    <2> QED
      BY <2>3 DEF Queued
  <1>12. CASE Append(c)
    BY <1>10, <1>11, <1>12, AppendAdds
  <1> QED
    BY <1>3, <1>4, <1>5, <1>6, <1>7, <1>8, <1>9, <1>12 DEF Going

-----------------------------------------------------------------------------
(* The order of the versions, if no update came before the first snapshot *)

Apart == IndexesOf(snapshots) \cap IndexesOf(deltas) = {}
BasesRight == \A d \in deltas : d.base = Prev(d.index)
OneOpens == row # NoRow /\ snapshots = {} => \A c, d \in First : c = d
NoneOpens == row # NoRow /\ snapshots # {} => Started = {}
AllAlike == row # NoRow => \A c \in Caller : At(c, "append") => Alike(c)

LEMMA InOrderParts ==
  InOrder <=> (~early => Apart /\ BasesRight /\ OneOpens /\ NoneOpens /\ AllAlike)
  BY DEF InOrder, Apart, BasesRight, OneOpens, NoneOpens, AllAlike

\* Steps that leave the versions alone: an own request that is where it was, or
\* that has left.
LEMMA InOrderStays ==
  ASSUME InOrder, NEW c \in Caller, Others(c), UNCHANGED <<snapshots, deltas, early>>,
         row = NoRow => row' = NoRow,
         req'[c].pc # "append", req'[c].pc \in {"parent", "owner", "index"} => c \in Started
  PROVE  InOrder'
  <1>1. First' \subseteq First /\ Started' \subseteq Started
    BY DEF First, Started, Others, At
  <1>2. \A d \in Caller : At(d, "append")' => At(d, "append") /\ (Alike(d) => Alike(d)')
    <2> SUFFICES ASSUME NEW d \in Caller, At(d, "append")'
                 PROVE  At(d, "append") /\ (Alike(d) => Alike(d)')
      OBVIOUS
    <2>1. req'[d] = req[d] /\ At(d, "append")
      BY DEF Others, At
    <2>2. Held' = Held /\ Full' = Full /\ \A i : Prev(i)' = Prev(i)
      BY SameVersions
    <2>3. Prev(req[d].n)' = Prev(req[d].n)
      BY <2>1 DEF Prev
    <2> QED
      BY <2>1, <2>2, <2>3 DEF Alike
  <1>3. ~early => Apart /\ BasesRight /\ OneOpens /\ NoneOpens /\ AllAlike
    BY InOrderParts
  <1>4. ~early' => Apart' /\ BasesRight'
    BY <1>3 DEF Apart, BasesRight, Prev
  <1>5. ~early' => OneOpens' /\ NoneOpens' /\ AllAlike'
    BY <1>1, <1>2, <1>3 DEF OneOpens, NoneOpens, AllAlike
  <1> QED
    BY <1>4, <1>5 DEF InOrder, Apart, BasesRight, OneOpens, NoneOpens, AllAlike

\* Among indexes up to the next one, an append changes no predecessor.
LEMMA PrevAfter ==
  ASSUME NoGap, NEW c \in Caller, NewIndex(c), req[c].n = Held + 1,
         NEW i \in 1..Held + 1
  PROVE  Prev(i)' = Prev(i)
  <1>1. Held \in Nat
    BY HeldIs
  <1>2. IndexesOf(snapshots) \subseteq 1..Held
    BY DEF NoGap, Indexes
  <1>3. {j \in IndexesOf(snapshots') : j < i} = {j \in IndexesOf(snapshots) : j < i}
    BY <1>1, <1>2 DEF NewIndex
  <1> QED
    BY <1>3 DEF Prev

LEMMA LatestIsPrev ==
  ASSUME NoGap
  PROVE  Prev(Held + 1) = Max(IndexesOf(snapshots))
  <1>1. Held \in Nat
    BY HeldIs
  <1>2. IndexesOf(snapshots) \subseteq 1..Held
    BY DEF NoGap, Indexes
  <1>3. {j \in IndexesOf(snapshots) : j < Held + 1} = IndexesOf(snapshots)
    BY <1>1, <1>2
  <1> QED
    BY <1>3 DEF Prev

LEMMA InOrderCounting ==
  ASSUME NoteInv, NEW c \in Caller, Counting(c)
  PROVE  InOrder'
  <1>0. NoteTypeOK /\ NoGap /\ Room /\ InsertFirst /\ InOrder
    BY DEF NoteInv
  <1>1. Others(c) /\ UNCHANGED <<row, snapshots, deltas>> /\ Held \in Nat
    BY <1>0, CountingIs, HeldIs
  <1> SUFFICES ASSUME ~early' PROVE InOrder'
    BY DEF InOrder
  <1>2. \/ /\ At(c, "load") /\ snapshots # {} /\ early' = early
           /\ req'[c].pc = "append" /\ req'[c].n = Held + 1
           /\ req'[c].base = IF Full THEN 0 ELSE Max(IndexesOf(snapshots))
        \/ /\ At(c, "index") /\ early' = early
           /\ req'[c].pc = "append" /\ req'[c].n = Held + 1 /\ req'[c].base = 0
    BY <1>0, CountingIs
  <1>3. Apart /\ BasesRight /\ OneOpens /\ NoneOpens /\ AllAlike
    BY <1>0, <1>2, InOrderParts
  <1>4. Apart' /\ BasesRight'
    BY <1>1, <1>3 DEF Apart, BasesRight, Prev
  <1>5. Started' \subseteq Started
    BY <1>1, <1>2 DEF Started, Others
  <1>6. OneOpens'
    <2>1. CASE At(c, "load") /\ snapshots # {}
      BY <1>1, <2>1 DEF OneOpens
    <2>2. CASE At(c, "index")
      <3>1. First' \subseteq First
        BY <1>1, <1>2, <2>2 DEF First, Started, Others, At
      <3> QED
        BY <1>1, <1>3, <3>1 DEF OneOpens
    <2> QED
      BY <1>2, <2>1, <2>2
  <1>7. NoneOpens'
    BY <1>1, <1>3, <1>5 DEF NoneOpens
  <1>8. Held' = Held /\ Full' = Full
    BY <1>1, SameVersions
  <1>9. ASSUME row' # NoRow, NEW d \in Caller, At(d, "append")'
        PROVE  Alike(d)'
    <2>1. CASE d # c
      <3>1. req'[d] = req[d] /\ At(d, "append") /\ Alike(d)
        BY <1>1, <1>3, <1>9, <2>1 DEF Others, At, AllAlike
      <3>2. Prev(req[d].n)' = Prev(req[d].n)
        BY <1>1, <3>1 DEF Prev
      <3> QED
        BY <1>1, <1>8, <3>1, <3>2 DEF Alike
    <2>2. CASE d = c
      <3>1. req'[c].n = Held + 1
        BY <1>2
      <3>2. ~ (req'[c].n <= Held')
        BY <1>1, <1>8, <3>1
      <3>3. req'[c].base = 0 <=> Full \/ snapshots = {}
        <4>1. CASE At(c, "index")
          <5>1. snapshots = {}
            BY <1>1, <1>3, <1>9, <4>1 DEF NoneOpens, Started, At
          <5> QED
            BY <1>2, <4>1, <5>1 DEF At
        <4>2. CASE ~At(c, "index")
          <5>1. snapshots # {} /\ req'[c].base = IF Full THEN 0 ELSE Max(IndexesOf(snapshots))
            BY <1>2, <4>2
          <5>2. Max(IndexesOf(snapshots)) \in Index
            BY <1>0, <5>1, LatestIs
          <5>3. Max(IndexesOf(snapshots)) # 0
            BY <5>2 DEF Index
          <5> QED
            BY <5>1, <5>3
        <4> QED
          BY <4>1, <4>2
      <3>4. req'[c].base # 0 => req'[c].base = Max(IndexesOf(snapshots))
        BY <1>2
      <3>5. Prev(Held + 1) = Max(IndexesOf(snapshots))
        BY <1>0, LatestIsPrev
      <3>6. Prev(req[c].n)' = Prev(Held + 1)
        BY <1>1, <3>1 DEF Prev
      <3>7. req'[c].base # 0 => req'[c].base = Prev(req[c].n)'
        BY <3>4, <3>5, <3>6
      <3> QED
        BY <1>1, <1>8, <2>2, <3>2, <3>3, <3>7 DEF Alike
    <2> QED
      BY <2>1, <2>2
  <1> QED
    BY <1>4, <1>6, <1>7, <1>9, InOrderParts DEF InOrder, Apart, BasesRight, OneOpens, NoneOpens, AllAlike

\* Only the version that nobody has yet is appended: the others are refused.
LEMMA OnlyTheNext ==
  ASSUME NoteInv, ~early, NEW c \in Caller, At(c, "append"), NewIndex(c)
  PROVE  req[c].n = Held + 1
  <1>1. NoGap /\ InOrder /\ Held \in Nat
    BY HeldIs DEF NoteInv
  <1>2. Alike(c) /\ Apart
    BY <1>1, InOrderParts DEF AllAlike, NewIndex
  <1>3. CASE req[c].n <= Held
    <2>1. req[c].n \in Indexes
      BY <1>1, <1>3 DEF NewIndex, NoGap
    <2> QED
      BY <1>2, <1>3, <2>1 DEF Alike, NewIndex, Indexes
  <1> QED
    BY <1>1, <1>3 DEF NewIndex

LEMMA InOrderAppend ==
  ASSUME NoteInv, NEW c \in Caller, Append(c), NewIndex(c)
  PROVE  InOrder'
  <1>0. NoteTypeOK /\ NoGap /\ InOrder /\ Queued /\ Held \in Nat
    BY HeldIs DEF NoteInv
  <1>1. Others(c) /\ UNCHANGED <<row, early>> /\ req'[c].pc = "idle" /\ At(c, "append")
    BY <1>0, AppendIs
  <1> SUFFICES ASSUME ~early PROVE InOrder'
    BY <1>1 DEF InOrder
  <1>2. Apart /\ BasesRight /\ OneOpens /\ NoneOpens /\ AllAlike /\ row # NoRow
    BY <1>0, InOrderParts DEF NewIndex
  <1>3. req[c].n = Held + 1
    BY <1>1, OnlyTheNext
  <1>4. Held' = Held + 1
    BY <1>3, HeldAfter
  <1>5. \A i \in 1..Held + 1 : Prev(i)' = Prev(i)
    BY <1>0, <1>3, PrevAfter
  <1>6. Held + 1 \notin Indexes /\ \A d \in deltas : d.index \in 1..Held
    BY <1>0 DEF NoGap, Indexes, IndexesOf
  <1>7. Apart'
    <2>1. Held + 1 \notin IndexesOf(snapshots) /\ Held + 1 \notin IndexesOf(deltas)
      BY <1>6 DEF Indexes
    <2> QED
      BY <1>2, <1>3, <2>1 DEF Apart, NewIndex
  <1>8. BasesRight'
    <2> SUFFICES ASSUME NEW d \in deltas' PROVE d.base = Prev(d.index)'
      BY DEF BasesRight
    <2>1. CASE d \in deltas
      <3>1. d.index \in 1..Held + 1 /\ d.base = Prev(d.index)
        BY <1>0, <1>2, <1>6, <2>1 DEF BasesRight
      <3> QED
        BY <1>5, <3>1
    <2>2. CASE d \notin deltas
      <3>1. d.index = req[c].n /\ d.base = req[c].base /\ req[c].base # 0
        BY <2>2 DEF NewIndex
      <3>2. req[c].base = Prev(req[c].n)
        BY <1>1, <1>2, <3>1 DEF AllAlike, Alike
      <3>3. req[c].n \in 1..Held + 1
        BY <1>0, <1>3
      <3>4. Prev(d.index)' = Prev(d.index)
        BY <1>5, <3>1, <3>3
      <3> QED
        BY <3>1, <3>2, <3>4
    <2> QED
      BY <2>1, <2>2
  <1>9. snapshots' # {}
    BY DEF NewIndex, IndexesOf
  <1>10. Started' = {}
    <2>1. Started' \subseteq Started
      BY <1>1 DEF Started, Others
    <2>2. CASE snapshots = {}
      <3>1. c \in First /\ c \notin Started
        BY <1>1 DEF First, Started, At
      <3>2. \A d \in Started : d = c
        BY <1>2, <2>2, <3>1 DEF OneOpens, First
      <3> QED
        BY <2>1, <3>1, <3>2
    <2>3. CASE snapshots # {}
      BY <1>2, <2>1, <2>3 DEF NoneOpens
    <2> QED
      BY <2>2, <2>3
  <1>11. OneOpens' /\ NoneOpens'
    BY <1>9, <1>10 DEF OneOpens, NoneOpens
  <1>12. ASSUME NEW d \in Caller, At(d, "append")' PROVE Alike(d)'
    <2>1. d # c /\ req'[d] = req[d] /\ At(d, "append")
      BY <1>1, <1>12 DEF Others, At
    <2>2. Alike(d) /\ req[d].n \in 1..Held + 1
      BY <1>0, <1>2, <2>1 DEF AllAlike, Queued
    <2>3. snapshots # {}
      BY <1>1, <1>2, <2>1 DEF OneOpens, First
    <2>4. Alike(c)
      BY <1>1, <1>2 DEF AllAlike
    <2>5. Prev(req[d].n)' = Prev(req[d].n)
      <3>1. PICK i : i = req[d].n
        OBVIOUS
      <3>2. req'[d].n = i /\ Prev(i)' = Prev(i)
        BY <1>5, <2>1, <2>2, <3>1
      <3> QED
        BY <3>1, <3>2 DEF Prev
    <2>6. Held + 1 \notin IndexesOf(snapshots) /\ Held + 1 \notin IndexesOf(deltas)
      BY <1>6 DEF Indexes
    <2>7. req[d].base = 0 <=> req[d].n \in IndexesOf(snapshots')
      <3>1. CASE req[d].n = Held + 1
        <4>1. req[d].base = 0 <=> req[c].base = 0
          BY <1>3, <2>2, <2>4, <3>1 DEF Alike
        <4>2. req[c].base = 0 <=> Held + 1 \in IndexesOf(snapshots')
          BY <1>3, <2>6 DEF NewIndex
        <4> QED
          BY <3>1, <4>1, <4>2
      <3>2. CASE req[d].n # Held + 1
        <4>1. req[d].n <= Held
          BY <1>0, <2>2, <3>2
        <4>2. req[d].n \in IndexesOf(snapshots') <=> req[d].n \in IndexesOf(snapshots)
          BY <1>3, <3>2 DEF NewIndex
        <4> QED
          BY <2>2, <4>1, <4>2 DEF Alike
      <3> QED
        BY <3>1, <3>2
    <2>8. req[d].n # Held' + 1
      BY <1>0, <1>4, <2>2
    <2> QED
      BY <2>1, <2>2, <2>5, <2>7, <2>8 DEF Alike
  <1>13. AllAlike'
    BY <1>12 DEF AllAlike
  <1> QED
    BY <1>7, <1>8, <1>11, <1>13 DEF InOrder, Apart, BasesRight, OneOpens, NoneOpens, AllAlike

LEMMA InOrderStep ==
  ASSUME NoteInv, NEW c \in Caller, Beginning(c) \/ DeleteNote(c) \/ Going(c) \/ Fail(c)
  PROVE  InOrder'
  <1>0. NoteTypeOK /\ NoGap /\ Room /\ InsertFirst /\ InOrder
    BY DEF NoteInv
  <1>1. CASE Beginning(c)
    <2>1. /\ Others(c) /\ UNCHANGED <<row, snapshots, deltas, early>>
          /\ req'[c].pc \in {"content", "read"}
      BY <1>0, <1>1, BeginningIs
    <2> QED
      BY <1>0, <2>1, InOrderStays
  <1>2. CASE DeleteNote(c)
    <2>1. snapshots' = {} /\ deltas' = {} /\ row' = NoRow
      BY <1>2 DEF DeleteNote
    <2> QED
      BY <2>1 DEF InOrder, IndexesOf
  <1>3. CASE Inserting(c) /\ ~At(c, "content")
    <2>1. /\ Others(c) /\ UNCHANGED <<row, snapshots, deltas, early>> /\ c \in Started
          /\ req'[c].pc \in {"owner", "index"}
      BY <1>0, <1>3, InsertingIs DEF Started, At
    <2> QED
      BY <1>0, <2>1, InOrderStays
  <1>4. CASE Inserting(c) /\ At(c, "content")
    <2>1. /\ Others(c) /\ UNCHANGED <<snapshots, deltas, early>> /\ req'[c].pc = "parent"
          /\ Busy = {c} /\ snapshots = {} /\ deltas = {}
      BY <1>0, <1>4, InsertingIs DEF At, InsertFirst
    <2>2. \A d \in Caller : d # c => req'[d].pc = "idle"
      BY <2>1 DEF Others, Busy, At
    <2>3. First' \subseteq {c} /\ \A d \in Caller : ~At(d, "append")'
      BY <2>1, <2>2 DEF First, Started, At
    <2> QED
      BY <2>1, <2>3 DEF InOrder, IndexesOf
  <1>5. CASE ReadCurrent(c) \/ WriteContent(c)
    <2>1. /\ Others(c) /\ UNCHANGED <<snapshots, deltas, early>>
          /\ req'[c].pc \in {"idle", "write", "load"} /\ (row = NoRow => row' = NoRow)
      BY <1>0, <1>5, UpdatingIs
    <2> QED
      BY <1>0, <2>1, InOrderStays
  <1>6. CASE Counting(c)
    BY <1>6, InOrderCounting
  <1>7. CASE Append(c)
    <2>1. CASE UNCHANGED <<snapshots, deltas>>
      BY <1>0, <1>7, <2>1, AppendIs, InOrderStays
    <2>2. CASE NewIndex(c)
      BY <1>7, <2>2, InOrderAppend
    <2> QED
      BY <1>7, <2>1, <2>2, AppendAdds
  <1>8. CASE Fail(c)
    BY <1>0, <1>8, FailIs, InOrderStays
  <1> QED
    BY <1>1, <1>2, <1>3, <1>4, <1>5, <1>6, <1>7, <1>8 DEF Going

-----------------------------------------------------------------------------
(* Theorems *)

LEMMA NoteInvInit == NoteInit => NoteInv
  <1> SUFFICES ASSUME NoteInit PROVE NoteInv
    OBVIOUS
  <1>1. \A c \in Caller : req[c] \in Request /\ req[c].pc = "idle"
    BY IdleTyped DEF NoteInit
  <1>2. NoteTypeOK
    BY <1>1, IdleTyped DEF NoteInit, NoteTypeOK
  <1>3. Busy = {} /\ First = {} /\ Started = {} /\ \A c \in Caller : ~At(c, "append") /\ ~At(c, "content")
    BY <1>1 DEF Busy, First, Started, At
  <1>4. Indexes = {} /\ IndexesOf(snapshots) = {}
    BY DEF NoteInit, Indexes, IndexesOf
  <1>5. Held = 0 /\ AsDeltas = {} /\ Cardinality(Busy) = 0 /\ IsFiniteSet(Busy) /\ IsFiniteSet(Indexes)
    BY <1>3, <1>4, FS_EmptySet DEF Held, AsDeltas
  <1>6. InsertFirst
    BY <1>3 DEF NoteInit, InsertFirst
  <1>7. NoGap
    <2>1. 1..0 = {}
      OBVIOUS
    <2> QED
      BY <1>4, <1>5, <2>1 DEF NoGap
  <1>8. OneEach /\ Queued
    BY <1>3 DEF NoteInit, OneEach, Queued
  <1>9. Room
    BY <1>5, VersionsAssumption DEF Room
  <1>10. FewDeltas
    BY <1>5, FS_EmptySet, VersionsAssumption DEF FewDeltas
  <1>11. InOrder
    BY <1>3, <1>4 DEF NoteInit, InOrder
  <1> QED
    BY <1>2, <1>6, <1>7, <1>8, <1>9, <1>10, <1>11 DEF NoteInv

LEMMA NoteInvStep == NoteInv /\ [NoteNext]_noteVars => NoteInv'
  <1> SUFFICES ASSUME NoteInv, [NoteNext]_noteVars PROVE NoteInv'
    OBVIOUS
  <1>1. CASE NoteNext
    <2>1. PICK c \in Caller : Beginning(c) \/ DeleteNote(c) \/ Going(c) \/ Fail(c)
      BY <1>1, TheSteps DEF NoteNext
    <2> QED
      BY <2>1, TypesStep, InsertFirstStep, VersionsHold, RoomStep, QueuedStep, InOrderStep DEF NoteInv
  <1>2. CASE UNCHANGED noteVars
    <2>1. UNCHANGED <<snapshots, deltas>>
      BY <1>2 DEF noteVars
    <2>2. NoteTypeOK' /\ InsertFirst' /\ Room'
      <3>1. Busy' = Busy
        BY <1>2 DEF noteVars, Busy, At
      <3>2. Held' = Held
        BY <2>1, SameVersions
      <3> QED
        BY <1>2, <3>1, <3>2 DEF noteVars, NoteInv, NoteTypeOK, InsertFirst, Room, At
    <2>3. NoGap' /\ OneEach' /\ FewDeltas'
      BY <2>1, SameVersions DEF NoteInv
    <2>4. Queued'
      BY <1>2, <2>1, SameVersions DEF noteVars, NoteInv, Queued, At
    <2>5. InOrder'
      <3>1. First' = First /\ Started' = Started
        BY <1>2 DEF noteVars, First, Started, At
      <3>2. \A d \in Caller : Alike(d)' <=> Alike(d)
        <4> SUFFICES ASSUME NEW d \in Caller PROVE Alike(d)' <=> Alike(d)
          OBVIOUS
        <4>1. req' = req /\ Held' = Held /\ Full' = Full
          BY <1>2, <2>1, SameVersions DEF noteVars
        <4>2. Prev(req[d].n)' = Prev(req[d].n)
          BY <2>1, <4>1 DEF Prev
        <4> QED
          BY <2>1, <4>1, <4>2 DEF Alike
      <3>3. Apart' = Apart /\ BasesRight' = BasesRight
        BY <2>1 DEF Apart, BasesRight, Prev
      <3> QED
        BY <1>2, <3>1, <3>2, <3>3 DEF noteVars, NoteInv, InOrder, Apart, BasesRight, At
    <2> QED
      BY <2>2, <2>3, <2>4, <2>5 DEF NoteInv
  <1> QED
    BY <1>1, <1>2

LEMMA NoteInvHolds == NoteSpec => []NoteInv
  BY NoteInvInit, NoteInvStep, PTL DEF NoteSpec

\* Rows, requests and tuples are what the tables and the callers can hold: the
\* history is always one of documents, also what a restore reads back of it.
THEOREM HistoryTypeCorrect == NoteSpec => []NoteTypeOK
  <1>1. NoteInv => NoteTypeOK
    BY DEF NoteInv
  <1> QED
    BY <1>1, NoteInvHolds, PTL

\* NoteFacadeImpl and NoteVersionPostgresRepo: whatever overlaps and fails, every
\* version can be reconstructed, and onto the snapshot its delta names.
THEOREM VersionsAreComplete == NoteSpec => []HistoryComplete
  <1>1. NoteInv => HistoryComplete
    BY DEF NoteInv, NoGap, InOrder, Prev, Held, HistoryComplete
  <1> QED
    BY <1>1, NoteInvHolds, PTL

\* max_deltas_per_snapshot: what is replayed for a version is bounded, even when
\* updates overlap.
THEOREM ReplaysAreBounded == NoteSpec => []ReplayBounded
  <1>1. NoteInv => ReplayBounded
    <2> SUFFICES ASSUME NoteInv, NEW i \in Indexes
                 PROVE  Cardinality({d \in deltas : SnapshotFor(i).index < d.index /\ d.index <= i})
                          <= MaxDeltas
      BY DEF ReplayBounded
    <2>1. NoteTypeOK /\ NoGap /\ OneEach /\ FewDeltas
      BY DEF NoteInv
    <2>2. i \in Index /\ \E s \in snapshots : s.index <= i
      <3>1. 1 \in IndexesOf(snapshots) /\ i \in 1..Held /\ Held \in Nat
        BY <2>1, HeldIs DEF NoGap
      <3>2. Indexes \subseteq Index
        BY <2>1 DEF NoteTypeOK, Snapshot, Delta, Indexes, IndexesOf
      <3> QED
        BY <3>1, <3>2 DEF IndexesOf
    <2> DEFINE D == {d \in deltas : SnapshotFor(i).index < d.index /\ d.index <= i}
               f == [d \in D |-> d.index]
    <2>3. \A d \in D : d.index \in AsDeltas
      <3> SUFFICES ASSUME NEW d \in D PROVE d.index \in AsDeltas
        OBVIOUS
      <3>1. \A t \in snapshots : t.index <= i => t.index <= SnapshotFor(i).index
        BY <2>1, <2>2, SnapshotIs
      <3>2. SnapshotFor(i) \in snapshots
        BY <2>1, <2>2, SnapshotIs
      <3>3. SnapshotFor(i).index \in Nat /\ d.index \in Nat
        BY <2>1, <3>2, VersionsAssumption DEF NoteTypeOK, Snapshot, Delta, Index
      <3>4. d.index \notin IndexesOf(snapshots)
        BY <3>1, <3>3 DEF IndexesOf
      <3>5. d.index \in IndexesOf(deltas)
        BY DEF IndexesOf
      <3> QED
        BY <3>4, <3>5 DEF AsDeltas, Indexes
    <2>4. f \in Injection(D, AsDeltas)
      <3>1. f \in [D -> AsDeltas]
        BY <2>3
      <3>2. \A d, e \in D : f[d] = f[e] => d = e
        BY <2>1 DEF OneEach
      <3> QED
        BY <3>1, <3>2 DEF Injection, IsInjective
    <2>5. IsFiniteSet(AsDeltas) /\ Cardinality(AsDeltas) \in Nat
      BY <2>1, HeldIs
    <2> HIDE DEF D, f
    <2>6. IsFiniteSet(D) /\ Cardinality(D) <= Cardinality(AsDeltas)
      BY <2>4, <2>5, FS_Injection
    <2>7. Cardinality(D) \in Nat
      BY <2>6, FS_CardinalityType
    <2>8. Cardinality(D) <= MaxDeltas
      BY <2>1, <2>5, <2>6, <2>7, VersionsAssumption DEF FewDeltas
    <2> QED
      BY <2>8 DEF D
  <1> QED
    BY <1>1, NoteInvHolds, PTL

-----------------------------------------------------------------------------
(* Patches.  A unified diff keeps the lines it carries, and drops the rest:  *)
(* it is exact for texts of up to three lines, and for no more.              *)

PatchesExact == \A old, new \in Text : Apply(TextPatch(old, new), old) = new

LEMMA CarriesAllIsExact ==
  ASSUME NEW old \in Text, NEW new \in Text, old # new => Carried(old, new) = DOMAIN new
  PROVE  Apply(TextPatch(old, new), old) = new
  <1>1. PICK S \in SUBSET Line : new \in [S -> Word]
    BY DEF Text
  <1>2. new = [l \in DOMAIN new |-> new[l]] /\ new # NoChange
    BY <1>1, VersionsAssumption
  <1>3. CASE old = new
    BY <1>3 DEF TextPatch, Apply
  <1>4. CASE old # new
    BY <1>2, <1>4 DEF TextPatch, Apply
  <1> QED
    BY <1>3, <1>4

LEMMA ShortTextsAreExact == Cardinality(Line) <= ContextLines + 1 => PatchesExact
  <1> SUFFICES ASSUME Cardinality(Line) <= ContextLines + 1,
                      NEW old \in Text, NEW new \in Text, old # new
               PROVE  Carried(old, new) = DOMAIN new
    BY CarriesAllIsExact DEF PatchesExact
  <1> SUFFICES ASSUME NEW l \in DOMAIN new PROVE l \in Carried(old, new)
    BY DEF Carried
  <1> DEFINE common == {m \in DOMAIN old \cap DOMAIN new : old[m] = new[m]}
             changed == (DOMAIN old \cup DOMAIN new) \ common
             between(k) == {m \in common : (k < m /\ m < l) \/ (l < m /\ m < k)}
  <1>1. \E S, T \in SUBSET Line : old \in [S -> Word] /\ new \in [T -> Word]
    BY DEF Text
  <1>2. PICK k : k \in changed
    <2> SUFFICES ASSUME changed = {} PROVE FALSE
      OBVIOUS
    <2>1. DOMAIN old = DOMAIN new /\ \A m \in DOMAIN new : old[m] = new[m]
      OBVIOUS
    <2> QED
      BY <1>1, <2>1
  <1>3. l \in Line /\ k \in Line /\ Line \subseteq Nat /\ IsFiniteSet(Line)
    BY <1>1, <1>2, VersionsAssumption
  <1>4. CASE l \notin changed
    <2>1. k # l /\ between(k) \subseteq (Line \ {l}) \ {k}
      BY <1>1, <1>2, <1>3, <1>4
    <2>2. /\ IsFiniteSet(Line \ {l}) /\ Cardinality(Line \ {l}) = Cardinality(Line) - 1
          /\ IsFiniteSet((Line \ {l}) \ {k})
          /\ Cardinality((Line \ {l}) \ {k}) = Cardinality(Line \ {l}) - 1
      BY <1>3, <2>1, FS_RemoveElement
    <2>3. Cardinality(between(k)) <= Cardinality((Line \ {l}) \ {k})
      BY <2>1, <2>2, FS_Subset
    <2>4. Cardinality(between(k)) \in Nat /\ Cardinality(Line) \in Nat
      BY <1>3, <2>1, <2>2, FS_Subset, FS_CardinalityType
    <2>5. Cardinality(between(k)) < ContextLines
      BY <2>2, <2>3, <2>4 DEF ContextLines
    <2> QED
      BY <1>2, <2>5 DEF Carried
  <1>5. CASE l \in changed
    BY <1>5 DEF Carried
  <1> QED
    BY <1>4, <1>5

\* The fourth line after a change is two common lines away from it, and is lost.
LEMMA LongTextsLose ==
  ASSUME NEW a \in Line, NEW b \in Line, NEW c \in Line, NEW d \in Line,
         a < b, b < c, c < d, NEW w \in Word
  PROVE  ~PatchesExact
  <1> DEFINE old == [l \in {a, b, c, d} |-> w]
             new == [l \in {b, c, d} |-> w]
             between == {m \in {b, c, d} : (a < m /\ m < d) \/ (d < m /\ m < a)}
  <1>1. a \in Nat /\ b \in Nat /\ c \in Nat /\ d \in Nat
    BY VersionsAssumption
  <1>2. old \in Text /\ new \in Text
    <2>1. old \in [{a, b, c, d} -> Word] /\ new \in [{b, c, d} -> Word]
      OBVIOUS
    <2>2. {a, b, c, d} \in SUBSET Line /\ {b, c, d} \in SUBSET Line
      OBVIOUS
    <2> HIDE DEF old, new
    <2> QED
      BY <2>1, <2>2 DEF Text
  <1>3. Cardinality(between) = 2
    <2>1. between = {b, c}
      BY <1>1
    <2>3. IsFiniteSet({b}) /\ Cardinality({b}) = 1
      BY FS_Singleton
    <2>4. {b, c} = {b} \cup {c} /\ c \notin {b}
      BY <1>1
    <2> HIDE DEF between
    <2> QED
      BY <2>1, <2>3, <2>4, FS_AddElement
  <1>4. d \notin Carried(old, new)
    <2> DEFINE common == {m \in DOMAIN old \cap DOMAIN new : old[m] = new[m]}
               changed == (DOMAIN old \cup DOMAIN new) \ common
               passed(k) == {m \in common : (k < m /\ m < d) \/ (d < m /\ m < k)}
    <2>1. common = {b, c, d}
      OBVIOUS
    <2>2. changed = {a}
      BY <1>1, <2>1
    <2>3. passed(a) = between
      BY <2>1
    <2>4. d \in Carried(old, new) =>
            d \in changed \/ \E k \in changed : Cardinality(passed(k)) < ContextLines
      BY DEF Carried
    <2> HIDE DEF old, new, common, changed, passed, between
    <2>5. Cardinality(passed(a)) = 2
      BY <1>3, <2>3
    <2> QED
      BY <1>1, <2>2, <2>4, <2>5 DEF ContextLines
  <1>5. old # new
    BY <1>1
  <1>6. d \notin DOMAIN Apply(TextPatch(old, new), old)
    <2> DEFINE patch == [l \in Carried(old, new) |-> new[l]]
    <2>1. TextPatch(old, new) = patch
      BY <1>5 DEF TextPatch
    <2>2. d \notin DOMAIN patch /\ d \in DOMAIN old
      BY <1>4
    <2>3. patch # NoChange
      <3>1. TextPatch(old, new) \in Text \cup {NoChange} /\ Carried(old, new) \subseteq {b, c, d}
        BY <1>2, TextPatchTyped DEF Carried
      <3>2. patch \in [Carried(old, new) -> Word] /\ Carried(old, new) \in SUBSET Line
        BY <3>1
      <3>3. patch \in Text
        <4> HIDE DEF patch, old, new
        <4> QED
          BY <3>2 DEF Text
      <3> QED
        BY <3>3, VersionsAssumption
    <2> HIDE DEF patch, old, new
    <2> QED
      BY <2>1, <2>2, <2>3 DEF Apply
  <1>7. d \in DOMAIN new
    OBVIOUS
  <1> HIDE DEF old, new
  <1> QED
    BY <1>2, <1>6, <1>7 DEF PatchesExact

\* A finite set of numbers has a bound.
LEMMA FiniteIsBounded ==
  ASSUME NEW S \in SUBSET Nat, IsFiniteSet(S)
  PROVE  \E b \in Nat : \A k \in S : k <= b
  <1> DEFINE bounded(T) == \E b \in Nat : \A k \in T : k <= b
             N == {n \in Nat : \A T \in SUBSET S : Cardinality(T) = n => bounded(T)}
  <1>1. \A T \in SUBSET S : IsFiniteSet(T) /\ Cardinality(T) \in Nat
    BY FS_Subset, FS_CardinalityType
  <1>2. 0 \in N
    BY <1>1, FS_EmptySet
  <1>3. ASSUME NEW n \in N PROVE n + 1 \in N
    <2>0. PICK p \in Nat : p = n + 1 /\ p # 0
      OBVIOUS
    <2> SUFFICES p \in N
      BY <2>0
    <2> SUFFICES ASSUME NEW T \in SUBSET S, Cardinality(T) = p PROVE bounded(T)
      OBVIOUS
    <2>1. PICK x \in T : TRUE
      <3>1. T # {}
        BY <2>0, FS_EmptySet
      <3> QED
        BY <3>1
    <2>2. T \ {x} \in SUBSET S /\ Cardinality(T \ {x}) = n
      <3>1. IsFiniteSet(T) /\ x \in T
        BY <1>1, <2>1
      <3>2. Cardinality(T \ {x}) = Cardinality(T) - 1
        BY <3>1, FS_RemoveElement
      <3> QED
        BY <2>0, <3>2
    <2>3. PICK b \in Nat : \A k \in T \ {x} : k <= b
      BY <2>2
    <2>4. \A k \in T : k <= b + x /\ b + x \in Nat
      BY <2>1, <2>3
    <2> QED
      BY <2>1, <2>4
  <1>4. Cardinality(S) \in N
    <2> HIDE DEF N
    <2>1. N \in SUBSET Nat
      BY DEF N
    <2> QED
      BY <1>1, <1>2, <1>3, <2>1, NatSetInduction
  <1> QED
    BY <1>4

LEMMA LastLine ==
  ASSUME NEW S \in SUBSET Line, NEW n \in Nat, Cardinality(S) > n
  PROVE  \E m \in S : (\A k \in S \ {m} : k < m) /\ Cardinality(S \ {m}) > n - 1
  <1>1. S \in SUBSET Nat /\ IsFiniteSet(S) /\ Cardinality(S) \in Nat
    BY VersionsAssumption, FS_Subset, FS_CardinalityType
  <1>2. S # {}
    BY <1>1, FS_EmptySet
  <1>3. PICK b \in Nat : \A k \in S : k <= b
    BY <1>1, FiniteIsBounded
  <1>4. PICK m \in S : \A k \in S : k <= m
    BY <1>1, <1>2, <1>3, GreatestExists
  <1>5. Cardinality(S \ {m}) = Cardinality(S) - 1
    BY <1>1, <1>4, FS_RemoveElement
  <1>6. \A k \in S \ {m} : k < m
    BY <1>1, <1>4
  <1> QED
    BY <1>1, <1>4, <1>5, <1>6

\* versioning.py, _build_patch and _apply_patch: what is rebuilt from a patch is the
\* text it was made for, whatever the two texts, exactly if no text is longer than
\* the two context lines and one more.
THEOREM PatchesExactIfShort ==
  Word # {} => (PatchesExact <=> Cardinality(Line) <= ContextLines + 1)
  <1> SUFFICES ASSUME Word # {}, Cardinality(Line) > ContextLines + 1 PROVE ~PatchesExact
    <2>1. Cardinality(Line) \in Nat /\ ContextLines \in Nat
      BY VersionsAssumption, FS_CardinalityType DEF ContextLines
    <2> QED
      BY <2>1, ShortTextsAreExact
  <1>1. PICK d \in Line : (\A k \in Line \ {d} : k < d) /\ Cardinality(Line \ {d}) > 3 - 1
    BY LastLine DEF ContextLines
  <1> DEFINE C == Line \ {d}
  <1>2. PICK c \in C : (\A k \in C \ {c} : k < c) /\ Cardinality(C \ {c}) > 2 - 1
    <2>1. C \in SUBSET Line /\ 2 \in Nat /\ Cardinality(C) > 2
      BY <1>1
    <2> HIDE DEF C
    <2> QED
      BY <2>1, LastLine
  <1> DEFINE B == C \ {c}
  <1>3. PICK b \in B : (\A k \in B \ {b} : k < b) /\ Cardinality(B \ {b}) > 1 - 1
    <2>1. B \in SUBSET Line /\ 1 \in Nat /\ Cardinality(B) > 1
      BY <1>2
    <2> HIDE DEF B
    <2> QED
      BY <2>1, LastLine
  <1> DEFINE A == B \ {b}
  <1>4. PICK a \in A : TRUE
    <2>1. A \in SUBSET Line /\ 0 \in Nat /\ Cardinality(A) > 0
      BY <1>3
    <2> HIDE DEF A
    <2>2. \E m \in A : TRUE
      BY <2>1, LastLine
    <2> QED
      BY <2>2
  <1>5. a < b /\ b < c /\ c < d /\ {a, b, c, d} \subseteq Line
    BY <1>1, <1>2, <1>3, <1>4
  <1> QED
    BY <1>5, LongTextsLose

-----------------------------------------------------------------------------
(* What a version gives back, before and after the next one.  What follows *)
(* takes the snapshots and the deltas one to an index.                     *)

OnePerIndex(S) == \A s, t \in S : s.index = t.index => s = t

\* Two replays from one snapshot agree as long as they replay the same deltas.
LEMMA ReplaysAgree ==
  ASSUME NEW D, NEW E, NEW s, s.index \in Nat, NEW i \in Nat, NEW j \in Nat, s.index <= i, i <= j,
         NEW f, NEW g, IsReplay(D, s, i, f), IsReplay(E, s, j, g),
         \A k \in Nat : k <= i => \A doc : Replayed(D, k, doc) = Replayed(E, k, doc)
  PROVE  f[i] = g[i]
  <1> DEFINE S == {n \in Nat : s.index + n <= i => f[s.index + n] = g[s.index + n]}
  <1>0. /\ \A k \in s.index..i : f[k] = IF k = s.index THEN s.doc ELSE Replayed(D, k, f[k - 1])
        /\ \A k \in s.index..j : g[k] = IF k = s.index THEN s.doc ELSE Replayed(E, k, g[k - 1])
    BY DEF IsReplay
  <1>1. 0 \in S
    BY <1>0
  <1>2. ASSUME NEW n \in S PROVE n + 1 \in S
    <2>1. CASE s.index + (n + 1) <= i
      <3> DEFINE k == s.index + (n + 1)
      <3>1. /\ k \in s.index..i /\ k \in s.index..j /\ k \in Nat /\ k <= i
            /\ k # s.index /\ k - 1 = s.index + n /\ s.index + n <= i
        BY <2>1
      <3>2. f[k - 1] = g[k - 1]
        BY <3>1
      <3> HIDE DEF k
      <3>3. f[k] = g[k]
        BY <1>0, <3>1, <3>2
      <3> QED
        BY <3>3 DEF k
    <2> QED
      BY <2>1
  <1>3. S = Nat
    <2> HIDE DEF S
    <2>1. S \in SUBSET Nat
      BY DEF S
    <2> QED
      BY <1>1, <1>2, <2>1, NatSetInduction
  <1>4. i - s.index \in S /\ s.index + (i - s.index) = i
    <2> HIDE DEF S
    <2> QED
      BY <1>3
  <1> QED
    BY <1>4

LEMMA ReplayedBy ==
  ASSUME NEW D, OnePerIndex(D), NEW d \in D, NEW doc
  PROVE  Replayed(D, d.index, doc) = [title |-> Apply(d.title, doc.title), text |-> Apply(d.text, doc.text)]
  <1>1. d.index \in IndexesOf(D)
    BY DEF IndexesOf
  <1>2. (CHOOSE e \in D : e.index = d.index) = d
    BY DEF OnePerIndex
  <1> QED
    BY <1>1, <1>2 DEF Replayed

\* A delta is nothing to the other indexes.
LEMMA ReplayedBeside ==
  ASSUME NEW D, NEW d, OnePerIndex(D \cup {d}), NEW k, d.index # k, NEW doc
  PROVE  Replayed(D, k, doc) = Replayed(D \cup {d}, k, doc)
  <1>0. OnePerIndex(D)
    BY DEF OnePerIndex
  <1>1. CASE k \in IndexesOf(D)
    <2>1. PICK e \in D : e.index = k
      BY <1>1 DEF IndexesOf
    <2>2. e \in D \cup {d}
      OBVIOUS
    <2>3. /\ Replayed(D, k, doc) = [title |-> Apply(e.title, doc.title), text |-> Apply(e.text, doc.text)]
          /\ Replayed(D \cup {d}, k, doc)
               = [title |-> Apply(e.title, doc.title), text |-> Apply(e.text, doc.text)]
      BY <1>0, <2>1, <2>2, ReplayedBy
    <2> QED
      BY <2>3
  <1>2. CASE k \notin IndexesOf(D)
    <2>1. k \notin IndexesOf(D \cup {d})
      BY <1>2 DEF IndexesOf
    <2> QED
      BY <1>2, <2>1 DEF Replayed
  <1> QED
    BY <1>1, <1>2

\* Later snapshots and deltas change nothing of a version.
LEMMA ContentStays ==
  ASSUME NEW S \in SUBSET Snapshot, NEW T \in SUBSET Snapshot, NEW D, NEW E, NEW i \in Index,
         \E s \in S : s.index <= i, OnePerIndex(S),
         S \subseteq T, \A t \in T : t.index <= i => t \in S,
         \A k \in Nat : k <= i => \A doc : Replayed(D, k, doc) = Replayed(E, k, doc)
  PROVE  ContentIn(T, E, i) = ContentIn(S, D, i)
  <1>1. PICK s \in S : \E f : /\ s = SnapshotIn(S, i) /\ s.index <= i
                              /\ s.index \in Nat /\ i \in Nat
                              /\ IsReplay(D, s, i, f) /\ ContentIn(S, D, i) = f[i]
    BY ReplayIs
  <1>2. \E t \in T : t.index <= i
    OBVIOUS
  <1>3. PICK t \in T : \E g : /\ t = SnapshotIn(T, i) /\ t.index <= i
                              /\ t.index \in Nat
                              /\ IsReplay(E, t, i, g) /\ ContentIn(T, E, i) = g[i]
    BY <1>2, ReplayIs
  <1>4. s.index <= t.index /\ t.index <= s.index
    BY <1>1, <1>2, <1>3, SnapshotInIs
  <1>5. s = t
    BY <1>1, <1>3, <1>4 DEF OnePerIndex
  <1> QED
    BY <1>1, <1>3, <1>5, ReplaysAgree

LEMMA ContentOfSnapshot ==
  ASSUME NEW S \in SUBSET Snapshot, NEW D, OnePerIndex(S), NEW s \in S
  PROVE  ContentIn(S, D, s.index) = s.doc
  <1>1. s.index \in Index /\ s.index \in Nat /\ s.index <= s.index
    BY VersionsAssumption DEF Snapshot, Index
  <1>2. PICK t \in S : \E f : /\ t = SnapshotIn(S, s.index) /\ t.index <= s.index
                              /\ t.index \in Nat
                              /\ IsReplay(D, t, s.index, f) /\ ContentIn(S, D, s.index) = f[s.index]
    BY <1>1, ReplayIs
  <1>3. s.index <= t.index
    BY <1>1, <1>2, SnapshotInIs
  <1>4. t = s
    BY <1>1, <1>2, <1>3 DEF OnePerIndex
  <1> QED
    BY <1>1, <1>2, <1>4 DEF IsReplay

\* A version that no snapshot gives is one delta onto the version before.
LEMMA ContentOfDelta ==
  ASSUME NEW S \in SUBSET Snapshot, NEW D, OnePerIndex(S), NEW i \in Index, NEW j \in Index, j = i + 1,
         \E s \in S : s.index <= i, j \notin IndexesOf(S)
  PROVE  ContentIn(S, D, j) = Replayed(D, j, ContentIn(S, D, i))
  <1>0. i \in Nat /\ j \in Nat
    BY VersionsAssumption DEF Index
  <1>1. PICK s \in S : \E f : /\ s = SnapshotIn(S, i) /\ s.index <= i
                              /\ s.index \in Nat
                              /\ IsReplay(D, s, i, f) /\ ContentIn(S, D, i) = f[i]
    BY ReplayIs
  <1>2. \E t \in S : t.index <= j
    BY <1>0, <1>1
  <1>3. PICK t \in S : \E g : /\ t = SnapshotIn(S, j) /\ t.index <= j
                              /\ t.index \in Nat
                              /\ IsReplay(D, t, j, g) /\ ContentIn(S, D, j) = g[j]
    BY <1>2, ReplayIs
  <1>4. t.index # j
    BY <1>3 DEF IndexesOf
  <1>5. s.index <= t.index /\ t.index <= i
    BY <1>0, <1>1, <1>2, <1>3, <1>4, SnapshotInIs
  <1>6. t.index <= s.index
    BY <1>0, <1>1, <1>3, <1>5, SnapshotInIs
  <1>7. s = t
    BY <1>1, <1>3, <1>5, <1>6 DEF OnePerIndex
  <1>8. PICK f, g : /\ IsReplay(D, s, i, f) /\ ContentIn(S, D, i) = f[i]
                    /\ IsReplay(D, s, j, g) /\ ContentIn(S, D, j) = g[j]
    BY <1>1, <1>3, <1>7
  <1>9. f[i] = g[i]
    BY <1>0, <1>1, <1>8, ReplaysAgree
  <1>10. g[j] = Replayed(D, j, g[i])
    <2>1. j \in s.index..j /\ j # s.index /\ j - 1 = i
      BY <1>0, <1>1
    <2> QED
      BY <1>8, <2>1 DEF IsReplay
  <1> QED
    BY <1>8, <1>9, <1>10

-----------------------------------------------------------------------------
(* Faithfulness.  Between two statements of the only request, the note, the *)
(* last version and what the request read are related as below.            *)

OneAtATime == \A c, d \in Busy : c = d

OneVersionEach == Apart /\ OnePerIndex(snapshots)

Kept == \A v \in snapshots \cup deltas : ContentIn(snapshots, deltas, v.index) = v.meant

\* What the last version gives back.
Last == ContentIn(snapshots, deltas, Held)

\* Until its version is appended, a request that wrote is one version ahead.
Knows(r) ==
  /\ r.pc \in {"parent", "owner", "index"} => Indexes = {} /\ row = Meant(r)
  /\ r.pc = "write" => Indexes # {} /\ row = r.seen
  /\ r.pc = "load" => Indexes # {}
  /\ r.pc = "append" => r.n = Held + 1
  /\ r.pc \in {"load", "append"} => row = Meant(r) /\ (Indexes # {} => Last = r.seen)

Ahead == {c \in Caller : req[c].pc \in {"load", "append"}}

Rests == Indexes # {} /\ Ahead = {} => Last = row

Faithful ==
  ~raced =>
    /\ OneAtATime /\ OneVersionEach /\ Kept
    /\ row # NoRow => /\ Indexes = {} => First # {}
                      /\ \A c \in Caller : Knows(req[c])
                      /\ Rests

LEMMA GotoKeeps ==
  ASSUME Requests, NEW c \in Caller, NEW a, Goto(c, a)
  PROVE  req'[c].ask = req[c].ask /\ req'[c].seen = req[c].seen /\ Meant(req'[c]) = Meant(req[c])
  BY DEF Requests, Request, Goto, Meant

LEMMA CountKeeps ==
  ASSUME Requests, NEW c \in Caller, Counting(c)
  PROVE  req'[c].ask = req[c].ask /\ req'[c].seen = req[c].seen /\ Meant(req'[c]) = Meant(req[c])
  BY GotoKeeps DEF Requests, Request, Counting, LoadAppendContext, GetNextVersionIndex, Meant

\* A request that is alone goes on, and no version is added.
LEMMA FaithfulGoing ==
  ASSUME ~raced, Faithful, NEW c \in Caller, Busy \subseteq {c}, Others(c),
         UNCHANGED <<snapshots, deltas>>,
         row' # NoRow => /\ Indexes = {} => req'[c].pc \in {"parent", "owner", "index", "append"}
                         /\ Knows(req[c])'
                         /\ Indexes # {} /\ req'[c].pc \notin {"load", "append"} => Last = row'
  PROVE  Faithful'
  <1>1. \A d \in Caller : d # c => req'[d].pc = "idle"
    BY DEF Busy, At, Others
  <1>2. OneAtATime'
    BY <1>1 DEF OneAtATime, Busy, At
  <1>3. Indexes' = Indexes /\ Held' = Held /\ Last' = Last
    BY SameVersions DEF Last
  <1>4. OneVersionEach' /\ Kept'
    BY DEF Faithful, OneVersionEach, Apart, Kept
  <1>5. ASSUME row' # NoRow
        PROVE  (Indexes' = {} => First' # {}) /\ (\A d \in Caller : Knows(req[d])') /\ Rests'
    <2>1. Indexes' = {} => First' # {}
      <3>1. Indexes = {} => c \in First'
        BY <1>5 DEF First, Started, At
      <3> QED
        BY <1>3, <3>1
    <2>2. \A d \in Caller : Knows(req[d])'
      <3>1. \A d \in Caller : d # c => Knows(req[d])'
        BY <1>1 DEF Knows
      <3> QED
        BY <1>5, <3>1
    <2>3. Rests'
      <3>1. req'[c].pc \in {"load", "append"} => Ahead' # {}
        BY DEF Ahead
      <3> QED
        BY <1>3, <1>5, <3>1 DEF Rests
    <2> QED
      BY <2>1, <2>2, <2>3
  <1> QED
    BY <1>2, <1>4, <1>5 DEF Faithful

LEMMA FaithfulBeginning ==
  ASSUME NoteInv, Faithful, NEW c \in Caller, Beginning(c)
  PROVE  Faithful'
  <1> SUFFICES ASSUME ~raced' PROVE Faithful'
    BY DEF Faithful
  <1>0. NoteTypeOK /\ InsertFirst
    BY DEF NoteInv
  <1>1. ~raced /\ Busy = {}
    BY DEF Beginning, BeginInsert, BeginUpdate, BeginRestore, Begin
  <1>2. /\ Others(c) /\ UNCHANGED <<row, snapshots, deltas>>
        /\ req'[c].pc \in {"content", "read"}
    BY <1>0, BeginningIs
  <1>3. First = {} /\ Ahead = {}
    BY <1>1 DEF First, Started, Ahead, Busy, At
  <1>4. row # NoRow => Indexes # {} /\ Last = row
    BY <1>1, <1>3 DEF Faithful, Rests
  <1>5. Knows(req[c])'
    BY <1>2 DEF Knows
  <1> QED
    BY <1>1, <1>2, <1>4, <1>5, FaithfulGoing

LEMMA FaithfulInserting ==
  ASSUME NoteInv, Faithful, NEW c \in Caller, Inserting(c)
  PROVE  Faithful'
  <1>0. NoteTypeOK /\ InsertFirst
    BY DEF NoteInv
  <1>1. /\ Requests /\ Others(c) /\ c \in Busy /\ UNCHANGED <<snapshots, deltas, raced>>
    BY <1>0, InsertingIs DEF NoteTypeOK, Requests
  <1> SUFFICES ASSUME ~raced PROVE Faithful'
    BY <1>1 DEF Faithful
  <1>2. Busy \subseteq {c}
    BY <1>1 DEF Faithful, OneAtATime
  <1>3. Meant(req'[c]) = Meant(req[c])
    BY <1>1, GotoKeeps DEF Inserting, InsertContent, AddToParents, InsertOwner
  <1>4. Indexes' = Indexes
    BY <1>1, SameVersions
  <1>5. CASE At(c, "content")
    <2>1. req'[c].pc = "parent" /\ row' = req[c].ask
      BY <1>0, <1>5, InsertingIs DEF At
    <2>2. req[c].ask \in Doc /\ snapshots = {} /\ deltas = {}
      BY <1>0, <1>5 DEF InsertFirst
    <2>3. Indexes = {}
      BY <2>2 DEF Indexes, IndexesOf
    <2>4. Meant(req[c]) = req[c].ask
      BY <2>2, VersionsAssumption DEF Meant, Merge, Doc
    <2>5. Knows(req[c])'
      BY <1>3, <1>4, <2>1, <2>3, <2>4 DEF Knows
    <2> QED
      BY <1>1, <1>2, <2>1, <2>3, <2>5, FaithfulGoing
  <1>6. CASE ~At(c, "content")
    <2>1. /\ req[c].pc \in {"parent", "owner"} /\ req'[c].pc \in {"owner", "index"} /\ row' = row
      BY <1>0, <1>6, InsertingIs DEF At
    <2>2. row # NoRow => Indexes = {} /\ row = Meant(req[c])
      BY <2>1 DEF Faithful, Knows
    <2>3. row' # NoRow => Knows(req[c])'
      BY <1>3, <1>4, <2>1, <2>2 DEF Knows
    <2> QED
      BY <1>1, <1>2, <2>1, <2>2, <2>3, FaithfulGoing
  <1> QED
    BY <1>5, <1>6

LEMMA FaithfulReading ==
  ASSUME NoteInv, Faithful, NEW c \in Caller, ReadCurrent(c)
  PROVE  Faithful'
  <1>1. /\ Requests /\ Others(c) /\ c \in Busy /\ UNCHANGED <<row, snapshots, deltas, raced>>
        /\ req[c].pc = "read"
    BY UpdatingIs DEF NoteInv, NoteTypeOK, Requests, ReadCurrent, At
  <1> SUFFICES ASSUME ~raced PROVE Faithful'
    BY <1>1 DEF Faithful
  <1>2. Busy \subseteq {c}
    BY <1>1 DEF Faithful, OneAtATime
  <1>3. Indexes' = Indexes
    BY <1>1, SameVersions
  <1>4. First = {} /\ Ahead = {}
    BY <1>1, <1>2 DEF First, Started, Ahead, Busy, At
  <1>5. row # NoRow => Indexes # {} /\ Last = row
    BY <1>4 DEF Faithful, Rests
  <1>6. row' # NoRow => req'[c].pc = "write" /\ req'[c].seen = row
    BY <1>1 DEF ReadCurrent, Requests, Request
  <1>7. row' # NoRow => Knows(req[c])'
    BY <1>1, <1>3, <1>5, <1>6 DEF Knows
  <1> QED
    BY <1>1, <1>2, <1>5, <1>7, FaithfulGoing

LEMMA FaithfulWriting ==
  ASSUME NoteInv, Faithful, NEW c \in Caller, WriteContent(c)
  PROVE  Faithful'
  <1>1. /\ Requests /\ Others(c) /\ c \in Busy /\ UNCHANGED <<snapshots, deltas, raced>>
        /\ req[c].pc = "write"
    BY UpdatingIs DEF NoteInv, NoteTypeOK, Requests, WriteContent, At
  <1> SUFFICES ASSUME ~raced PROVE Faithful'
    BY <1>1 DEF Faithful
  <1>2. Busy \subseteq {c}
    BY <1>1 DEF Faithful, OneAtATime
  <1>3. Indexes' = Indexes /\ Last' = Last
    BY <1>1, SameVersions DEF Last
  <1>4. Ahead = {}
    BY <1>1, <1>2 DEF Ahead, Busy, At
  <1>5. row # NoRow => Indexes # {} /\ row = req[c].seen /\ Last = row
    BY <1>1, <1>4 DEF Faithful, Knows, Rests
  <1>6. row = NoRow => row' = NoRow
    BY DEF WriteContent
  <1>7. row # NoRow => row' = Meant(req[c])
    BY <1>5 DEF WriteContent, Meant
  <1>8. CASE row # NoRow /\ Meant(req[c]) = req[c].seen
    <2>1. req'[c].pc = "idle"
      BY <1>1, <1>8, EndIs DEF WriteContent
    <2>2. Knows(req[c])'
      BY <2>1 DEF Knows
    <2> QED
      BY <1>1, <1>2, <1>5, <1>7, <1>8, <2>2, FaithfulGoing
  <1>9. CASE row # NoRow /\ Meant(req[c]) # req[c].seen
    <2>1. Goto(c, "load")
      BY <1>9 DEF WriteContent
    <2>2. req'[c].pc = "load" /\ req'[c].seen = req[c].seen /\ Meant(req'[c]) = Meant(req[c])
      BY <1>1, <2>1, GotoIs, GotoKeeps DEF Step
    <2>3. Knows(req[c])'
      BY <1>3, <1>5, <1>7, <1>9, <2>2 DEF Knows
    <2> QED
      BY <1>1, <1>2, <1>5, <1>9, <2>2, <2>3, FaithfulGoing
  <1> QED
    BY <1>1, <1>2, <1>6, <1>8, <1>9, FaithfulGoing

LEMMA FaithfulCounting ==
  ASSUME NoteInv, Faithful, NEW c \in Caller, Counting(c)
  PROVE  Faithful'
  <1>0. NoteTypeOK /\ NoGap /\ Room
    BY DEF NoteInv
  <1>1. /\ Requests /\ Others(c) /\ c \in Busy /\ UNCHANGED <<row, snapshots, deltas, raced>>
        /\ \/ req[c].pc = "load" /\ snapshots = {}
           \/ req[c].pc \in {"load", "index"} /\ req'[c].pc = "append" /\ req'[c].n = Held + 1
    BY <1>0, CountingIs DEF NoteTypeOK, Requests, At
  <1> SUFFICES ASSUME ~raced PROVE Faithful'
    BY <1>1 DEF Faithful
  <1>2. Busy \subseteq {c}
    BY <1>1 DEF Faithful, OneAtATime
  <1>3. Indexes' = Indexes /\ Last' = Last /\ Held' = Held
    BY <1>1, SameVersions DEF Last
  <1>4. req'[c].seen = req[c].seen /\ Meant(req'[c]) = Meant(req[c])
    BY <1>1, CountKeeps
  <1>5. row # NoRow => Knows(req[c])
    BY DEF Faithful
  <1>6. row # NoRow => req'[c].pc = "append" /\ req'[c].n = Held + 1
    <2>1. row # NoRow /\ req[c].pc = "load" => snapshots # {}
      BY <1>0, <1>5 DEF Knows, NoGap, IndexesOf
    <2> QED
      BY <1>1, <2>1
  <1>7. row # NoRow => Knows(req[c])'
    BY <1>1, <1>3, <1>4, <1>5, <1>6 DEF Knows
  <1> QED
    BY <1>1, <1>2, <1>6, <1>7, FaithfulGoing

\* A version appended by a request that is alone gives back what it was made for,
\* and the others give back what they gave.
LEMMA FaithfulAppend ==
  ASSUME PatchesExact, NoteInv, Faithful, NEW c \in Caller, Append(c)
  PROVE  Faithful'
  <1>0. NoteTypeOK /\ NoGap /\ OneEach /\ Room /\ Queued /\ Held \in Nat
    BY HeldIs DEF NoteInv
  <1>1. /\ Requests /\ Others(c) /\ c \in Busy /\ row' = row /\ req[c] \in Request
        /\ req[c].pc = "append" /\ req'[c].pc = "idle"
    BY <1>0, AppendIs DEF NoteTypeOK, Requests, At
  <1> SUFFICES ASSUME ~raced' PROVE Faithful'
    BY DEF Faithful
  <1> DEFINE r == req[c]
             n == Held + 1
             made == Meant(r)
             S == snapshots
             T == snapshots'
             D == deltas
             E == deltas'
  <1>2. /\ ~raced /\ row # NoRow
        /\ \/ r.base = 0 /\ T = S \cup {NewSnapshot(r)} /\ E = D
           \/ r.base # 0 /\ E = D \cup {NewDelta(r)} /\ T = S
    BY DEF Append
  <1>3. OneAtATime /\ Apart /\ OnePerIndex(S) /\ OnePerIndex(D) /\ Kept /\ Knows(r)
    BY <1>0, <1>2 DEF Faithful, OneVersionEach, OneEach, OnePerIndex
  <1>4. /\ r.n = n /\ row = made /\ (Indexes # {} => Last = r.seen)
        /\ made \in Doc /\ r.seen \in Doc
    BY <1>1, <1>3, MergeTyped DEF Knows, Meant, Request
  <1>5. n \in Index /\ n \in Nat /\ n = Held + 1
    BY <1>0, <1>1, RoomForOne, VersionsAssumption DEF Index
  <1>6. n \notin IndexesOf(S) /\ n \notin IndexesOf(D)
    BY <1>0 DEF NoGap, Indexes
  <1>7. S \in SUBSET Snapshot /\ T \in SUBSET Snapshot /\ D \in SUBSET Delta
    <2>1. r.base = 0 => NewSnapshot(r) \in Snapshot
      BY <1>1, <1>4, <1>5, NewSnapshotTyped
    <2> QED
      BY <1>0, <1>2, <2>1 DEF NoteTypeOK
  <1>8. NewSnapshot(r).index = n /\ NewDelta(r).index = n
    BY <1>4 DEF NewSnapshot, NewDelta
  <1>9. Apart' /\ OnePerIndex(T) /\ OnePerIndex(E)
    <2>1. \A v \in S \cup D : v.index # n
      BY <1>6 DEF IndexesOf
    <2>2. OnePerIndex(T) /\ OnePerIndex(E)
      BY <1>2, <1>3, <1>8, <2>1 DEF OnePerIndex
    <2>3. Apart'
      BY <1>2, <1>3, <1>6, <1>8 DEF Apart, IndexesOf
    <2> QED
      BY <2>2, <2>3
  <1>10. ASSUME NEW i \in 1..Held
         PROVE  ContentIn(T, E, i) = ContentIn(S, D, i)
    <2>1. i \in Index /\ i \in Nat /\ i < n /\ 1 <= i
      BY <1>0, <1>5, VersionsAssumption DEF Index
    <2>2. \E s \in S : s.index <= i
      <3>1. i \in Indexes
        BY <1>0 DEF NoGap
      <3>2. 1 \in IndexesOf(S)
        BY <1>0, <3>1 DEF NoGap
      <3> QED
        BY <2>1, <3>2 DEF IndexesOf
    <2>3. S \subseteq T /\ \A t \in T : t.index <= i => t \in S
      BY <1>2, <1>5, <1>8, <2>1
    <2>4. \A k \in Nat : k <= i => \A doc : Replayed(D, k, doc) = Replayed(E, k, doc)
      <3>1. \A k \in Nat : k <= i => k # n
        BY <1>5, <2>1
      <3>2. CASE E = D
        BY <3>2
      <3>3. CASE E = D \cup {NewDelta(r)}
        <4>1. PICK d : d = NewDelta(r)
          OBVIOUS
        <4>2. E = D \cup {d} /\ d.index = n /\ OnePerIndex(D \cup {d})
          BY <1>8, <1>9, <3>3, <4>1
        <4> HIDE DEF D, E
        <4> QED
          BY <3>1, <4>2, ReplayedBeside
      <3> QED
        BY <1>2, <3>2, <3>3
    <2> HIDE DEF S, T, D, E
    <2> QED
      BY <1>3, <1>7, <2>1, <2>2, <2>3, <2>4, ContentStays
  <1>11. ContentIn(T, E, n) = made
    <2>1. CASE r.base = 0
      <3>1. PICK s : s = NewSnapshot(r)
        OBVIOUS
      <3>2. s \in T /\ s.index = n /\ s.doc = made
        BY <1>2, <1>8, <2>1, <3>1 DEF NewSnapshot
      <3> HIDE DEF S, T, D, E
      <3> QED
        BY <1>7, <1>9, <3>2, ContentOfSnapshot
    <2>2. CASE r.base # 0
      <3>1. PICK d : d = NewDelta(r)
        OBVIOUS
      <3>2. /\ d \in E /\ d.index = n
            /\ d.title = TitlePatch(r.seen.title, made.title)
            /\ d.text = TextPatch(r.seen.text, made.text)
        BY <1>2, <1>8, <2>2, <3>1 DEF NewDelta
      <3>3. snapshots # {}
        BY <1>0, <1>1, <1>2, <2>2 DEF Queued, At
      <3>4. Indexes # {} /\ 1 \in IndexesOf(S)
        BY <1>0, <3>3 DEF NoGap, Indexes, IndexesOf
      <3>5. Held \in 1..Held /\ Held \in Index /\ \E s \in S : s.index <= Held
        <4>1. 1 \in 1..Held
          BY <1>0, <3>4 DEF NoGap, Indexes
        <4> QED
          BY <1>0, <1>5, <3>4, <4>1, VersionsAssumption DEF Index, IndexesOf
      <3>6. ContentIn(T, E, Held) = r.seen
        BY <1>4, <1>10, <3>4, <3>5 DEF Last
      <3>7. T = S
        BY <1>2, <2>2
      <3>8. ContentIn(T, E, n) = Replayed(E, n, ContentIn(T, E, Held))
        <4> HIDE DEF S, T, D, E, n
        <4> QED
          BY <1>3, <1>5, <1>6, <1>7, <3>5, <3>7, ContentOfDelta
      <3>9. Replayed(E, n, r.seen) = [title |-> Apply(d.title, r.seen.title), text |-> Apply(d.text, r.seen.text)]
        <4> HIDE DEF S, T, D, E, n
        <4> QED
          BY <1>9, <3>2, ReplayedBy
      <3>10. Apply(d.title, r.seen.title) = made.title
        BY <1>4, <3>2, DocFields, VersionsAssumption DEF TitlePatch, Apply
      <3>11. Apply(d.text, r.seen.text) = made.text
        BY <1>4, <3>2, DocFields DEF PatchesExact
      <3>12. made = [title |-> made.title, text |-> made.text]
        BY <1>4 DEF Doc
      <3> QED
        BY <3>6, <3>8, <3>9, <3>10, <3>11, <3>12
    <2> QED
      BY <2>1, <2>2
  <1>12. Kept'
    <2> SUFFICES ASSUME NEW v \in T \cup E PROVE ContentIn(T, E, v.index) = v.meant
      BY DEF Kept
    <2>1. CASE v \in S \cup D
      <3>1. v.index \in Indexes
        BY <2>1 DEF Indexes, IndexesOf
      <3>2. v.index \in 1..Held
        BY <1>0, <3>1 DEF NoGap
      <3> QED
        BY <1>3, <1>10, <2>1, <3>2 DEF Kept
    <2>2. CASE v \notin S \cup D
      <3>1. v.index = n /\ v.meant = made
        BY <1>2, <1>8, <2>2 DEF NewSnapshot, NewDelta
      <3> QED
        BY <1>11, <3>1
    <2> QED
      BY <2>1, <2>2
  <1>13. \A d \in Caller : req'[d].pc = "idle"
    BY <1>1, <1>3 DEF OneAtATime, Busy, At, Others
  <1>14. OneAtATime' /\ Ahead' = {} /\ \A d \in Caller : Knows(req[d])'
    BY <1>13 DEF OneAtATime, Busy, At, Ahead, Knows
  <1>15. Indexes' # {} /\ Held' = n
    <2>1. NewIndex(c) \/ UNCHANGED <<snapshots, deltas>>
      BY AppendAdds
    <2>2. n \in Indexes' /\ n \notin Indexes
      BY <1>2, <1>6, <1>8 DEF Indexes, IndexesOf
    <2>3. NewIndex(c)
      BY <2>1, <2>2, SameVersions
    <2> QED
      BY <1>4, <2>2, <2>3, HeldAfter
  <1>16. Last' = row'
    BY <1>1, <1>4, <1>11, <1>15 DEF Last
  <1> QED
    BY <1>9, <1>12, <1>14, <1>15, <1>16 DEF Faithful, OneVersionEach, Rests

LEMMA FaithfulInit == NoteInit => Faithful
  <1> SUFFICES ASSUME NoteInit PROVE Faithful
    OBVIOUS
  <1>1. Busy = {}
    BY IdleTyped DEF NoteInit, Busy, At
  <1> QED
    BY <1>1 DEF NoteInit, Faithful, OneAtATime, OneVersionEach, Apart, OnePerIndex, Kept, IndexesOf

LEMMA FaithfulStep ==
  ASSUME PatchesExact, NoteInv, Faithful, [NoteNext]_noteVars
  PROVE  Faithful'
  <1>1. CASE NoteNext
    <2>1. PICK c \in Caller : Beginning(c) \/ DeleteNote(c) \/ Going(c) \/ Fail(c)
      BY <1>1, TheSteps DEF NoteNext
    <2>2. CASE DeleteNote(c)
      <3>1. OneAtATime' = OneAtATime
        BY <2>2 DEF DeleteNote, OneAtATime, Busy, At
      <3> QED
        BY <2>2, <3>1 DEF DeleteNote, Faithful, OneVersionEach, Apart, OnePerIndex, Kept, IndexesOf
    <2>3. CASE Fail(c)
      BY <2>3 DEF Fail, Faithful
    <2> QED
      BY <2>1, <2>2, <2>3, FaithfulBeginning, FaithfulInserting, FaithfulReading, FaithfulWriting,
         FaithfulCounting, FaithfulAppend DEF Going
  <1>2. CASE UNCHANGED noteVars
    <2>1. /\ UNCHANGED <<row, snapshots, deltas, req, raced>>
          /\ Indexes' = Indexes /\ Held' = Held
      BY <1>2, SameVersions DEF noteVars
    <2>2. Busy' = Busy /\ First' = First /\ Ahead' = Ahead /\ Last' = Last
      BY <2>1 DEF Busy, At, First, Started, Ahead, Last
    <2>3. \A d \in Caller : Knows(req[d])' = Knows(req[d])
      BY <2>1, <2>2 DEF Knows
    <2>4. OneAtATime' = OneAtATime /\ OneVersionEach' = OneVersionEach /\ Kept' = Kept /\ Rests' = Rests
      BY <2>1, <2>2 DEF OneAtATime, OneVersionEach, Apart, Kept, Rests
    <2> QED
      BY <2>1, <2>2, <2>3, <2>4 DEF Faithful
  <1> QED
    BY <1>1, <1>2

\* versioning.py on get_content_at_version: each version gives back the document it
\* was made for, and the last one what the note says, as long as requests come one
\* after the other and none fails.  It holds of every note whose patches are exact,
\* and so of every one of at most three lines; PatchesExactIfShort shows the limit.
THEOREM HistoryAlwaysFaithful ==
  Cardinality(Line) <= ContextLines + 1 => (NoteSpec => []HistoryIsFaithful)
  <1> SUFFICES ASSUME PatchesExact PROVE NoteSpec => []HistoryIsFaithful
    BY ShortTextsAreExact
  <1>1. NoteInit => NoteInv /\ Faithful
    BY NoteInvInit, FaithfulInit
  <1>2. NoteInv /\ Faithful /\ [NoteNext]_noteVars => (NoteInv /\ Faithful)'
    BY NoteInvStep, FaithfulStep
  <1>3. NoteInv /\ Faithful => HistoryIsFaithful
    <2> SUFFICES ASSUME NoteInv, Faithful PROVE HistoryIsFaithful
      OBVIOUS
    <2>1. Reconstructs
      BY ContentIs DEF Faithful, Kept, Reconstructs
    <2>2. ASSUME ~raced, Busy = {}, row # NoRow PROVE ContentAt(Max(Indexes)) = row
      <3>1. First = {} /\ Ahead = {}
        BY <2>2 DEF First, Started, Ahead, Busy, At
      <3>2. Indexes # {} /\ Last = row
        BY <2>2, <3>1 DEF Faithful, Rests
      <3>3. Held \in Nat /\ Indexes = 1..Held
        BY HeldIs DEF NoteInv, NoGap
      <3>4. Max(Indexes) = Held
        <4>1. 1 \in 1..Held
          BY <3>2, <3>3
        <4>2. Indexes \in SUBSET Nat /\ Held \in Indexes /\ \A k \in Indexes : k <= Held
          BY <3>3, <4>1
        <4> QED
          BY <4>2, MaxIs
      <3> QED
        BY <3>2, <3>4, ContentIs DEF Last
    <2> QED
      BY <2>1, <2>2 DEF HistoryIsFaithful
  <1> QED
    BY <1>1, <1>2, <1>3, PTL DEF NoteSpec
===============================================================================
