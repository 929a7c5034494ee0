------------------------ MODULE DirectoryTree_proofs ------------------------
(***************************************************************************)
(* Proofs about the directory hierarchy and its two stores.                *)
(***************************************************************************)
EXTENDS DirectoryTree, FiniteSetTheorems, WellFoundedInduction, TLAPS

-----------------------------------------------------------------------------
(* Walks.  The recursion of Below is unfolded with the induction over the  *)
(* naturals in its set form: a set with 0 and all successors is Nat.       *)

\* Induction, for a set of naturals.
LEMMA NatSetInduction ==
  ASSUME NEW S \in SUBSET Nat, 0 \in S, \A n \in S : n + 1 \in S
  PROVE  S = Nat
<1> DEFINE R == {ss \in Nat \X Nat : ss[1] < ss[2]}
           T == Nat \ S
<1>1. IsWellFoundedOn(R, Nat)
  BY NatLessThanWellFounded DEF OpToRel
<1>2. CASE T # {}
  <2>1. PICK n \in T : \A m \in T : ~ (<<m, n>> \in R)
    <3> HIDE DEF R
    <3> QED  BY <1>1, <1>2, WFMin
  <2>2. n # 0 /\ n - 1 \in Nat /\ n - 1 < n
    BY <2>1
  <2>3. n - 1 \in S
    BY <2>1, <2>2
  <2> QED  BY <2>1, <2>2, <2>3
<1> QED  BY <1>2

\* The levels that Below walks over exist to any depth.
IsWalk(edges, d, depth, L) ==
  L = [i \in 0..depth |-> IF i = 0 THEN {}
                          ELSE L[i-1] \cup Children(edges, {d} \cup L[i-1])]

\* A walk begins with nothing, and each level adds the children.
IsLevels(edges, d, n, L) ==
  L[0] = {} /\ \A i \in 1..n : L[i] = L[i-1] \cup Children(edges, {d} \cup L[i-1])

LEMMA WalkLevels ==
  ASSUME NEW edges, NEW d, NEW n \in Nat, NEW L, IsWalk(edges, d, n, L)
  PROVE  IsLevels(edges, d, n, L)
<1>1. 0 \in 0..n
  OBVIOUS
<1>2. L[0] = {}
  BY <1>1 DEF IsWalk
<1>3. ASSUME NEW i \in 1..n PROVE L[i] = L[i-1] \cup Children(edges, {d} \cup L[i-1])
  <2>1. i \in 0..n /\ i # 0
    OBVIOUS
  <2> QED  BY <2>1 DEF IsWalk
<1> QED  BY <1>2, <1>3 DEF IsLevels

LEMMA WalkExists ==
  ASSUME NEW edges, NEW d, NEW depth \in Nat
  PROVE  \E L : IsWalk(edges, d, depth, L)
<1> DEFINE S == {n \in Nat : \E L : IsWalk(edges, d, n, L)}
<1>1. 0 \in S
  <2> DEFINE L == [i \in 0..0 |-> {}]
  <2>1. IsWalk(edges, d, 0, L)
    BY DEF IsWalk
  <2> QED  BY <2>1
<1>2. ASSUME NEW n \in S PROVE n + 1 \in S
  <2>1. PICK L : IsWalk(edges, d, n, L)
    OBVIOUS
  <2> DEFINE M == [i \in 0..n+1 |-> IF i = n + 1 THEN L[n] \cup Children(edges, {d} \cup L[n])
                                    ELSE L[i]]
  <2>2. \A i \in 0..n : M[i] = L[i]
    OBVIOUS
  <2>3. \A i \in 0..n : L[i] = IF i = 0 THEN {} ELSE L[i-1] \cup Children(edges, {d} \cup L[i-1])
    BY <2>1 DEF IsWalk
  <2>4. \A i \in 0..n+1 :
           M[i] = IF i = 0 THEN {} ELSE M[i-1] \cup Children(edges, {d} \cup M[i-1])
    <3> TAKE i \in 0..n+1
    <3>1. CASE i = n + 1
      <4>1. M[i] = L[n] \cup Children(edges, {d} \cup L[n]) /\ M[i-1] = L[n] /\ i # 0
        BY <3>1
      <4> QED  BY <4>1
    <3>2. CASE i # n + 1 /\ i # 0
      <4>1. i \in 0..n /\ i - 1 \in 0..n
        BY <3>2
      <4> QED  BY <4>1, <2>2, <2>3, <3>2
    <3>3. CASE i = 0
      <4>0. n \in Nat
        OBVIOUS
      <4> HIDE DEF M, S
      <4>1. 0 \in 0..n /\ L[0] = {}
        BY <4>0, <2>1, WalkLevels DEF IsLevels
      <4>2. M[0] = {}
        BY <4>1, <2>2
      <4> QED  BY <4>2, <3>3
    <3> QED  BY <3>1, <3>2, <3>3
  <2>5. IsWalk(edges, d, n + 1, M)
    <3> HIDE DEF M
    <3>1. M = [i \in 0..n+1 |-> M[i]]
      BY DEF M
    <3> QED  BY <2>4, <3>1 DEF IsWalk
  <2> QED  BY <2>5
<1>3. S = Nat
  <2> HIDE DEF S
  <2>1. S \in SUBSET Nat
    BY DEF S
  <2> QED  BY <1>1, <1>2, <2>1, NatSetInduction
<1> QED  BY <1>3

LEMMA BelowIsWalk ==
  ASSUME NEW edges, NEW d, NEW depth \in Nat
  PROVE  \E L : IsWalk(edges, d, depth, L) /\ Below(edges, d, depth) = L[depth]
<1> DEFINE K == CHOOSE L : IsWalk(edges, d, depth, L)
<1>1. IsWalk(edges, d, depth, K)
  BY WalkExists
<1>2. Below(edges, d, depth) = K[depth]
  BY DEF Below, IsWalk
<1> QED  BY <1>1, <1>2

\* Two walks agree as far as both go.
LEMMA WalkUnique ==
  ASSUME NEW edges, NEW d, NEW m \in Nat, NEW n \in Nat, m <= n, NEW K, NEW L,
         IsWalk(edges, d, m, K), IsWalk(edges, d, n, L)
  PROVE  \A i \in 0..m : K[i] = L[i]
<1> DEFINE S == {i \in Nat : i <= m => K[i] = L[i]}
<1>1. IsLevels(edges, d, m, K) /\ IsLevels(edges, d, n, L)
  BY WalkLevels
<1>2. K[0] = {} /\ L[0] = {}
  BY <1>1 DEF IsLevels
<1>3. 0 \in S
  BY <1>1, <1>2
<1>4. ASSUME NEW i \in S PROVE i + 1 \in S
  <2>1. CASE i + 1 <= m
    <3>1. K[i] = L[i]
      BY <2>1
    <3>2. K[i+1] = K[i] \cup Children(edges, {d} \cup K[i])
      <4>1. i + 1 \in 1..m /\ (i + 1) - 1 = i
        BY <2>1
      <4> QED  BY <4>1, <1>1 DEF IsLevels
    <3>3. L[i+1] = L[i] \cup Children(edges, {d} \cup L[i])
      <4>1. i + 1 \in 1..n /\ (i + 1) - 1 = i
        BY <2>1
      <4> QED  BY <4>1, <1>1 DEF IsLevels
    <3>4. K[i+1] = L[i+1]
      <4> HIDE DEF S
      <4> QED  BY <3>1, <3>2, <3>3
    <3> QED  BY <3>4
  <2> QED  BY <2>1
<1> HIDE DEF S
<1>5. S = Nat
  <2>1. S \in SUBSET Nat
    BY DEF S
  <2> QED  BY <2>1, <1>3, <1>4, NatSetInduction
<1> QED  BY <1>5 DEF S

\* The recursion of Below: nothing at depth 0, and the children at each further step.
LEMMA BelowSteps ==
  ASSUME NEW edges, NEW d, NEW n \in Nat
  PROVE  /\ Below(edges, d, 0) = {}
         /\ Below(edges, d, n + 1)
              = Below(edges, d, n) \cup Children(edges, {d} \cup Below(edges, d, n))
<1>1. PICK K : IsWalk(edges, d, n, K) /\ Below(edges, d, n) = K[n]
  BY BelowIsWalk
<1>2. PICK L : IsWalk(edges, d, n + 1, L) /\ Below(edges, d, n + 1) = L[n + 1]
  BY BelowIsWalk
<1>3. PICK M : IsWalk(edges, d, 0, M) /\ Below(edges, d, 0) = M[0]
  BY BelowIsWalk
<1>4. M[0] = {}
  BY <1>3 DEF IsWalk
<1>5. K[n] = L[n]
  BY <1>1, <1>2, WalkUnique
<1>6. L[n + 1] = L[n] \cup Children(edges, {d} \cup L[n])
  <2>1. n + 1 \in 1..n+1 /\ (n + 1) - 1 = n
    OBVIOUS
  <2>2. IsLevels(edges, d, n + 1, L)
    BY <1>2, WalkLevels
  <2> QED  BY <2>1, <2>2 DEF IsLevels
<1> QED  BY <1>1, <1>2, <1>3, <1>4, <1>5, <1>6

LEMMA BelowGrows ==
  ASSUME NEW edges, NEW d, NEW n \in Nat
  PROVE  Below(edges, d, n) \subseteq Below(edges, d, n + 1)
<1>1. Below(edges, d, n + 1)
        = Below(edges, d, n) \cup Children(edges, {d} \cup Below(edges, d, n))
  BY BelowSteps
<1> QED  BY <1>1

\* Whatever contains d and is closed under edges contains what a walk from d sees.
LEMMA BelowInClosed ==
  ASSUME NEW edges, NEW d, NEW n \in Nat, NEW R, d \in R,
         \A e \in edges : e[1] \in R => e[2] \in R
  PROVE  Below(edges, d, n) \subseteq R
<1> DEFINE S == {k \in Nat : Below(edges, d, k) \subseteq R}
<1>1. 0 \in S
  BY BelowSteps
<1>2. ASSUME NEW k \in S PROVE k + 1 \in S
  <2>1. Children(edges, {d} \cup Below(edges, d, k)) \subseteq R
    BY DEF Children
  <2> QED  BY <2>1, BelowSteps
<1> HIDE DEF S
<1>3. S = Nat
  <2>1. S \in SUBSET Nat
    BY DEF S
  <2> QED  BY <2>1, <1>1, <1>2, NatSetInduction
<1> QED  BY <1>3 DEF S

\* A walk of at least one step sees the children.
LEMMA BelowHasChildren ==
  ASSUME NEW edges, NEW d, NEW n \in Nat \ {0}
  PROVE  Children(edges, {d}) \subseteq Below(edges, d, n)
<1> DEFINE S == {k \in Nat : Children(edges, {d}) \subseteq Below(edges, d, k + 1)}
<1>1. 0 \in S
  <2>1. Below(edges, d, 0) = {} /\ Below(edges, d, 0 + 1)
           = Below(edges, d, 0) \cup Children(edges, {d} \cup Below(edges, d, 0))
    BY BelowSteps
  <2> QED  BY <2>1
<1>2. ASSUME NEW k \in S PROVE k + 1 \in S
  <2>1. Below(edges, d, k + 1) \subseteq Below(edges, d, (k + 1) + 1)
    <3>1. PICK m \in Nat : m = k + 1
      OBVIOUS
    <3>2. Below(edges, d, m) \subseteq Below(edges, d, m + 1)
      BY BelowGrows
    <3> QED  BY <3>1, <3>2
  <2> QED  BY <2>1
<1> HIDE DEF S
<1>3. S = Nat
  <2>1. S \in SUBSET Nat
    BY DEF S
  <2> QED  BY <2>1, <1>1, <1>2, NatSetInduction
<1>4. n - 1 \in S /\ (n - 1) + 1 = n
  BY <1>3
<1> QED  BY <1>4 DEF S

\* Whoever is below d has a parent that is d or below d.
LEMMA BelowHasParent ==
  ASSUME NEW edges, NEW d, NEW n \in Nat, NEW x \in Below(edges, d, n)
  PROVE  \E e \in edges : e[2] = x /\ e[1] \in {d} \cup Below(edges, d, n)
<1> DEFINE S == {k \in Nat : \A y \in Below(edges, d, k) :
                   \E e \in edges : e[2] = y /\ e[1] \in {d} \cup Below(edges, d, k)}
<1>1. 0 \in S
  BY BelowSteps
<1>2. ASSUME NEW k \in S PROVE k + 1 \in S
  <2>1. Below(edges, d, k + 1)
          = Below(edges, d, k) \cup Children(edges, {d} \cup Below(edges, d, k))
    BY BelowSteps
  <2> QED  BY <2>1 DEF Children
<1> HIDE DEF S
<1>3. S = Nat
  <2>1. S \in SUBSET Nat
    BY DEF S
  <2> QED  BY <2>1, <1>1, <1>2, NatSetInduction
<1> QED  BY <1>3 DEF S

\* Closed(edges, S): a walk that has seen S has nothing more to see.
Closed(edges, S) == \A e \in edges : e[1] \in S => e[2] \in S

\* A walk of as many steps as there are other directories has seen everything: a step
\* of it that sees nothing new is the last.
LEMMA WalkCloses ==
  ASSUME NEW edges \in SUBSET (Dir \X Dir), NEW d \in Dir, NEW n \in Nat,
         Cardinality(Dir) <= n + 1
  PROVE  Closed(edges, {d} \cup Below(edges, d, n))
<1> DEFINE W(k) == {d} \cup Below(edges, d, k)
           S == {k \in Nat : Closed(edges, W(k)) \/ Cardinality(W(k)) >= k + 1}
<1>1. IsFiniteSet(Dir) /\ Cardinality(Dir) \in Nat
  BY IdsAssumption, FS_CardinalityType
<1>2. ASSUME NEW k \in Nat
      PROVE  W(k) \in SUBSET Dir /\ IsFiniteSet(W(k)) /\ Cardinality(W(k)) \in Nat
             /\ Cardinality(W(k)) <= Cardinality(Dir)
  <2>1. W(k) \in SUBSET Dir
    BY BelowInClosed
  <2> HIDE DEF W
  <2>2. IsFiniteSet(W(k)) /\ Cardinality(W(k)) <= Cardinality(Dir)
    BY <1>1, <2>1, FS_Subset
  <2> QED  BY <2>1, <2>2, FS_CardinalityType
<1>3. 0 \in S
  <2>1. W(0) = {d}
    BY BelowSteps
  <2>2. Cardinality({d}) = 1
    BY FS_Singleton
  <2> HIDE DEF W
  <2> QED  BY <2>1, <2>2
<1>4. ASSUME NEW k \in S PROVE k + 1 \in S
  <2>1. PICK m \in Nat : m = k + 1
    OBVIOUS
  <2>2. Below(edges, d, m) = Below(edges, d, k) \cup Children(edges, W(k))
    BY <2>1, BelowSteps
  <2>3. W(k) \subseteq W(m)
    BY <2>2
  <2>4. CASE Closed(edges, W(k))
    <3>1. Children(edges, W(k)) \subseteq W(k)
      <4> HIDE DEF W
      <4> QED  BY <2>4 DEF Closed, Children
    <3>2. W(m) = W(k)
      BY <2>2, <3>1
    <3> HIDE DEF W
    <3> QED  BY <2>1, <2>4, <3>2
  <2>5. CASE ~Closed(edges, W(k))
    <3>1. PICK e \in edges : e[1] \in W(k) /\ e[2] \notin W(k)
      BY <2>5 DEF Closed
    <3>2. e[2] \in W(m)
      <4>1. e[2] \in Children(edges, W(k))
        <5> HIDE DEF W
        <5> QED  BY <3>1 DEF Children
      <4> QED  BY <2>2, <4>1
    <3> HIDE DEF W
    <3>3. /\ Cardinality(W(k)) >= k + 1 /\ W(k) \in SUBSET W(m) /\ W(k) # W(m)
          /\ IsFiniteSet(W(m)) /\ Cardinality(W(m)) \in Nat /\ Cardinality(W(k)) \in Nat
      BY <1>2, <2>3, <2>5, <3>1, <3>2
    <3>4. Cardinality(W(k)) <= Cardinality(W(m)) /\ Cardinality(W(m)) # Cardinality(W(k))
      BY <3>3, FS_Subset
    <3>5. Cardinality(W(m)) >= m + 1
      BY <2>1, <3>3, <3>4
    <3> QED  BY <2>1, <3>5
  <2> QED  BY <2>4, <2>5
<1> HIDE DEF S
<1>5. S = Nat
  <2>1. S \in SUBSET Nat
    BY DEF S
  <2> QED  BY <2>1, <1>3, <1>4, NatSetInduction
<1>6. Closed(edges, W(n)) \/ Cardinality(W(n)) >= n + 1
  BY <1>5 DEF S
<1>7. Closed(edges, W(n))
  <2> HIDE DEF W
  <2>1. CASE Cardinality(W(n)) >= n + 1
    <3>1. /\ W(n) \in SUBSET Dir /\ Cardinality(W(n)) \in Nat
          /\ Cardinality(W(n)) <= Cardinality(Dir)
      BY <1>2
    <3>2. Cardinality(Dir) = Cardinality(W(n))
      BY <1>1, <2>1, <3>1
    <3>3. W(n) = Dir
      BY <1>1, <3>1, <3>2, FS_Subset
    <3> QED  BY <3>3 DEF Closed
  <2> QED  BY <1>6, <2>1
<1> QED  BY <1>7

-----------------------------------------------------------------------------
(* Types.  The two stores, the counters and the requests apart.              *)

PgOK ==
  /\ row \in [Dir \cup Note -> {"unused", "live", "gone"}]
  /\ sub \subseteq Dir \X Dir /\ filed \subseteq Dir \X Note
  /\ readme \in [Dir -> Note \cup {None}]
  /\ \A e \in sub : row[e[1]] = "live" /\ row[e[2]] = "live"
  /\ \A e \in filed : row[e[1]] = "live" /\ row[e[2]] = "live"
  /\ \A d \in Dir : readme[d] # None => row[readme[d]] = "live"

SpOK ==
  /\ spSub \subseteq Dir \X Dir /\ spFiled \subseteq Dir \X Note
  /\ owner \in [Dir \cup Note -> User \cup {None}]

HistOK == made \in 0..MaxRequests /\ raced \in BOOLEAN /\ disturbed \in BOOLEAN

\* A request names what its statements are about, and a deletion has a call.
DirPcs == {"readParents", "mirror", "cycleCheck", "rows"}
ReadmePcs == {"insertDir", "owner", "insertNote", "fileNote", "mirrorNote", "noteOwner",
              "bind", "bindTuple"}
NotePcs == {"readNoteRows", "noteRows", "unmirrorNote", "mirrorNotes"}
DeletePcs == {"resolve", "cascade"}

ReqOK(r) ==
  \/ r = Idle
  \/ /\ r \in Request /\ Len(r.stack) <= MaxStack
     /\ r.pc \in DirPcs \cup ReadmePcs => r.dir \in Dir
     /\ r.pc \in ReadmePcs \cup NotePcs => r.note \in Note
     /\ r.pc \in DeletePcs => r.stack # <<>>

ReqsOK == req \in [User -> Request \cup {Idle}] /\ \A u \in User : ReqOK(req[u])

Typed == PgOK /\ SpOK /\ HistOK /\ ReqsOK

LEMMA TypedImplies == Typed => DirectoryTypeOK
BY DEF Typed, PgOK, SpOK, HistOK, ReqsOK, ReqOK, DirectoryTypeOK

\* An open request is a record of its step.
LEMMA OpenRequest ==
  ASSUME ReqsOK, NEW u \in User, Open(u)
  PROVE  /\ req[u] \in Request /\ Len(req[u].stack) <= MaxStack /\ ReqOK(req[u])
         /\ req[u].pc \in Pc
         /\ req[u].pc \in DirPcs \cup ReadmePcs => req[u].dir \in Dir
         /\ req[u].pc \in ReadmePcs \cup NotePcs => req[u].note \in Note
         /\ req[u].pc \in DeletePcs => req[u].stack # <<>>
         /\ req[u].want \subseteq Dir /\ req[u].drop \subseteq Dir /\ req[u].add \subseteq Dir
         /\ req[u].stack \in Seq(Frame)
BY DEF ReqsOK, ReqOK, Open, Request

LEMMA AtOpen ==
  ASSUME NEW u \in User, NEW pc \in Pc, At(u, pc)
  PROVE  Open(u)
<1>1. Idle.pc = "idle" /\ "idle" \notin Pc
  BY DEF Idle, Pc
<1> QED  BY <1>1 DEF At, Open

\* Storing a request that is in order keeps all in order.
LEMMA StoreRequest ==
  ASSUME ReqsOK, NEW u \in User, NEW new, ReqOK(new), req' = [req EXCEPT ![u] = new]
  PROVE  ReqsOK'
<1>1. new \in Request \cup {Idle}
  BY DEF ReqOK
<1>2. req' \in [User -> Request \cup {Idle}]
  BY <1>1 DEF ReqsOK
<1>3. ASSUME NEW v \in User PROVE ReqOK(req'[v])
  BY DEF ReqsOK
<1> QED  BY <1>2, <1>3 DEF ReqsOK

\* The end of a request, and its way to the next step.
LEMMA EndTyped ==
  ASSUME ReqsOK, HistOK, NEW u \in User, End(u) \/ Raise(u)
  PROVE  ReqsOK' /\ HistOK' /\ raced' = raced
<1>1. ReqsOK'
  BY StoreRequest DEF End, Raise, ReqOK
<1> QED  BY <1>1 DEF End, Raise, HistOK, histVars

LEMMA GotoTyped ==
  ASSUME ReqsOK, NEW u \in User, Open(u), NEW pc \in Pc, Goto(u, pc),
         pc \in DirPcs \cup ReadmePcs => req[u].dir \in Dir,
         pc \in ReadmePcs \cup NotePcs => req[u].note \in Note,
         pc \in DeletePcs => req[u].stack # <<>>
  PROVE  ReqsOK'
<1> DEFINE new == [req[u] EXCEPT !.pc = pc]
<1>1. ReqOK(new)
  BY OpenRequest DEF ReqOK, Request
<1>2. req' = [req EXCEPT ![u] = new]
  BY DEF Goto
<1> HIDE DEF new
<1> QED  BY <1>1, <1>2, StoreRequest

\* A request goes on to pc with other directories to delete and to insert.
Edits(u, pc, drop, add) ==
  req' = [req EXCEPT ![u] = [req[u] EXCEPT !.pc = pc, !.drop = drop, !.add = add]]

LEMMA EditTyped ==
  ASSUME ReqsOK, NEW u \in User, Open(u), NEW pc \in Pc,
         NEW drop \in SUBSET Dir, NEW add \in SUBSET Dir, Edits(u, pc, drop, add),
         pc \in DirPcs \cup ReadmePcs => req[u].dir \in Dir,
         pc \in ReadmePcs \cup NotePcs => req[u].note \in Note,
         pc \in DeletePcs => req[u].stack # <<>>
  PROVE  ReqsOK'
<1> DEFINE new == [req[u] EXCEPT !.pc = pc, !.drop = drop, !.add = add]
<1>1. ReqOK(new)
  BY OpenRequest DEF ReqOK, Request
<1>2. req' = [req EXCEPT ![u] = new]
  BY DEF Edits
<1> HIDE DEF new
<1> QED  BY <1>1, <1>2, StoreRequest

\* What the head of a stack is replaced by, and what is under it.
LEMMA StackFacts ==
  ASSUME NEW s \in Seq(Frame), s # <<>>
  PROVE  /\ Head(s) \in Frame /\ Head(s) = s[1] /\ Len(s) \in Nat \ {0}
         /\ Tail(s) \in Seq(Frame) /\ Len(Tail(s)) = Len(s) - 1
         /\ \A i \in 1..Len(s) - 1 : Tail(s)[i] = s[i + 1]
         /\ \A i \in 1..Len(s) : s[i] \in Frame
OBVIOUS

LEMMA StackReplaced ==
  ASSUME NEW s \in Seq(Frame), s # <<>>, NEW f \in Frame
  PROVE  /\ <<f>> \o Tail(s) \in Seq(Frame) /\ Len(<<f>> \o Tail(s)) = Len(s)
         /\ <<f>> \o Tail(s) # <<>>
         /\ \A i \in 1..Len(s) : (<<f>> \o Tail(s))[i] = IF i = 1 THEN f ELSE s[i]
<1>1. Tail(s) \in Seq(Frame) /\ Len(Tail(s)) = Len(s) - 1 /\ Len(s) \in Nat \ {0}
      /\ \A i \in 1..Len(s) - 1 : Tail(s)[i] = s[i + 1]
  BY StackFacts
<1> QED  BY <1>1

LEMMA StackPushed ==
  ASSUME NEW s \in Seq(Frame), s # <<>>, NEW f \in Frame, NEW g \in Frame
  PROVE  /\ <<g, f>> \o Tail(s) \in Seq(Frame) /\ Len(<<g, f>> \o Tail(s)) = Len(s) + 1
         /\ <<g, f>> \o Tail(s) # <<>>
         /\ \A i \in 1..Len(s) + 1 : (<<g, f>> \o Tail(s))[i]
                = IF i = 1 THEN g ELSE IF i = 2 THEN f ELSE s[i - 1]
<1>1. Tail(s) \in Seq(Frame) /\ Len(Tail(s)) = Len(s) - 1 /\ Len(s) \in Nat \ {0}
      /\ \A i \in 1..Len(s) - 1 : Tail(s)[i] = s[i + 1]
  BY StackFacts
<1> QED  BY <1>1

\* A deletion goes on with another stack, no deeper than it may be.
Stacks(u, pc, s) == req' = [req EXCEPT ![u] = [req[u] EXCEPT !.pc = pc, !.stack = s]]

LEMMA StackTyped ==
  ASSUME ReqsOK, NEW u \in User, Open(u), NEW pc \in DeletePcs,
         NEW s \in Seq(Frame), s # <<>>, Len(s) <= MaxStack, Stacks(u, pc, s)
  PROVE  ReqsOK'
<1> DEFINE new == [req[u] EXCEPT !.pc = pc, !.stack = s]
<1>1. pc \in Pc /\ pc \notin DirPcs \cup ReadmePcs \cup NotePcs
  BY DEF DeletePcs, DirPcs, ReadmePcs, NotePcs, Pc
<1>2. ReqOK(new)
  BY <1>1, OpenRequest DEF ReqOK, Request
<1>3. req' = [req EXCEPT ![u] = new]
  BY DEF Stacks
<1> HIDE DEF new
<1> QED  BY <1>2, <1>3, StoreRequest

USE DEF histVars, pgVars, spVars

\* Where a request is.
LEMMA PcAt ==
  ASSUME ReqsOK, NEW u \in User, NEW pc \in Pc, At(u, pc)
  PROVE  Open(u) /\ req[u].pc = pc
BY AtOpen DEF At

\* Sets of parents are sets of directories.
LEMMA ParentsInDir ==
  ASSUME PgOK, NEW x
  PROVE  Parents(sub, x) \subseteq Dir /\ Parents(filed, x) \subseteq Dir
BY DEF PgOK, Parents

LEMMA ParentsAre ==
  ASSUME NEW T, NEW edges \in SUBSET (Dir \X T), NEW x, NEW p
  PROVE  p \in Parents(edges, x) <=> <<p, x>> \in edges
<1>1. CASE p \in Parents(edges, x)
  <2>1. PICK e \in edges : e[2] = x /\ e[1] = p
    BY <1>1 DEF Parents
  <2>2. e = <<e[1], e[2]>>
    OBVIOUS
  <2> QED  BY <1>1, <2>1, <2>2
<1>2. CASE <<p, x>> \in edges
  <2>1. <<p, x>>[1] = p /\ <<p, x>>[2] = x
    OBVIOUS
  <2> QED  BY <1>2, <2>1 DEF Parents
<1> QED  BY <1>1, <1>2

\* The requests stay in order at every statement that makes or lists a directory.
CreateStep(u) ==
  \/ InsertDir(u) \/ InsertOwner(u) \/ InsertNote(u) \/ FileNote(u) \/ MirrorNote(u)
  \/ InsertNoteOwner(u) \/ BindReadme(u) \/ BindTuple(u)

ReplaceStep(u) ==
  \/ ReadParents(u) \/ Mirror(u) \/ CycleCheck(u) \/ ReplaceRows(u)
  \/ ReadNoteRows(u) \/ ReplaceNoteRows(u) \/ UnmirrorNote(u) \/ MirrorNotes(u)

DeleteStep(u) == Resolve(u) \/ CascadeNote(u) \/ CascadeSub(u) \/ CascadeRow(u)

LEMMA ContinueSorted ==
  ASSUME NEW u \in User, Continue(u)
  PROVE  CreateStep(u) \/ ReplaceStep(u) \/ DeleteStep(u)
BY DEF Continue, CreateStep, ReplaceStep, DeleteStep

\* Its statements end the request, or go on to the next one of the same directory.
LEMMA CreateGoes ==
  ASSUME ReqsOK, NEW u \in User, CreateStep(u)
  PROVE  /\ Open(u) /\ req[u].pc \in ReadmePcs /\ req[u].dir \in Dir /\ req[u].note \in Note
         /\ \/ End(u) \/ Raise(u)
            \/ \E pc \in ReadmePcs \cup {"readParents"} : Goto(u, pc) /\ UNCHANGED histVars
<1>1. \E pc \in ReadmePcs : At(u, pc)
  BY DEF CreateStep, ReadmePcs, InsertDir, InsertOwner, InsertNote, FileNote, MirrorNote,
         InsertNoteOwner, BindReadme, BindTuple
<1>2. ReadmePcs \subseteq Pc
  BY DEF ReadmePcs, Pc
<1>3. Open(u) /\ req[u].pc \in ReadmePcs
  BY <1>1, <1>2, PcAt
<1>4. \/ End(u) \/ Raise(u)
      \/ \E pc \in ReadmePcs \cup {"readParents"} : Goto(u, pc) /\ UNCHANGED histVars
  BY DEF CreateStep, ReadmePcs, InsertDir, InsertOwner, InsertNote, FileNote, MirrorNote,
         InsertNoteOwner, BindReadme, BindTuple
<1> QED  BY <1>3, <1>4, OpenRequest

LEMMA CreateReqs ==
  ASSUME ReqsOK, HistOK, NEW u \in User, CreateStep(u)
  PROVE  ReqsOK' /\ HistOK' /\ raced' = raced
<1>1. CASE End(u) \/ Raise(u)
  BY <1>1, EndTyped
<1>2. ASSUME NEW pc \in ReadmePcs \cup {"readParents"}, Goto(u, pc), UNCHANGED histVars
      PROVE  ReqsOK' /\ HistOK' /\ raced' = raced
  <2>1. pc \in Pc /\ pc \notin DeletePcs
    BY DEF ReadmePcs, Pc, DeletePcs
  <2>2. ReqsOK'
    BY <1>2, <2>1, CreateGoes, GotoTyped
  <2> QED  BY <1>2, <2>2 DEF HistOK
<1> QED  BY <1>1, <1>2, CreateGoes

\* The replacement of parents ends, or goes on with other directories to write.
ReplacePcs == DirPcs \cup NotePcs

WritesOn(u) ==
  \E pc \in ReplacePcs, drop, add \in SUBSET Dir :
    /\ Edits(u, pc, drop, add) /\ UNCHANGED histVars
    /\ pc \in DirPcs <=> req[u].pc \in DirPcs

LEMMA ReplaceAt ==
  ASSUME ReqsOK, NEW u \in User, ReplaceStep(u)
  PROVE  /\ Open(u) /\ req[u].pc \in ReplacePcs
         /\ req[u].pc \in DirPcs => req[u].dir \in Dir
         /\ req[u].pc \in NotePcs => req[u].note \in Note
         /\ req[u] \in Request /\ req[u].want \in SUBSET Dir /\ req[u].drop \in SUBSET Dir
         /\ req[u].add \in SUBSET Dir
<1>1. \E pc \in ReplacePcs : At(u, pc)
  BY DEF ReplaceStep, ReplacePcs, DirPcs, NotePcs, ReadParents, Mirror, CycleCheck, ReplaceRows,
         ReadNoteRows, ReplaceNoteRows, UnmirrorNote, MirrorNotes
<1>2. ReplacePcs \subseteq Pc
  BY DEF ReplacePcs, DirPcs, NotePcs, Pc
<1>3. Open(u) /\ req[u].pc \in ReplacePcs
  BY <1>1, <1>2, PcAt
<1> QED  BY <1>3, OpenRequest

LEMMA WritesOnBy ==
  ASSUME NEW u \in User, NEW old \in ReplacePcs, NEW pc \in ReplacePcs, At(u, old),
         old \in DirPcs <=> pc \in DirPcs,
         NEW drop \in SUBSET Dir, NEW add \in SUBSET Dir,
         Edits(u, pc, drop, add), UNCHANGED histVars
  PROVE  WritesOn(u)
BY DEF WritesOn, At

\* It does by crossing one directory off, or by going on.
LEMMA EditsOne ==
  ASSUME ReqsOK, NEW u \in User, Open(u), NEW pc, At(u, pc), NEW p,
         req' = [req EXCEPT ![u].drop = @ \ {p}] \/ req' = [req EXCEPT ![u].add = @ \ {p}]
  PROVE  \E drop, add \in SUBSET Dir : Edits(u, pc, drop, add)
<1>1. req[u].drop \ {p} \in SUBSET Dir /\ req[u].add \ {p} \in SUBSET Dir
      /\ req[u].drop \in SUBSET Dir /\ req[u].add \in SUBSET Dir
  BY OpenRequest
<1>2. \/ Edits(u, pc, req[u].drop \ {p}, req[u].add)
      \/ Edits(u, pc, req[u].drop, req[u].add \ {p})
  BY OpenRequest DEF Edits, At, Request
<1> QED  BY <1>1, <1>2

LEMMA EditsNone ==
  ASSUME ReqsOK, NEW u \in User, Open(u), NEW pc, Goto(u, pc)
  PROVE  \E drop, add \in SUBSET Dir : Edits(u, pc, drop, add)
<1>1. req[u].drop \in SUBSET Dir /\ req[u].add \in SUBSET Dir
  BY OpenRequest
<1>2. Edits(u, pc, req[u].drop, req[u].add)
  BY OpenRequest DEF Edits, Goto, Request
<1> QED  BY <1>1, <1>2

LEMMA ReplaceGoes ==
  ASSUME ReqsOK, PgOK, NEW u \in User, ReplaceStep(u)
  PROVE  \/ End(u) \/ Raise(u) \/ WritesOn(u)
         \/ At(u, "rows") /\ req[u].note # None /\ Goto(u, "owner") /\ UNCHANGED histVars
<1> DEFINE r == req[u]
           current == IF r.pc \in DirPcs THEN Parents(sub, r.dir) ELSE Parents(filed, r.note)
<1>1. r \in Request /\ r.want \in SUBSET Dir /\ r.drop \in SUBSET Dir /\ r.add \in SUBSET Dir
      /\ current \in SUBSET Dir /\ Open(u) /\ {} \in SUBSET Dir
  BY ReplaceAt, ParentsInDir
<1>2. /\ "readParents" \in DirPcs /\ "mirror" \in DirPcs /\ "cycleCheck" \in DirPcs
      /\ "rows" \in DirPcs
      /\ \A pc \in {"readNoteRows", "noteRows", "unmirrorNote", "mirrorNotes"} :
            pc \notin DirPcs /\ pc \in ReplacePcs
      /\ DirPcs \subseteq ReplacePcs
  BY DEF DirPcs, NotePcs, ReplacePcs
<1>3. CASE ReadParents(u) /\ ~End(u)
  <2>1. Edits(u, "mirror", current \ r.want, r.want \ current) /\ UNCHANGED histVars
    BY <1>1, <1>2, <1>3 DEF ReadParents, Edits, At
  <2> QED  BY <1>1, <1>2, <1>3, <2>1, WritesOnBy DEF ReadParents
<1>4. CASE CycleCheck(u) /\ ~Raise(u)
  <2>1. Edits(u, "rows", current \ r.want, r.want \ current) /\ UNCHANGED histVars
    BY <1>1, <1>2, <1>4 DEF CycleCheck, Edits, At
  <2> QED  BY <1>1, <1>2, <1>4, <2>1, WritesOnBy DEF CycleCheck
<1>5. CASE ReadNoteRows(u)
  <2>1. Edits(u, "noteRows", current \ r.want, r.want \ current) /\ UNCHANGED histVars
    BY <1>1, <1>2, <1>5 DEF ReadNoteRows, Edits, At
  <2> QED  BY <1>1, <1>2, <1>5, <2>1, WritesOnBy DEF ReadNoteRows
<1>6. CASE UnmirrorNote(u)
  <2>1. Edits(u, "mirrorNotes", r.drop, r.want) /\ UNCHANGED histVars
    BY <1>1, <1>6 DEF UnmirrorNote, Edits
  <2> QED  BY <1>1, <1>2, <1>6, <2>1, WritesOnBy DEF UnmirrorNote
<1> HIDE DEF current
<1>7. CASE Mirror(u)
  <2>1. \/ \E p \in r.drop : req' = [req EXCEPT ![u].drop = @ \ {p}]
        \/ \E p \in r.add : req' = [req EXCEPT ![u].add = @ \ {p}]
        \/ Goto(u, "cycleCheck")
    BY <1>7 DEF Mirror
  <2>2. \E pc \in {"mirror", "cycleCheck"}, drop, add \in SUBSET Dir : Edits(u, pc, drop, add)
    BY <1>1, <1>7, <2>1, EditsOne, EditsNone DEF Mirror, At
  <2> QED  BY <1>2, <1>7, <2>2, WritesOnBy DEF Mirror
<1>8. CASE ReplaceRows(u) /\ ~End(u) /\ ~Raise(u)
  <2>1. /\ \/ \E p \in r.drop : req' = [req EXCEPT ![u].drop = @ \ {p}]
           \/ \E p \in r.add : req' = [req EXCEPT ![u].add = @ \ {p}]
           \/ r.note # None /\ Goto(u, "owner")
        /\ UNCHANGED histVars
    BY <1>8 DEF ReplaceRows
  <2>2. At(u, "rows")
    BY <1>8 DEF ReplaceRows
  <2>3. CASE ~(r.note # None /\ Goto(u, "owner"))
    <3>1. PICK p : \/ req' = [req EXCEPT ![u].drop = @ \ {p}]
                   \/ req' = [req EXCEPT ![u].add = @ \ {p}]
      BY <2>1, <2>3
    <3>2. PICK drop \in SUBSET Dir, add \in SUBSET Dir : Edits(u, "rows", drop, add)
      BY <1>1, <2>2, <3>1, EditsOne
    <3> QED  BY <1>2, <2>1, <2>2, <3>2, WritesOnBy
  <2> QED  BY <2>1, <2>2, <2>3
<1>9. CASE ReplaceNoteRows(u) /\ ~Raise(u)
  <2>1. /\ \/ \E p \in r.drop : req' = [req EXCEPT ![u].drop = @ \ {p}]
           \/ \E p \in r.add : req' = [req EXCEPT ![u].add = @ \ {p}]
           \/ Goto(u, "unmirrorNote")
        /\ UNCHANGED histVars
    BY <1>9 DEF ReplaceNoteRows
  <2>2. \E pc \in {"noteRows", "unmirrorNote"}, drop, add \in SUBSET Dir : Edits(u, pc, drop, add)
    BY <1>1, <1>9, <2>1, EditsOne, EditsNone DEF ReplaceNoteRows, At
  <2> QED  BY <1>2, <1>9, <2>1, <2>2, WritesOnBy DEF ReplaceNoteRows
<1>10. CASE MirrorNotes(u) /\ ~End(u)
  <2>1. (\E p \in r.add : req' = [req EXCEPT ![u].add = @ \ {p}]) /\ UNCHANGED histVars
    BY <1>10 DEF MirrorNotes
  <2>2. \E drop, add \in SUBSET Dir : Edits(u, "mirrorNotes", drop, add)
    BY <1>1, <1>10, <2>1, EditsOne, EditsNone DEF MirrorNotes, At
  <2> QED  BY <1>2, <1>10, <2>1, <2>2, WritesOnBy DEF MirrorNotes
<1> QED
  BY <1>3, <1>4, <1>5, <1>6, <1>7, <1>8, <1>9, <1>10 DEF ReplaceStep

LEMMA ReplaceReqs ==
  ASSUME ReqsOK, PgOK, HistOK, NEW u \in User, ReplaceStep(u)
  PROVE  ReqsOK' /\ HistOK' /\ raced' = raced
<1> USE DEF ReplacePcs, ReadmePcs, DirPcs, NotePcs, DeletePcs
<1>1. CASE End(u) \/ Raise(u)
  BY <1>1, EndTyped
<1>2. ASSUME NEW pc \in ReplacePcs, NEW drop \in SUBSET Dir, NEW add \in SUBSET Dir,
             Edits(u, pc, drop, add), UNCHANGED histVars, pc \in DirPcs <=> req[u].pc \in DirPcs
      PROVE  ReqsOK' /\ HistOK' /\ raced' = raced
  <2>1. pc \in Pc
    BY DEF Pc
  <2>2. ReqsOK'
    BY <1>2, <2>1, ReplaceAt, EditTyped
  <2> QED  BY <1>2, <2>2 DEF HistOK
<1>3. CASE At(u, "rows") /\ req[u].note # None /\ Goto(u, "owner") /\ UNCHANGED histVars
  <2>1. req[u].dir \in Dir /\ req[u].note \in Note /\ "owner" \in Pc
    BY <1>3, ReplaceAt DEF At, Request, Pc
  <2>2. ReqsOK'
    BY <1>3, <2>1, ReplaceAt, GotoTyped
  <2> QED  BY <1>3, <2>2 DEF HistOK
<1> QED  BY <1>1, <1>2, <1>3, ReplaceGoes DEF WritesOn

\* A deletion ends, or goes on with a stack in order.
LEMMA DeleteAt ==
  ASSUME ReqsOK, NEW u \in User, DeleteStep(u)
  PROVE  /\ Open(u) /\ req[u].pc \in DeletePcs /\ req[u] \in Request
         /\ req[u].stack \in Seq(Frame) /\ req[u].stack # <<>> /\ Len(req[u].stack) <= MaxStack
         /\ Top(u) \in Frame /\ Top(u) = req[u].stack[1]
         /\ Len(req[u].stack) \in Nat \ {0}
<1>1. \E pc \in DeletePcs : At(u, pc)
  BY DEF DeleteStep, DeletePcs, Resolve, CascadeNote, CascadeSub, CascadeRow
<1>2. DeletePcs \subseteq Pc
  BY DEF DeletePcs, Pc
<1>3. Open(u) /\ req[u].pc \in DeletePcs
  BY <1>1, <1>2, PcAt
<1>4. req[u].stack \in Seq(Frame) /\ req[u].stack # <<>>
  BY <1>3, OpenRequest
<1> QED  BY <1>3, <1>4, OpenRequest, StackFacts DEF Top

\* What resolve_children finds is typed.
LEMMA Resolved ==
  ASSUME SpOK, NEW d \in Dir
  PROVE  [dir |-> d, notes |-> ExclusiveNotes(Subtree(d)), subs |-> Subtree(d) \ {d}] \in Frame
<1>1. \A e \in spSub : e[1] \in Dir => e[2] \in Dir
  BY DEF SpOK
<1>2. MaxDepth \in Nat
  BY BoundsAssumption
<1>3. Below(spSub, d, MaxDepth) \subseteq Dir
  BY <1>1, <1>2, BelowInClosed
<1>4. ExclusiveNotes(Subtree(d)) \subseteq Note
  BY DEF SpOK, ExclusiveNotes, Children
<1> QED  BY <1>3, <1>4 DEF Frame, Subtree

LEMMA DeleteGoes ==
  ASSUME ReqsOK, SpOK, NEW u \in User, DeleteStep(u)
  PROVE  \/ End(u) \/ Raise(u)
         \/ \E pc \in DeletePcs, s \in Seq(Frame) :
               s # <<>> /\ Len(s) <= MaxStack /\ Stacks(u, pc, s) /\ UNCHANGED histVars
<1> DEFINE stack == req[u].stack
           Goes == \E pc \in DeletePcs, s \in Seq(Frame) :
               s # <<>> /\ Len(s) <= MaxStack /\ Stacks(u, pc, s) /\ UNCHANGED histVars
<1>1. stack \in Seq(Frame) /\ stack # <<>> /\ Len(stack) <= MaxStack /\ Top(u) \in Frame
      /\ req[u] \in Request /\ "resolve" \in DeletePcs /\ "cascade" \in DeletePcs
      /\ Len(stack) \in Nat \ {0} /\ MaxStack \in Nat
  BY DeleteAt, BoundsAssumption DEF DeletePcs
<1>2. ASSUME NEW pc \in DeletePcs, NEW f \in Frame, Stacks(u, pc, <<f>> \o Tail(stack)),
             UNCHANGED histVars
      PROVE  Goes
  BY <1>1, <1>2, StackReplaced
<1>3. CASE Resolve(u) /\ ~Raise(u)
  <2>1. Top(u).dir \in Dir
    BY <1>1 DEF Frame
  <2> DEFINE f == [dir |-> Top(u).dir, notes |-> ExclusiveNotes(Subtree(Top(u).dir)),
                   subs |-> Subtree(Top(u).dir) \ {Top(u).dir}]
  <2>2. f \in Frame
    BY <2>1, Resolved
  <2>3. Stacks(u, "cascade", <<f>> \o Tail(stack)) /\ UNCHANGED histVars
    BY <1>1, <1>3 DEF Resolve, Stacks, Request
  <2> HIDE DEF f
  <2> QED  BY <1>1, <1>2, <2>2, <2>3
<1>4. CASE CascadeNote(u)
  <2>1. PICK n \in Top(u).notes : SetTop(u, [Top(u) EXCEPT !.notes = @ \ {n}])
    BY <1>4 DEF CascadeNote
  <2> DEFINE f == [Top(u) EXCEPT !.notes = @ \ {n}]
  <2>2. f \in Frame
    BY <1>1 DEF Frame
  <2>3. Stacks(u, "cascade", <<f>> \o Tail(stack)) /\ UNCHANGED histVars
    BY <1>1, <1>4, <2>1 DEF CascadeNote, At, SetTop, Stacks, Request
  <2> HIDE DEF f
  <2> QED  BY <1>1, <1>2, <2>2, <2>3
<1>5. CASE CascadeSub(u) /\ ~Raise(u)
  <2>1. PICK s \in Top(u).subs :
          /\ Len(stack) < MaxStack
          /\ req' = [req EXCEPT ![u].pc = "resolve",
                       ![u].stack = <<Call(s), [Top(u) EXCEPT !.subs = @ \ {s}]>> \o Tail(@)]
          /\ UNCHANGED histVars
    BY <1>5 DEF CascadeSub
  <2> DEFINE f == [Top(u) EXCEPT !.subs = @ \ {s}]
  <2>2. f \in Frame /\ Call(s) \in Frame
    BY <1>1 DEF Frame, Call
  <2>3. Stacks(u, "resolve", <<Call(s), f>> \o Tail(stack))
    BY <1>1, <2>1 DEF Stacks, Request
  <2> HIDE DEF f
  <2>4. PICK t \in Seq(Frame) : /\ t = <<Call(s), f>> \o Tail(stack)
                                /\ t # <<>> /\ Len(t) = Len(stack) + 1
    <3>1. /\ <<Call(s), f>> \o Tail(stack) \in Seq(Frame)
          /\ Len(<<Call(s), f>> \o Tail(stack)) = Len(stack) + 1
          /\ <<Call(s), f>> \o Tail(stack) # <<>>
      BY <1>1, <2>2, StackPushed
    <3> QED  BY <3>1
  <2>5. Len(t) <= MaxStack
    BY <1>1, <2>1, <2>4
  <2> QED  BY <1>1, <2>1, <2>3, <2>4, <2>5
<1>6. CASE CascadeRow(u) /\ ~End(u)
  <2>1. Len(stack) # 1 /\ Stacks(u, "cascade", Tail(stack)) /\ UNCHANGED histVars
    BY <1>1, <1>6 DEF CascadeRow, At, Stacks, Request
  <2>2. PICK t \in Seq(Frame) : t = Tail(stack) /\ Len(t) = Len(stack) - 1
    BY <1>1, StackFacts
  <2>3. Len(t) # 0 /\ Len(t) <= MaxStack
    <3>1. PICK k \in Nat \ {0} : k = Len(stack)
      BY <1>1
    <3>2. k # 1 /\ k <= MaxStack
      BY <1>1, <2>1, <3>1
    <3>3. Len(t) = k - 1
      BY <2>2, <3>1
    <3> QED  BY <1>1, <3>2, <3>3
  <2>4. t # <<>>
    BY <2>3
  <2> QED  BY <1>1, <2>1, <2>2, <2>3, <2>4
<1> QED  BY <1>3, <1>4, <1>5, <1>6 DEF DeleteStep

LEMMA DeleteReqs ==
  ASSUME ReqsOK, SpOK, HistOK, NEW u \in User, DeleteStep(u)
  PROVE  ReqsOK' /\ HistOK' /\ raced' = raced
<1>1. CASE End(u) \/ Raise(u)
  BY <1>1, EndTyped
<1>2. ASSUME NEW pc \in DeletePcs, NEW s \in Seq(Frame), s # <<>>, Len(s) <= MaxStack,
             Stacks(u, pc, s), UNCHANGED histVars
      PROVE  ReqsOK' /\ HistOK' /\ raced' = raced
  <2>1. ReqsOK'
    BY <1>2, DeleteAt, StackTyped
  <2> QED  BY <1>2, <2>1 DEF HistOK
<1> QED  BY <1>1, <1>2, DeleteGoes

\* Every request begins with Begin, except for the deletion of a note.
LEMMA BeginReqs ==
  ASSUME ReqsOK, HistOK, NEW u \in User, BeginRequest(u)
  PROVE  ReqsOK' /\ HistOK'
<1>1. ASSUME NEW pc \in Pc, NEW d \in Dir \cup {None}, NEW n \in Note \cup {None},
             NEW want \in SUBSET Dir, NEW stack \in Seq(Frame), Len(stack) <= MaxStack,
             pc \in DirPcs \cup ReadmePcs => d \in Dir,
             pc \in ReadmePcs \cup NotePcs => n \in Note,
             pc \in DeletePcs => stack # <<>>,
             Begin(u, pc, d, n, want, stack)
      PROVE  ReqsOK' /\ HistOK'
  <2> DEFINE new == [pc |-> pc, dir |-> d, note |-> n, want |-> want,
                     drop |-> {}, add |-> {}, stack |-> stack]
  <2>1. ReqOK(new)
    BY <1>1 DEF ReqOK, Request
  <2>2. req' = [req EXCEPT ![u] = new]
    BY <1>1 DEF Begin
  <2>3. ReqsOK'
    <3> HIDE DEF new
    <3> QED  BY <2>1, <2>2, StoreRequest
  <2>4. HistOK'
    BY <1>1, BoundsAssumption DEF HistOK, Begin
  <2> QED  BY <2>3, <2>4
<1>2. <<>> \in Seq(Frame) /\ Len(<<>>) <= MaxStack /\ Known \subseteq Dir
      /\ Dir \subseteq Dir \cup {None} /\ {} \in SUBSET Dir
  BY BoundsAssumption DEF Known
<1> USE DEF ReadmePcs, DirPcs, NotePcs, DeletePcs, Pc
<1>3. ASSUME NEW d \in Dir, NEW want \in SUBSET Known, NEW n \in Note, BeginCreate(u, d, want, n)
      PROVE  ReqsOK' /\ HistOK'
  BY <1>1, <1>2, <1>3 DEF BeginCreate
<1>4. ASSUME NEW d \in Known, NEW n \in Note, BeginList(u, d, n)
      PROVE  ReqsOK' /\ HistOK'
  BY <1>1, <1>2, <1>4 DEF BeginList
<1>5. ASSUME NEW d \in Known, NEW want \in SUBSET Known, BeginPatch(u, d, want)
      PROVE  ReqsOK' /\ HistOK'
  <2>1. d \in Dir /\ want \in SUBSET Dir /\ None \in Note \cup {None}
        /\ "readParents" \notin ReadmePcs \cup NotePcs \cup DeletePcs
    BY <1>2
  <2> QED  BY <1>1, <1>2, <1>5, <2>1 DEF BeginPatch
<1>6. ASSUME NEW n \in Note, NEW want \in SUBSET Known, BeginFile(u, n, want)
      PROVE  ReqsOK' /\ HistOK'
  <2>1. want \in SUBSET Dir /\ None \in Dir \cup {None}
        /\ "readNoteRows" \notin DirPcs \cup ReadmePcs \cup DeletePcs
    BY <1>2
  <2> QED  BY <1>1, <1>2, <1>6, <2>1 DEF BeginFile
<1>7. ASSUME NEW n \in Note, DeleteNote(u, n)
      PROVE  ReqsOK' /\ HistOK'
  BY <1>7, BoundsAssumption DEF DeleteNote, ReqsOK, HistOK
<1>8. ASSUME NEW d \in Dir, BeginDelete(u, d)
      PROVE  ReqsOK' /\ HistOK'
  <2>1. Call(d) \in Frame
    BY DEF Call, Frame
  <2>2. <<Call(d)>> \in Seq(Frame) /\ Len(<<Call(d)>>) = 1 /\ <<Call(d)>> # <<>>
    BY <2>1
  <2>3. Len(<<Call(d)>>) <= MaxStack
    BY <2>2, BoundsAssumption
  <2> QED  BY <1>1, <1>2, <1>8, <2>2, <2>3 DEF BeginDelete
<1> QED  BY <1>3, <1>4, <1>5, <1>6, <1>7, <1>8 DEF BeginRequest

\* Deleting a row keeps the foreign keys.
LEMMA DeleteRowTyped ==
  ASSUME PgOK, NEW x \in Dir \cup Note, DeleteRow(x)
  PROVE  PgOK'
<1>1. row' \in [Dir \cup Note -> {"unused", "live", "gone"}]
  BY DEF PgOK, DeleteRow
<1>2. sub' \subseteq Dir \X Dir /\ filed' \subseteq Dir \X Note
      /\ readme' \in [Dir -> Note \cup {None}]
  BY DEF PgOK, DeleteRow
<1>3. \A y \in Dir \cup Note : y # x => row'[y] = row[y]
  BY DEF PgOK, DeleteRow
<1>4. ASSUME NEW e \in sub' PROVE row'[e[1]] = "live" /\ row'[e[2]] = "live"
  BY <1>3 DEF PgOK, DeleteRow
<1>5. ASSUME NEW e \in filed' PROVE row'[e[1]] = "live" /\ row'[e[2]] = "live"
  BY <1>3 DEF PgOK, DeleteRow
<1>6. ASSUME NEW d \in Dir, readme'[d] # None PROVE row'[readme'[d]] = "live"
  <2>1. readme'[d] = readme[d] /\ readme[d] # x
    BY <1>6 DEF DeleteRow
  <2>2. readme[d] \in Note /\ row[readme[d]] = "live"
    BY <1>6, <2>1 DEF PgOK
  <2> QED  BY <1>3, <2>1, <2>2
<1> QED  BY <1>1, <1>2, <1>4, <1>5, <1>6 DEF PgOK

\* And so do the other statements of Postgres.
LEMMA PgTyped ==
  ASSUME Typed, NEW u \in User, BeginRequest(u) \/ Continue(u) \/ Fail(u)
  PROVE  PgOK'
<1> USE DEF Typed
<1>1. CASE InsertDir(u) \/ InsertNote(u) \/ FileNote(u) \/ BindReadme(u)
  <2>1. req[u].dir \in Dir /\ req[u].note \in Note
    BY <1>1, CreateGoes DEF CreateStep
  <2>2. CASE InsertDir(u)
    BY <2>1, <2>2 DEF InsertDir, PgOK, Live
  <2>3. CASE InsertNote(u)
    BY <2>1, <2>3 DEF InsertNote, PgOK
  <2>4. CASE FileNote(u)
    BY <2>1, <2>4 DEF FileNote, PgOK, Live
  <2>5. CASE BindReadme(u)
    BY <2>1, <2>5 DEF BindReadme, PgOK, Live
  <2> QED  BY <1>1, <2>2, <2>3, <2>4, <2>5
<1>2. CASE ReplaceRows(u)
  <2>1. req[u].dir \in Dir /\ req[u].add \subseteq Dir
    BY <1>2, ReplaceAt DEF ReplaceStep, ReplaceRows, At, DirPcs
  <2> QED  BY <1>2, <2>1 DEF ReplaceRows, PgOK, Live
<1>3. CASE ReplaceNoteRows(u)
  <2>1. req[u].note \in Note /\ req[u].add \subseteq Dir
    BY <1>3, ReplaceAt DEF ReplaceStep, ReplaceNoteRows, At, NotePcs
  <2> QED  BY <1>3, <2>1 DEF ReplaceNoteRows, PgOK, Live
<1>4. CASE CascadeNote(u) \/ CascadeRow(u)
  <2>1. Top(u).notes \subseteq Note /\ Top(u).dir \in Dir
    BY <1>4, DeleteAt DEF DeleteStep, Frame
  <2>2. \/ UNCHANGED pgVars
        \/ \E x \in Dir \cup Note : DeleteRow(x)
    BY <1>4, <2>1 DEF CascadeNote, CascadeRow
  <2>3. CASE UNCHANGED pgVars
    BY <2>3 DEF PgOK
  <2> QED  BY <2>2, <2>3, DeleteRowTyped
<1>5. CASE \E n \in Note : DeleteNote(u, n)
  BY <1>5, DeleteRowTyped DEF DeleteNote
<1>6. CASE UNCHANGED pgVars
  BY <1>6 DEF PgOK
<1>7. \/ UNCHANGED pgVars
      \/ InsertDir(u) \/ InsertNote(u) \/ FileNote(u) \/ BindReadme(u)
      \/ ReplaceRows(u) \/ ReplaceNoteRows(u) \/ CascadeNote(u) \/ CascadeRow(u)
      \/ \E n \in Note : DeleteNote(u, n)
  BY DEF BeginRequest, Continue, Fail, BeginCreate, BeginList, BeginPatch, BeginFile, BeginDelete,
     InsertOwner, MirrorNote, InsertNoteOwner, BindTuple, ReadParents, Mirror, CycleCheck,
     ReadNoteRows, UnmirrorNote, MirrorNotes, Resolve, CascadeSub
<1> QED  BY <1>1, <1>2, <1>3, <1>4, <1>5, <1>6, <1>7

\* The statements of SpiceDB.
LEMMA SpTyped ==
  ASSUME Typed, NEW u \in User, BeginRequest(u) \/ Continue(u) \/ Fail(u)
  PROVE  SpOK'
<1> USE DEF Typed
<1>1. CASE InsertOwner(u) \/ MirrorNote(u) \/ InsertNoteOwner(u) \/ BindTuple(u)
  <2>1. req[u].dir \in Dir /\ req[u].note \in Note
    BY <1>1, CreateGoes DEF CreateStep
  <2> QED  BY <1>1, <2>1 DEF InsertOwner, MirrorNote, InsertNoteOwner, BindTuple, SpOK
<1>2. CASE Mirror(u)
  <2>1. req[u].dir \in Dir /\ req[u].add \subseteq Dir
    BY <1>2, ReplaceAt DEF ReplaceStep, Mirror, At, DirPcs
  <2> QED  BY <1>2, <2>1 DEF Mirror, SpOK
<1>3. CASE UnmirrorNote(u) \/ MirrorNotes(u)
  <2>1. req[u].note \in Note /\ req[u].add \subseteq Dir
    BY <1>3, ReplaceAt DEF ReplaceStep, UnmirrorNote, MirrorNotes, At, NotePcs
  <2> QED  BY <1>3, <2>1 DEF UnmirrorNote, MirrorNotes, SpOK
<1>4. CASE UNCHANGED spVars
  BY <1>4 DEF SpOK
<1>5. \/ UNCHANGED spVars
      \/ InsertOwner(u) \/ MirrorNote(u) \/ InsertNoteOwner(u) \/ BindTuple(u)
      \/ Mirror(u) \/ UnmirrorNote(u) \/ MirrorNotes(u)
  BY DEF BeginRequest, Continue, Fail, BeginCreate, BeginList, BeginPatch, BeginFile, BeginDelete,
     DeleteNote, InsertDir, InsertNote, FileNote, BindReadme, ReadParents, CycleCheck, ReplaceRows,
     ReadNoteRows, ReplaceNoteRows, Resolve, CascadeNote, CascadeSub, CascadeRow
<1> QED  BY <1>1, <1>2, <1>3, <1>4, <1>5

LEMMA NextTyped == Typed /\ [DirectoryNext]_dirVars => Typed'
<1> SUFFICES ASSUME Typed, [DirectoryNext]_dirVars PROVE Typed'
  OBVIOUS
<1>1. CASE UNCHANGED dirVars
  BY <1>1 DEF dirVars, Typed, PgOK, SpOK, HistOK, ReqsOK
<1>2. ASSUME NEW u \in User, BeginRequest(u) \/ Continue(u) \/ Fail(u) PROVE Typed'
  <2>1. PgOK' /\ SpOK'
    BY <1>2, PgTyped, SpTyped
  <2>2. CASE BeginRequest(u)
    BY <2>1, <2>2, BeginReqs DEF Typed
  <2>3. CASE Continue(u)
    BY <2>1, <2>3, ContinueSorted, CreateReqs, ReplaceReqs, DeleteReqs DEF Typed
  <2>4. CASE Fail(u)
    BY <2>1, <2>4, EndTyped DEF Typed, Fail
  <2> QED  BY <1>2, <2>2, <2>3, <2>4
<1> QED  BY <1>1, <1>2 DEF DirectoryNext

LEMMA InitTyped == DirectoryInit => Typed
<1> SUFFICES ASSUME DirectoryInit PROVE Typed
  OBVIOUS
<1>1. PgOK /\ SpOK
  BY DEF DirectoryInit, PgOK, SpOK
<1>2. HistOK
  <2>1. made \in 0..MaxRequests
    BY BoundsAssumption DEF DirectoryInit
  <2>2. raced \in BOOLEAN /\ disturbed \in BOOLEAN
    BY DEF DirectoryInit
  <2> QED  BY <2>1, <2>2 DEF HistOK
<1>3. ReqsOK
  BY DEF DirectoryInit, ReqsOK, ReqOK
<1> QED  BY <1>1, <1>2, <1>3 DEF Typed

(* Rows, tuples and requests have their types, and the foreign keys of       *)
(* Postgres hold: no row of a hierarchy or of a README names what is gone.   *)
THEOREM DirectoryTypeCorrect == DirectorySpec => []DirectoryTypeOK
<1>1. Typed /\ [DirectoryNext]_dirVars => Typed'
  BY NextTyped
<1> QED  BY <1>1, InitTyped, TypedImplies, PTL DEF DirectorySpec

-----------------------------------------------------------------------------
(* Owners.  A directory gets its owner once, from the request that makes it, *)
(* and a call of delete_directory that was let through is the owner's.       *)

StepOf(u) == BeginRequest(u) \/ Continue(u) \/ Fail(u)

CreatePcs == {"insertDir", "readParents", "mirror", "cycleCheck", "rows", "owner"}
Creating(u) == Open(u) /\ req[u].pc \in CreatePcs /\ req[u].note # None

OwnersLive == \A d \in Dir : owner[d] # None => row[d] # "unused"

CreatorOK(u) ==
  Creating(u) =>
    /\ owner[req[u].dir] = None
    /\ req[u].pc # "insertDir" => row[req[u].dir] # "unused"
    /\ \A v \in User \ {u} : Creating(v) => req[v].dir # req[u].dir

StackOwned(u) ==
  Open(u) /\ req[u].pc \in DeletePcs =>
    \A i \in 1..Len(req[u].stack) :
      i > 1 \/ req[u].pc = "cascade" => owner[req[u].stack[i].dir] = u

OwnInv == OwnersLive /\ \A u \in User : CreatorOK(u) /\ StackOwned(u)

\* A step is one user's.
LEMMA OthersWait ==
  ASSUME Typed, NEW u \in User, StepOf(u), NEW v \in User \ {u}
  PROVE  req'[v] = req[v]
<1>1. CASE BeginRequest(u)
  BY <1>1 DEF BeginRequest, BeginCreate, BeginList, BeginPatch, BeginFile, DeleteNote, BeginDelete,
              Begin, Typed, ReqsOK
<1>2. CASE End(u) \/ Raise(u) \/ Fail(u)
  BY <1>2 DEF End, Raise, Fail, Typed, ReqsOK
<1>3. CASE \E pc : Goto(u, pc)
  BY <1>3 DEF Goto, Typed, ReqsOK
<1>4. CASE WritesOn(u) \/ \E pc, s : Stacks(u, pc, s)
  BY <1>4 DEF WritesOn, Edits, Stacks, Typed, ReqsOK
<1>5. CASE Continue(u)
  <2>1. CASE CreateStep(u)
    BY <2>1, <1>2, <1>3, CreateGoes DEF Typed
  <2>2. CASE ReplaceStep(u)
    BY <2>2, <1>2, <1>3, <1>4, ReplaceGoes DEF Typed
  <2>3. CASE DeleteStep(u)
    BY <2>3, <1>2, <1>4, DeleteGoes DEF Typed
  <2> QED  BY <1>5, <2>1, <2>2, <2>3, ContinueSorted
<1> QED  BY <1>1, <1>2, <1>5 DEF StepOf

\* What the rows of a step become: one more is live, or one is gone.
LEMMA RowsOf ==
  ASSUME Typed, NEW u \in User, StepOf(u)
  PROVE  \/ row' = row
         \/ InsertDir(u) /\ row' = [row EXCEPT ![req[u].dir] = "live"]
         \/ InsertNote(u) /\ row[req[u].note] = "unused"
                         /\ row' = [row EXCEPT ![req[u].note] = "live"]
         \/ CascadeRow(u) /\ DeleteRow(Top(u).dir)
         \/ CascadeNote(u) /\ \E n \in Note : DeleteRow(n)
         \/ \E n \in Note : DeleteNote(u, n)
<1>1. CASE CascadeNote(u)
  <2>1. Top(u).notes \subseteq Note
    BY <1>1, DeleteAt DEF Typed, DeleteStep, Frame
  <2> QED  BY <1>1, <2>1 DEF CascadeNote
<1>2. CASE BeginRequest(u)
  BY <1>2 DEF BeginRequest, BeginCreate, BeginList, BeginPatch, BeginFile, BeginDelete, pgVars
<1>3. CASE Fail(u)
  BY <1>3 DEF Fail, pgVars
<1>4. CASE InsertDir(u) \/ InsertNote(u)
  BY <1>4 DEF InsertDir, InsertNote
<1>5. CASE InsertOwner(u) \/ FileNote(u) \/ MirrorNote(u) \/ InsertNoteOwner(u) \/ BindReadme(u)
           \/ BindTuple(u) \/ ReadParents(u) \/ Mirror(u)
  BY <1>5 DEF InsertOwner, FileNote, MirrorNote, InsertNoteOwner, BindReadme, BindTuple,
     ReadParents, Mirror, pgVars
<1>6. CASE CycleCheck(u) \/ ReplaceRows(u) \/ ReadNoteRows(u) \/ ReplaceNoteRows(u)
           \/ UnmirrorNote(u) \/ MirrorNotes(u)
  BY <1>6 DEF CycleCheck, ReplaceRows, ReadNoteRows, ReplaceNoteRows, UnmirrorNote, MirrorNotes,
     pgVars
<1>7. CASE Resolve(u) \/ CascadeSub(u)
  BY <1>7 DEF Resolve, CascadeSub, pgVars
<1>8. CASE CascadeRow(u)
  BY <1>8 DEF CascadeRow
<1> QED  BY <1>1, <1>2, <1>3, <1>4, <1>5, <1>6, <1>7, <1>8 DEF StepOf, Continue

\* An id that was used stays used.
LEMMA UsedStays ==
  ASSUME Typed, NEW u \in User, StepOf(u), NEW x \in Dir \cup Note, row[x] # "unused"
  PROVE  row'[x] # "unused"
BY RowsOf DEF Typed, PgOK, DeleteNote, DeleteRow

\* Only a new directory gets an owner.
LEMMA OwnerOf ==
  ASSUME Typed, NEW u \in User, StepOf(u)
  PROVE  \/ \A d \in Dir : owner'[d] = owner[d]
         \/ InsertOwner(u)
<1>1. CASE InsertNoteOwner(u)
  <2>1. req[u].note \in Note
    BY <1>1, CreateGoes DEF Typed, CreateStep
  <2> QED  BY <1>1, <2>1, IdsAssumption DEF InsertNoteOwner, Typed, SpOK
<1> QED
  BY <1>1 DEF StepOf, BeginRequest, Continue, Fail, BeginCreate, BeginList, BeginPatch, BeginFile,
     BeginDelete, DeleteNote, InsertDir, InsertNote, FileNote, MirrorNote,
     BindReadme, BindTuple, ReadParents, Mirror, CycleCheck, ReplaceRows, ReadNoteRows,
     ReplaceNoteRows, UnmirrorNote, MirrorNotes, Resolve, CascadeNote, CascadeSub, CascadeRow

\* What a request that makes a directory was before: another step of it, or nothing.
LEMMA CreatingFrom ==
  ASSUME Typed, NEW u \in User, Continue(u), Creating(u)'
  PROVE  /\ Creating(u) /\ req'[u].dir = req[u].dir /\ ~InsertOwner(u)
         /\ req'[u].pc # "insertDir" /\ (req[u].pc # "insertDir" \/ InsertDir(u))
<1> USE DEF Typed
<1>1. req'[u] # Idle /\ req'[u].pc \in CreatePcs /\ req'[u].note # None
  BY DEF Creating, Open
<1>2. ~End(u) /\ ~Raise(u)
  BY <1>1 DEF End, Raise, ReqsOK
<1>3. CASE CreateStep(u)
  <2>1. PICK pc \in ReadmePcs \cup {"readParents"} : Goto(u, pc)
    BY <1>2, <1>3, CreateGoes
  <2>2. Open(u) /\ req[u] \in Request /\ req[u].note \in Note
    BY <1>3, CreateGoes, OpenRequest
  <2>3. req'[u].pc = pc /\ req'[u].dir = req[u].dir
    BY <2>1, <2>2 DEF Goto, ReqsOK, Request
  <2>4. InsertDir(u)
    <3>1. pc \in {"insertDir", "readParents", "owner"}
      BY <1>1, <2>1, <2>3 DEF ReadmePcs, CreatePcs
    <3>2. ~Goto(u, "insertNote") /\ ~Goto(u, "fileNote") /\ ~Goto(u, "mirrorNote")
          /\ ~Goto(u, "noteOwner") /\ ~Goto(u, "bind") /\ ~Goto(u, "bindTuple")
      BY <2>2, <2>3, <3>1 DEF Goto, ReqsOK, Request
    <3> QED  BY <1>2, <1>3, <3>2 DEF CreateStep, InsertOwner, InsertNote, FileNote, MirrorNote,
             InsertNoteOwner, BindReadme, BindTuple
  <2>5. req'[u].pc # "insertDir" /\ ~InsertOwner(u) /\ req[u].pc = "insertDir"
    <3>1. Goto(u, "owner") \/ Goto(u, "readParents")
      BY <1>2, <2>4 DEF InsertDir
    <3>2. req'[u].pc # "insertDir"
      BY <2>2, <3>1 DEF Goto, ReqsOK, Request
    <3> QED  BY <2>4, <3>2 DEF InsertDir, InsertOwner, At
  <2> QED  BY <2>2, <2>3, <2>4, <2>5, IdsAssumption DEF Creating, CreatePcs
<1>4. CASE ReplaceStep(u)
  <2>1. Open(u) /\ req[u] \in Request /\ req[u].pc \in ReplacePcs
    BY <1>4, ReplaceAt
  <2>2. CASE WritesOn(u)
    <3>1. PICK pc \in ReplacePcs, drop, add \in SUBSET Dir :
            Edits(u, pc, drop, add) /\ (pc \in DirPcs <=> req[u].pc \in DirPcs)
      BY <2>2 DEF WritesOn
    <3>2. req'[u].pc = pc /\ req'[u].dir = req[u].dir /\ req'[u].note = req[u].note
      BY <2>1, <3>1 DEF Edits, ReqsOK, Request
    <3>3. pc \in DirPcs
      BY <1>1, <3>1, <3>2 DEF ReplacePcs, DirPcs, NotePcs, CreatePcs
    <3> QED  BY <1>1, <1>4, <2>1, <3>1, <3>2, <3>3 DEF Creating, CreatePcs, DirPcs, InsertOwner, At
  <2>3. CASE At(u, "rows") /\ Goto(u, "owner")
    <3>1. req'[u].pc = "owner" /\ req'[u].dir = req[u].dir /\ req'[u].note = req[u].note
      BY <2>1, <2>3 DEF Goto, ReqsOK, Request
    <3> QED  BY <1>1, <2>1, <2>3, <3>1 DEF Creating, CreatePcs, InsertOwner, At
  <2> QED  BY <1>2, <1>4, <2>2, <2>3, ReplaceGoes
<1>5. CASE DeleteStep(u)
  <2>1. PICK pc \in DeletePcs, s \in Seq(Frame) : Stacks(u, pc, s)
    BY <1>2, <1>5, DeleteGoes
  <2>2. req'[u].pc = pc
    BY <1>5, <2>1, DeleteAt DEF Stacks, ReqsOK, Request
  <2> QED  BY <1>1, <2>1, <2>2 DEF DeletePcs, CreatePcs
<1> QED  BY <1>3, <1>4, <1>5, ContinueSorted

LEMMA BeginsCreating ==
  ASSUME Typed, NEW u \in User, BeginRequest(u), Creating(u)'
  PROVE  \/ req'[u] = req[u]
         \/ /\ req'[u].dir \in Dir /\ req'[u].pc = "insertDir" /\ row[req'[u].dir] = "unused"
            /\ \A v \in User : Open(v) => req[v].dir # req'[u].dir
<1>1. req'[u].pc \in CreatePcs /\ req'[u].note # None
  BY DEF Creating
<1>2. ASSUME NEW pc, NEW d, NEW n, NEW want, NEW stack, Begin(u, pc, d, n, want, stack)
      PROVE  req'[u].pc = pc /\ req'[u].dir = d /\ req'[u].note = n
  BY <1>2 DEF Begin, Typed, ReqsOK
<1>3. CASE \E d \in Dir, want \in SUBSET Known, n \in Note : BeginCreate(u, d, want, n)
  BY <1>2, <1>3 DEF BeginCreate
<1>4. CASE \E n \in Note : DeleteNote(u, n)
  BY <1>4 DEF DeleteNote
<1>5. CASE \/ \E d \in Known, n \in Note : BeginList(u, d, n)
           \/ \E n \in Note, want \in SUBSET Known : BeginFile(u, n, want)
           \/ \E d \in Dir : BeginDelete(u, d)
  BY <1>1, <1>2, <1>5 DEF BeginList, BeginFile, BeginDelete, CreatePcs
<1>6. CASE \E d \in Known, want \in SUBSET Known : BeginPatch(u, d, want)
  BY <1>1, <1>2, <1>6 DEF BeginPatch
<1> QED  BY <1>3, <1>4, <1>5, <1>6 DEF BeginRequest

\* The owner a creation inserts is the first of its directory.
LEMMA InsertsFirstOwner ==
  ASSUME Typed, OwnInv, NEW u \in User, InsertOwner(u)
  PROVE  /\ Creating(u) /\ req[u].dir \in Dir /\ row[req[u].dir] # "unused" /\ row' = row
         /\ owner[req[u].dir] = None
         /\ \A d \in Dir \ {req[u].dir} : owner'[d] = owner[d]
<1>1. Open(u) /\ req[u].dir \in Dir /\ req[u].note \in Note
  BY CreateGoes DEF Typed, CreateStep
<1>2. Creating(u)
  BY <1>1, IdsAssumption DEF InsertOwner, At, Creating, CreatePcs
<1>3. row[req[u].dir] # "unused" /\ owner[req[u].dir] = None
  BY <1>2 DEF OwnInv, CreatorOK, InsertOwner, At
<1> QED  BY <1>1, <1>2, <1>3 DEF InsertOwner, Typed, SpOK

LEMMA OwnersLiveStep ==
  ASSUME Typed, OwnInv, NEW u \in User, StepOf(u)
  PROVE  OwnersLive'
<1>1. CASE InsertOwner(u)
  BY <1>1, InsertsFirstOwner DEF OwnInv, OwnersLive
<1>2. CASE \A d \in Dir : owner'[d] = owner[d]
  BY <1>2, UsedStays DEF OwnInv, OwnersLive
<1> QED  BY <1>1, <1>2, OwnerOf

\* The creations of the others are left alone.
LEMMA OtherCreators ==
  ASSUME Typed, OwnInv, NEW u \in User, StepOf(u), NEW v \in User \ {u}
  PROVE  CreatorOK(v)'
<1> SUFFICES ASSUME Creating(v)' PROVE CreatorOK(v)'
  BY DEF CreatorOK
<1>1. req'[v] = req[v] /\ Creating(v) /\ Open(v)
  BY OthersWait DEF Creating, Open
<1>2. req[v].dir \in Dir
  BY <1>1, OpenRequest DEF Typed, Creating, CreatePcs, DirPcs, ReadmePcs
<1>3. owner'[req[v].dir] = None
  <2>1. CASE InsertOwner(u)
    BY <1>1, <1>2, <2>1, InsertsFirstOwner DEF OwnInv, CreatorOK
  <2>2. CASE \A d \in Dir : owner'[d] = owner[d]
    BY <1>1, <1>2, <2>2 DEF OwnInv, CreatorOK
  <2> QED  BY <2>1, <2>2, OwnerOf
<1>4. req[v].pc # "insertDir" => row'[req[v].dir] # "unused"
  BY <1>1, <1>2, UsedStays DEF OwnInv, CreatorOK
<1>5. ASSUME NEW w \in User \ {v}, Creating(w)' PROVE req'[w].dir # req[v].dir
  <2>1. CASE w # u
    <3>1. req'[w] = req[w] /\ Creating(w)
      BY <1>5, <2>1, OthersWait DEF Creating, Open
    <3> QED  BY <1>1, <3>1 DEF OwnInv, CreatorOK
  <2>2. CASE w = u /\ Continue(u)
    <3>1. Creating(w) /\ req'[w].dir = req[w].dir
      BY <1>5, <2>2, CreatingFrom
    <3> QED  BY <1>1, <3>1 DEF OwnInv, CreatorOK
  <2>3. CASE w = u /\ BeginRequest(u)
    <3>1. CASE req'[u] = req[u]
      BY <1>1, <1>5, <2>3, <3>1 DEF OwnInv, CreatorOK, Creating, Open
    <3>2. CASE req'[u] # req[u]
      BY <1>1, <1>5, <2>3, <3>2, BeginsCreating
    <3> QED  BY <3>1, <3>2
  <2>4. CASE w = u /\ Fail(u)
    BY <1>5, <2>4 DEF Fail, Raise, Creating, Open, Typed, ReqsOK
  <2> QED  BY <2>1, <2>2, <2>3, <2>4 DEF StepOf
<1> QED  BY <1>1, <1>3, <1>4, <1>5 DEF CreatorOK

\* And the one that makes the step stays alone with its directory.
LEMMA OwnCreator ==
  ASSUME Typed, OwnInv, NEW u \in User, StepOf(u)
  PROVE  CreatorOK(u)'
<1> SUFFICES ASSUME Creating(u)' PROVE CreatorOK(u)'
  BY DEF CreatorOK
<1>1. \A v \in User \ {u} : req'[v] = req[v] /\ (Creating(v)' => Creating(v) /\ Open(v))
  BY OthersWait DEF Creating, Open
<1>2. CASE Continue(u)
  <2>1. /\ Creating(u) /\ req'[u].dir = req[u].dir /\ ~InsertOwner(u)
        /\ req[u].pc # "insertDir" \/ InsertDir(u)
    BY <1>2, CreatingFrom
  <2>2. req[u].dir \in Dir
    BY <2>1, OpenRequest DEF Typed, Creating, CreatePcs, DirPcs, ReadmePcs
  <2>3. owner'[req[u].dir] = None
    BY <2>1, <2>2, OwnerOf DEF OwnInv, CreatorOK
  <2>4. row'[req[u].dir] # "unused"
    <3>1. CASE row[req[u].dir] # "unused"
      BY <2>2, <3>1, UsedStays
    <3>2. CASE InsertDir(u)
      <4>1. ~Raise(u)
        BY DEF Raise, Creating, Open, Typed, ReqsOK
      <4> QED  BY <2>2, <3>2, <4>1 DEF InsertDir, Typed, PgOK
    <3> QED  BY <2>1, <3>1, <3>2 DEF OwnInv, CreatorOK
  <2> QED  BY <1>1, <2>1, <2>3, <2>4 DEF OwnInv, CreatorOK
<1>3. CASE BeginRequest(u)
  <2>1. CASE req'[u] = req[u]
    <3>1. Creating(u) /\ Open(u) /\ req[u].dir \in Dir
      BY <2>1, OpenRequest DEF Typed, Creating, Open, CreatePcs, DirPcs, ReadmePcs
    <3>2. ~InsertOwner(u)
      <4>1. CASE InsertOwner(u)
        <5>1. req'[u].pc \in {"insertNote", "bind"}
          BY <3>1, <4>1, OpenRequest DEF InsertOwner, Goto, Typed, ReqsOK, Request
        <5> QED  BY <5>1 DEF Creating, CreatePcs
      <4> QED  BY <4>1
    <3>3. owner'[req[u].dir] = None
      BY <3>1, <3>2, OwnerOf DEF OwnInv, CreatorOK
    <3>4. req[u].pc # "insertDir" => row'[req[u].dir] # "unused"
      BY <3>1, UsedStays DEF OwnInv, CreatorOK
    <3> QED  BY <1>1, <2>1, <3>1, <3>3, <3>4 DEF OwnInv, CreatorOK
  <2>2. CASE req'[u] # req[u]
    <3>1. /\ req'[u].dir \in Dir /\ req'[u].pc = "insertDir" /\ row[req'[u].dir] = "unused"
          /\ \A v \in User : Open(v) => req[v].dir # req'[u].dir
      BY <1>3, <2>2, BeginsCreating
    <3>2. owner' = owner
      BY <1>3 DEF BeginRequest, BeginCreate, BeginList, BeginPatch, BeginFile, DeleteNote, BeginDelete
    <3>3. owner'[req'[u].dir] = None
      BY <3>1, <3>2 DEF OwnInv, OwnersLive
    <3> QED  BY <1>1, <3>1, <3>3 DEF CreatorOK
  <2> QED  BY <2>1, <2>2
<1>4. CASE Fail(u)
  BY <1>4 DEF Fail, Raise, Creating, Open, Typed, ReqsOK
<1> QED  BY <1>2, <1>3, <1>4 DEF StepOf

\* Who has an owner keeps it.
LEMMA OwnersKept ==
  ASSUME Typed, OwnInv, NEW u \in User, StepOf(u), NEW d \in Dir, owner[d] # None
  PROVE  owner'[d] = owner[d]
BY OwnerOf, InsertsFirstOwner

LEMMA SameStackOwned ==
  ASSUME Typed, OwnInv, NEW u \in User, StepOf(u), NEW v \in User, req'[v] = req[v]
  PROVE  StackOwned(v)'
<1> SUFFICES ASSUME Open(v), req[v].pc \in DeletePcs,
                    NEW i \in 1..Len(req[v].stack), i > 1 \/ req[v].pc = "cascade"
             PROVE  owner'[req[v].stack[i].dir] = v
  BY DEF StackOwned, Open
<1>1. req[v].stack[i] \in Frame
  BY OpenRequest, StackFacts DEF Typed
<1>2. req[v].stack[i].dir \in Dir /\ owner[req[v].stack[i].dir] = v /\ v # None
  BY <1>1, IdsAssumption DEF Frame, OwnInv, StackOwned
<1> QED  BY <1>2, OwnersKept

\* A call of the recursion is let through by Resolve alone, and then for the owner.
LEMMA DeleteStackOwned ==
  ASSUME Typed, OwnInv, NEW u \in User, DeleteStep(u)
  PROVE  StackOwned(u)'
<1> DEFINE stack == req[u].stack
<1> SUFFICES ASSUME ~End(u), ~Raise(u) PROVE StackOwned(u)'
  BY DEF End, Raise, StackOwned, Open, Typed, ReqsOK
<1>1. /\ Open(u) /\ req[u].pc \in DeletePcs /\ req[u] \in Request /\ stack \in Seq(Frame)
      /\ stack # <<>> /\ Top(u) \in Frame /\ Top(u) = stack[1] /\ Len(stack) \in Nat \ {0}
  BY DeleteAt DEF Typed
<1>2. owner' = owner
  BY DEF DeleteStep, Resolve, CascadeNote, CascadeSub, CascadeRow
<1>3. \A i \in 1..Len(stack) : i > 1 \/ req[u].pc = "cascade" => owner[stack[i].dir] = u
  BY <1>1 DEF OwnInv, StackOwned
<1>4. ASSUME NEW pc \in DeletePcs, NEW s, Stacks(u, pc, s),
             \A i \in 1..Len(s) : i > 1 \/ pc = "cascade" => owner[s[i].dir] = u
      PROVE  StackOwned(u)'
  <2>1. req'[u].pc = pc /\ req'[u].stack = s
    BY <1>1, <1>4 DEF Stacks, Typed, ReqsOK, Request
  <2> QED  BY <1>2, <1>4, <2>1 DEF StackOwned
<1>5. ASSUME NEW f \in Frame, f.dir = stack[1].dir, owner[f.dir] = u,
             Stacks(u, "cascade", <<f>> \o Tail(stack))
      PROVE  StackOwned(u)'
  <2>1. ASSUME NEW i \in 1..Len(stack) PROVE owner[(<<f>> \o Tail(stack))[i].dir] = u
    <3>1. (<<f>> \o Tail(stack))[i] = IF i = 1 THEN f ELSE stack[i]
      BY <1>1, StackReplaced
    <3> QED  BY <1>3, <1>5, <3>1
  <2>2. Len(<<f>> \o Tail(stack)) = Len(stack)
    BY <1>1, StackReplaced
  <2> QED  BY <1>4, <1>5, <2>1, <2>2 DEF DeletePcs
<1>6. CASE Resolve(u)
  <2>1. Top(u).dir \in Dir /\ MayDirectory(u, Top(u).dir)
    BY <1>1, <1>6 DEF Resolve, Frame
  <2> DEFINE f == [dir |-> Top(u).dir, notes |-> ExclusiveNotes(Subtree(Top(u).dir)),
                   subs |-> Subtree(Top(u).dir) \ {Top(u).dir}]
  <2>2. f \in Frame /\ f.dir = stack[1].dir /\ owner[f.dir] = u
    BY <1>1, <2>1, Resolved DEF MayDirectory, Typed
  <2>3. Stacks(u, "cascade", <<f>> \o Tail(stack))
    BY <1>1, <1>6 DEF Resolve, Stacks, Request
  <2> HIDE DEF f
  <2> QED  BY <1>5, <2>2, <2>3
<1>7. CASE CascadeNote(u)
  <2>1. PICK n \in Top(u).notes : SetTop(u, [Top(u) EXCEPT !.notes = @ \ {n}])
    BY <1>7 DEF CascadeNote
  <2> DEFINE f == [Top(u) EXCEPT !.notes = @ \ {n}]
  <2>2. f \in Frame /\ f.dir = stack[1].dir /\ owner[f.dir] = u
    BY <1>1, <1>3, <1>7 DEF CascadeNote, At, Frame
  <2>3. Stacks(u, "cascade", <<f>> \o Tail(stack))
    <3>1. req[u].pc = "cascade" /\ SetTop(u, f)
      BY <1>7, <2>1 DEF CascadeNote, At
    <3> HIDE DEF f
    <3> QED  BY <1>1, <3>1 DEF SetTop, Stacks, Request
  <2> HIDE DEF f
  <2> QED  BY <1>5, <2>2, <2>3
<1>8. CASE CascadeSub(u)
  <2>1. PICK s \in Top(u).subs :
          req' = [req EXCEPT ![u].pc = "resolve",
                    ![u].stack = <<Call(s), [Top(u) EXCEPT !.subs = @ \ {s}]>> \o Tail(@)]
    BY <1>8 DEF CascadeSub
  <2> DEFINE f == [Top(u) EXCEPT !.subs = @ \ {s}]
             new == <<Call(s), f>> \o Tail(stack)
  <2>2. f \in Frame /\ Call(s) \in Frame /\ owner[f.dir] = u
    BY <1>1, <1>3, <1>8 DEF CascadeSub, At, Frame, Call
  <2>3. Stacks(u, "resolve", new)
    BY <1>1, <2>1 DEF Stacks, Request
  <2>4. Len(new) = Len(stack) + 1
        /\ \A i \in 1..Len(stack) + 1 : new[i]
              = IF i = 1 THEN Call(s) ELSE IF i = 2 THEN f ELSE stack[i - 1]
    <3> HIDE DEF f
    <3> QED  BY <1>1, <2>2, StackPushed
  <2> HIDE DEF f, new
  <2>5. ASSUME NEW i \in 1..Len(new), i > 1 PROVE owner[new[i].dir] = u
    <3>1. CASE i = 2
      BY <1>1, <2>2, <2>4, <3>1
    <3>2. CASE i # 2
      <4>1. i - 1 \in 1..Len(stack) /\ i - 1 > 1 /\ new[i] = stack[i - 1]
        BY <1>1, <2>4, <2>5, <3>2
      <4> QED  BY <1>3, <4>1
    <3> QED  BY <3>1, <3>2
  <2> QED  BY <1>4, <2>3, <2>5 DEF DeletePcs
<1>9. CASE CascadeRow(u)
  <2>1. Stacks(u, "cascade", Tail(stack))
    BY <1>1, <1>9 DEF CascadeRow, At, Stacks, Request
  <2>2. ASSUME NEW i \in 1..Len(Tail(stack)) PROVE owner[Tail(stack)[i].dir] = u
    <3>1. i + 1 \in 1..Len(stack) /\ i + 1 > 1 /\ Tail(stack)[i] = stack[i + 1]
      BY <1>1, StackFacts
    <3> QED  BY <1>3, <3>1
  <2> QED  BY <1>4, <2>1, <2>2 DEF DeletePcs
<1> QED  BY <1>6, <1>7, <1>8, <1>9 DEF DeleteStep

\* Other requests have no call of delete_directory, or begin with one unresolved.
LEMMA NoStackOwned ==
  ASSUME Typed, NEW u \in User, BeginRequest(u) \/ CreateStep(u) \/ ReplaceStep(u) \/ Fail(u),
         req'[u] # req[u]
  PROVE  StackOwned(u)'
<1> SUFFICES ASSUME Open(u)', req'[u].pc \in DeletePcs
             PROVE  Len(req'[u].stack) = 1 /\ req'[u].pc = "resolve"
  BY DEF StackOwned
<1>1. ~End(u) /\ ~Raise(u) /\ ~Fail(u)
  BY DEF End, Raise, Fail, Open, Typed, ReqsOK
<1>2. ASSUME NEW pc, Goto(u, pc), Open(u) PROVE req'[u].pc = pc
  BY <1>2, OpenRequest DEF Goto, Typed, ReqsOK, Request
<1>3. CASE CreateStep(u)
  BY <1>1, <1>2, <1>3, CreateGoes DEF Typed, ReadmePcs, DeletePcs
<1>4. CASE ReplaceStep(u)
  <2>1. CASE WritesOn(u)
    <3>1. PICK pc \in ReplacePcs, drop, add \in SUBSET Dir : Edits(u, pc, drop, add)
      BY <2>1 DEF WritesOn
    <3>2. req'[u].pc = pc
      BY <1>4, <3>1, ReplaceAt DEF Edits, Typed, ReqsOK, Request
    <3> QED  BY <3>1, <3>2 DEF ReplacePcs, DirPcs, NotePcs, DeletePcs
  <2> QED  BY <1>1, <1>2, <1>4, <2>1, ReplaceGoes, ReplaceAt DEF Typed, DeletePcs
<1>5. ASSUME NEW pc, NEW d, NEW n, NEW want, NEW stack, Begin(u, pc, d, n, want, stack)
      PROVE  req'[u].pc = pc /\ req'[u].stack = stack
  BY <1>5 DEF Begin, Typed, ReqsOK
<1>6. CASE BeginRequest(u)
  <2>1. CASE \E d \in Dir : BeginDelete(u, d)
    <3>1. PICK d \in Dir : BeginDelete(u, d)
      BY <2>1
    <3>2. req'[u].pc = "resolve" /\ req'[u].stack = <<Call(d)>>
      BY <1>5, <3>1 DEF BeginDelete
    <3> QED  BY <3>2
  <2> QED  BY <1>5, <1>6, <2>1 DEF BeginRequest, BeginCreate, BeginList, BeginPatch, BeginFile,
           DeleteNote, DeletePcs
<1> QED  BY <1>1, <1>3, <1>4, <1>6

LEMMA OwnStep == Typed /\ OwnInv /\ [DirectoryNext]_dirVars => OwnInv'
<1> SUFFICES ASSUME Typed, OwnInv, [DirectoryNext]_dirVars PROVE OwnInv'
  OBVIOUS
<1>1. CASE UNCHANGED dirVars
  BY <1>1 DEF dirVars, OwnInv, OwnersLive, CreatorOK, Creating, StackOwned, Open
<1>2. ASSUME NEW u \in User, StepOf(u) PROVE OwnInv'
  <2>1. OwnersLive' /\ \A v \in User : CreatorOK(v)'
    BY <1>2, OwnersLiveStep, OtherCreators, OwnCreator
  <2>2. ASSUME NEW v \in User PROVE StackOwned(v)'
    <3>1. CASE req'[v] = req[v]
      BY <1>2, <3>1, SameStackOwned
    <3>2. CASE v = u /\ req'[u] # req[u]
      BY <1>2, <3>2, NoStackOwned, DeleteStackOwned, ContinueSorted DEF StepOf
    <3> QED  BY <1>2, <3>1, <3>2, OthersWait
  <2> QED  BY <2>1, <2>2 DEF OwnInv
<1> QED  BY <1>1, <1>2 DEF DirectoryNext, StepOf

LEMMA OwnInit == DirectoryInit => OwnInv
BY DEF DirectoryInit, OwnInv, OwnersLive, CreatorOK, Creating, StackOwned, Open

(* A directory is only ever deleted for its owner (directory service,        *)
(* HasDirectoryDeletePerm): the recursion of delete_directory is let through *)
(* call by call, and no request can take a directory over meanwhile.         *)
THEOREM DeletesAreTheOwners == DirectorySpec => OnlyOwnersDelete
<1> DEFINE A == \A u \in User, d \in Dir :
                  req'[u] # req[u] /\ Live(d) /\ row'[d] # "live" => owner[d] = u
<1>1. ASSUME Typed, OwnInv, [DirectoryNext]_dirVars PROVE A
  <2> SUFFICES ASSUME NEW u \in User, NEW d \in Dir, req'[u] # req[u], Live(d), row'[d] # "live"
               PROVE  owner[d] = u
    OBVIOUS
  <2>1. PICK w \in User : StepOf(w)
    BY <1>1 DEF DirectoryNext, StepOf, dirVars
  <2>2. w = u
    BY <1>1, <2>1, OthersWait
  <2>3. CascadeRow(u) /\ DeleteRow(Top(u).dir)
    <3>1. ASSUME NEW n \in Note, DeleteRow(n) PROVE FALSE
      <4>1. n # d
        BY IdsAssumption
      <4> QED  BY <1>1, <3>1, <4>1 DEF DeleteRow, Live, Typed, PgOK
    <3>2. ~InsertDir(u) \/ row' # [row EXCEPT ![req[u].dir] = "live"]
      BY <1>1 DEF Live, Typed, PgOK
    <3>3. row' # [row EXCEPT ![req[u].note] = "live"]
      BY <1>1 DEF Live, Typed, PgOK
    <3> QED  BY <1>1, <2>1, <2>2, <3>1, <3>2, <3>3, RowsOf DEF Live, DeleteNote
  <2>4. Open(u) /\ Len(req[u].stack) \in Nat \ {0} /\ Top(u) = req[u].stack[1]
        /\ Top(u) \in Frame /\ req[u].pc = "cascade"
    BY <1>1, <2>3, DeleteAt DEF Typed, DeleteStep, CascadeRow, At
  <2>5. d = Top(u).dir
    BY <1>1, <2>3, <2>4 DEF DeleteRow, Live, Typed, PgOK, Frame
  <2>6. owner[req[u].stack[1].dir] = u
    BY <1>1, <2>4 DEF OwnInv, StackOwned, DeletePcs
  <2> QED  BY <2>4, <2>5, <2>6
<1>2. Typed /\ OwnInv /\ [DirectoryNext]_dirVars => [A]_dirVars
  BY <1>1
<1>3. DirectoryInit => Typed /\ OwnInv
  BY InitTyped, OwnInit
<1>4. Typed /\ OwnInv /\ [DirectoryNext]_dirVars => (Typed /\ OwnInv)'
  BY NextTyped, OwnStep
<1> HIDE DEF A
<1>5. DirectorySpec => [][A]_dirVars
  BY <1>2, <1>3, <1>4, PTL DEF DirectorySpec
<1> QED  BY <1>5 DEF A, OnlyOwnersDelete

-----------------------------------------------------------------------------
(* The two stores, while requests come one after the other and none raises:  *)
(* what holds between requests, and what holds at each statement of one.     *)

\* Tuples and the parents asked for name ids that were used.
Used(x) == row[x] # "unused"
TuplesUsed ==
  /\ \A e \in spSub : Used(e[1]) /\ Used(e[2])
  /\ \A e \in spFiled : Used(e[1]) /\ Used(e[2])

\* The stores agree, apart from the parents of x.
SubAgree(x) ==
  \A p, c \in Dir : Live(p) /\ Live(c) /\ c # x => (<<p, c>> \in sub <=> <<p, c>> \in spSub)
NoDead(x) ==
  \A p, c \in Dir : <<p, c>> \in spSub /\ Live(c) /\ c # x => Live(p)
FiledAgree(x) ==
  \A p \in Dir, n \in Note : n # x =>
    /\ <<p, n>> \in filed => <<p, n>> \in spFiled
    /\ <<p, n>> \in spFiled /\ <<p, n>> \notin filed /\ Live(p) /\ Live(n) => readme[p] = n

RestOK == TuplesUsed /\ SubAgree(None) /\ NoDead(None) /\ FiledAgree(None)

\* A directory without notes in SpiceDB, and one without live ones.
NoneFiled(d) == \A n \in Note : <<d, n>> \notin spFiled
NoneLive(d) == \A n \in Note : <<d, n>> \in spFiled => ~Live(n)
AllFiled(d) == \A n \in Note : <<d, n>> \in spFiled /\ Live(n) => <<d, n>> \in filed

\* A set of parents on its way from what it was to what is wanted.
Halfway(edges, x, r) ==
  /\ r.drop \cap r.want = {} /\ r.add \subseteq r.want
  /\ \A p \in Dir : <<p, x>> \in edges <=> p \in r.drop \/ (p \in r.want /\ p \notin r.add)
There(edges, x, r) == \A p \in Dir : <<p, x>> \in edges <=> p \in r.want

\* A directory in the making has no note yet, and no README but the one given.
Making(u) ==
  req[u].note # None => NoneFiled(req[u].dir) /\ readme[req[u].dir] \in {None, req[u].note}

WantUsed(u) == \A p \in req[u].want : Used(p)

InsertDirOK(u) == RestOK /\ row[req[u].dir] = "unused" /\ WantUsed(u)

ReplaceOK(u) ==
  LET r == req[u]
  IN  /\ TuplesUsed /\ FiledAgree(None) /\ WantUsed(u) /\ Making(u)
      /\ Used(r.dir) /\ SubAgree(r.dir) /\ NoDead(r.dir)
      /\ r.pc = "readParents" => SubAgree(None) /\ NoDead(None)
      /\ r.pc = "mirror" => Halfway(spSub, r.dir, r)
      /\ r.pc \in {"cycleCheck", "rows"} => There(spSub, r.dir, r)
      /\ r.pc = "rows" => Halfway(sub, r.dir, r)

OwnerOK(u) == RestOK /\ Used(req[u].dir) /\ Making(u) /\ NoneFiled(req[u].dir)

ReadmeOK(u) ==
  LET d == req[u].dir
      n == req[u].note
  IN  /\ TuplesUsed /\ SubAgree(None) /\ NoDead(None) /\ Used(d)
      /\ FiledAgree(IF req[u].pc = "mirrorNote" THEN n ELSE None)
      /\ req[u].pc \in {"insertNote", "fileNote", "mirrorNote"} => NoneLive(d)
      /\ req[u].pc = "fileNote" =>
           Live(n) /\ \A p \in Dir : <<p, n>> \notin spFiled /\ <<p, n>> \notin filed
      /\ req[u].pc = "mirrorNote" =>
           Live(n) /\ \A p \in Dir : <<p, n>> \notin spFiled /\ (<<p, n>> \in filed <=> p = d)
      /\ req[u].pc \in {"noteOwner", "bind", "bindTuple"} => Used(n)
      /\ req[u].pc \in {"noteOwner", "bind"} => AllFiled(d)
      /\ req[u].pc = "bindTuple" => (Live(d) => readme[d] = n)

NoteRowsOK(u) ==
  LET r == req[u]
  IN  /\ TuplesUsed /\ SubAgree(None) /\ NoDead(None) /\ WantUsed(u) /\ Used(r.note)
      /\ FiledAgree(r.note)
      /\ r.pc = "readNoteRows" => FiledAgree(None)
      /\ r.pc = "noteRows" => Halfway(filed, r.note, r)
      /\ r.pc \in {"unmirrorNote", "mirrorNotes"} => There(filed, r.note, r)
      /\ r.pc = "mirrorNotes" =>
           /\ r.add \subseteq r.want
           /\ \A p \in Dir : <<p, r.note>> \in spFiled <=> p \in r.want /\ p \notin r.add

\* What is below d in SpiceDB, as the smallest closed set.
Reach(d) ==
  {x \in Dir : \A K \in SUBSET Dir :
     d \in K /\ (\A e \in spSub : e[1] \in K => e[2] \in K) => x \in K}

\* A call of delete_directory that resolved its children: the live ones are still to be
\* deleted, or just now; and all it is about is below the directory to be deleted.
FrameOK(stack, i) ==
  /\ \A c \in Dir : <<stack[i].dir, c>> \in spSub /\ Live(c) =>
       c \in stack[i].subs \/ c = stack[i].dir \/ (i > 1 /\ c = stack[i - 1].dir)
  /\ stack[i].subs \subseteq Reach(stack[Len(stack)].dir)
  /\ \A n \in stack[i].notes : Parents(spFiled, n) \subseteq Reach(stack[Len(stack)].dir)

CallsOK(pc, stack) ==
  /\ \A i \in 1..Len(stack) : stack[i].dir \in Reach(stack[Len(stack)].dir)
  /\ \A i \in 1..Len(stack) : i > 1 \/ pc = "cascade" => FrameOK(stack, i)

CascadeOK(u) == RestOK /\ CallsOK(req[u].pc, req[u].stack)

Consistent(u) ==
  \/ At(u, "insertDir") /\ InsertDirOK(u)
  \/ req[u].pc \in DirPcs /\ ReplaceOK(u)
  \/ At(u, "owner") /\ OwnerOK(u)
  \/ req[u].pc \in ReadmePcs \ {"insertDir", "owner"} /\ ReadmeOK(u)
  \/ req[u].pc \in NotePcs /\ NoteRowsOK(u)
  \/ req[u].pc \in DeletePcs /\ CascadeOK(u)

StoresInv ==
  ~disturbed =>
    /\ \A u, v \in User : Open(u) /\ Open(v) => u = v
    /\ Calm => RestOK
    /\ \A u \in User : Open(u) => Consistent(u)

\* A request is at one step, and what holds there is what its step says.
LEMMA ConsistentAt ==
  ASSUME NEW u \in User, Consistent(u)
  PROVE  /\ req[u].pc = "insertDir" => InsertDirOK(u)
         /\ req[u].pc \in DirPcs => ReplaceOK(u)
         /\ req[u].pc = "owner" => OwnerOK(u)
         /\ req[u].pc \in ReadmePcs \ {"insertDir", "owner"} => ReadmeOK(u)
         /\ req[u].pc \in NotePcs => NoteRowsOK(u)
         /\ req[u].pc \in DeletePcs => CascadeOK(u)
BY DEF Consistent, At, DirPcs, ReadmePcs, NotePcs, DeletePcs

\* The record of a request after it went on.
LEMMA Edited ==
  ASSUME ReqsOK, NEW u \in User, Open(u), NEW pc \in Pc, NEW drop \in SUBSET Dir,
         NEW add \in SUBSET Dir, Edits(u, pc, drop, add)
  PROVE  /\ Open(u)' /\ req'[u].pc = pc /\ req'[u].drop = drop /\ req'[u].add = add
         /\ req'[u].dir = req[u].dir /\ req'[u].note = req[u].note
         /\ req'[u].want = req[u].want
<1>1. req'[u] = [req[u] EXCEPT !.pc = pc, !.drop = drop, !.add = add]
  BY DEF Edits, ReqsOK
<1>2. req'[u].pc = pc /\ req'[u].drop = drop /\ req'[u].add = add
      /\ req'[u].dir = req[u].dir /\ req'[u].note = req[u].note
      /\ req'[u].want = req[u].want
  BY <1>1, OpenRequest DEF Request
<1>3. req'[u] # Idle
  BY <1>2 DEF Idle, Pc
<1> QED  BY <1>2, <1>3 DEF Open

LEMMA Went ==
  ASSUME ReqsOK, NEW u \in User, Open(u), NEW pc \in Pc, Goto(u, pc)
  PROVE  /\ Open(u)' /\ req'[u].pc = pc
         /\ req'[u].drop = req[u].drop /\ req'[u].add = req[u].add
         /\ req'[u].dir = req[u].dir /\ req'[u].note = req[u].note
         /\ req'[u].want = req[u].want
<1>1. req'[u] = [req[u] EXCEPT !.pc = pc]
  BY DEF Goto, ReqsOK
<1>2. req'[u].pc = pc /\ req'[u].drop = req[u].drop /\ req'[u].add = req[u].add
      /\ req'[u].dir = req[u].dir /\ req'[u].note = req[u].note
      /\ req'[u].want = req[u].want
  BY <1>1, OpenRequest DEF Request
<1>3. req'[u] # Idle
  BY <1>2 DEF Idle, Pc
<1> QED  BY <1>2, <1>3 DEF Open

LEMMA Piled ==
  ASSUME ReqsOK, NEW u \in User, Open(u), NEW pc \in Pc, NEW s, Stacks(u, pc, s)
  PROVE  Open(u)' /\ req'[u].pc = pc /\ req'[u].stack = s
<1>1. req'[u] = [req[u] EXCEPT !.pc = pc, !.stack = s]
  BY DEF Stacks, ReqsOK
<1>2. req'[u].pc = pc /\ req'[u].stack = s
  BY <1>1, OpenRequest DEF Request
<1>3. req'[u] # Idle
  BY <1>2 DEF Idle, Pc
<1> QED  BY <1>2, <1>3 DEF Open

LEMMA Begun ==
  ASSUME ReqsOK, NEW u \in User, NEW pc \in Pc, NEW d, NEW n, NEW want, NEW stack,
         Begin(u, pc, d, n, want, stack), ~disturbed'
  PROVE  /\ Open(u)' /\ req'[u].pc = pc /\ req'[u].dir = d /\ req'[u].note = n
         /\ req'[u].want = want /\ req'[u].stack = stack /\ Calm /\ ~disturbed
<1>1. req'[u] = [pc |-> pc, dir |-> d, note |-> n, want |-> want,
                 drop |-> {}, add |-> {}, stack |-> stack]
  BY DEF Begin, ReqsOK
<1>2. req'[u].pc = pc /\ req'[u].dir = d /\ req'[u].note = n
      /\ req'[u].want = want /\ req'[u].stack = stack
  BY <1>1
<1>3. req'[u] # Idle
  BY <1>2 DEF Idle, Pc
<1>4. Calm /\ ~disturbed
  BY DEF Begin, Calm
<1> QED  BY <1>2, <1>3, <1>4 DEF Open

\* Where a request may go, each step is a step.
LEMMA PcsAreSteps == DirPcs \cup ReadmePcs \cup NotePcs \cup DeletePcs \subseteq Pc
BY DEF DirPcs, ReadmePcs, NotePcs, DeletePcs, Pc

\* What a new request finds.
LEMMA BeginsFine ==
  ASSUME Typed, RestOK, NEW u \in User, BeginRequest(u), ~disturbed', req'[u] # req[u]
  PROVE  Consistent(u)'
<1> USE DEF Typed
<1>1. ASSUME NEW d \in Dir, NEW want \in SUBSET Known, NEW n \in Note, BeginCreate(u, d, want, n)
      PROVE  Consistent(u)'
  <2>1. Begin(u, "insertDir", d, n, want, <<>>) /\ "insertDir" \in Pc
    BY <1>1 DEF BeginCreate, Pc
  <2>2. req'[u].pc = "insertDir" /\ req'[u].dir = d /\ req'[u].want = want
    BY <2>1, Begun
  <2>3. RestOK'
    BY <1>1 DEF BeginCreate, RestOK, TuplesUsed, SubAgree, NoDead, FiledAgree, Used, Live
  <2>4. InsertDirOK(u)'
    BY <1>1, <2>2, <2>3 DEF InsertDirOK, WantUsed, Used, Known, BeginCreate
  <2> QED  BY <2>2, <2>4 DEF Consistent, At
<1>2. ASSUME NEW d \in Known, NEW n \in Note, BeginList(u, d, n)
      PROVE  Consistent(u)'
  <2>1. Begin(u, "insertNote", d, n, {}, <<>>) /\ "insertNote" \in Pc
    BY <1>2 DEF BeginList, Pc
  <2>2. req'[u].pc = "insertNote" /\ req'[u].dir = d /\ req'[u].note = n
    BY <2>1, Begun
  <2>3. RestOK'
    BY <1>2 DEF BeginList, RestOK, TuplesUsed, SubAgree, NoDead, FiledAgree, Used, Live
  <2>4. Used(d)' /\ NoneLive(d)'
    BY <1>2 DEF BeginList, Known, Used, NoneLive, Live
  <2>5. ReadmeOK(u)'
    BY <2>2, <2>3, <2>4 DEF ReadmeOK, RestOK
  <2> QED  BY <2>2, <2>5 DEF Consistent, ReadmePcs
<1>3. ASSUME NEW d \in Known, NEW want \in SUBSET Known, BeginPatch(u, d, want)
      PROVE  Consistent(u)'
  <2>1. Begin(u, "readParents", d, None, want, <<>>) /\ "readParents" \in Pc
    BY <1>3 DEF BeginPatch, Pc
  <2>2. req'[u].pc = "readParents" /\ req'[u].dir = d /\ req'[u].want = want
        /\ req'[u].note = None
    BY <2>1, Begun
  <2>3. RestOK'
    BY <1>3 DEF BeginPatch, RestOK, TuplesUsed, SubAgree, NoDead, FiledAgree, Used, Live
  <2>4. Used(d)' /\ WantUsed(u)' /\ SubAgree(d)' /\ NoDead(d)'
    <3>1. SubAgree(d)' /\ NoDead(d)'
      BY <2>3, IdsAssumption DEF RestOK, SubAgree, NoDead
    <3> QED  BY <1>3, <2>2, <3>1 DEF BeginPatch, Known, Used, WantUsed
  <2>5. ReplaceOK(u)'
    BY <2>2, <2>3, <2>4 DEF ReplaceOK, RestOK, Making
  <2> QED  BY <2>2, <2>5 DEF Consistent, DirPcs
<1>4. ASSUME NEW n \in Note, NEW want \in SUBSET Known, BeginFile(u, n, want)
      PROVE  Consistent(u)'
  <2>1. Begin(u, "readNoteRows", None, n, want, <<>>) /\ "readNoteRows" \in Pc
    BY <1>4 DEF BeginFile, Pc
  <2>2. req'[u].pc = "readNoteRows" /\ req'[u].note = n /\ req'[u].want = want
    BY <2>1, Begun
  <2>3. RestOK'
    BY <1>4 DEF BeginFile, RestOK, TuplesUsed, SubAgree, NoDead, FiledAgree, Used, Live
  <2>4. Used(n)' /\ WantUsed(u)' /\ FiledAgree(n)'
    <3>1. FiledAgree(n)'
      BY <2>3, IdsAssumption DEF RestOK, FiledAgree
    <3> QED  BY <1>4, <2>2, <3>1 DEF BeginFile, Known, Used, WantUsed, Live
  <2>5. NoteRowsOK(u)'
    BY <2>2, <2>3, <2>4 DEF NoteRowsOK, RestOK
  <2> QED  BY <2>2, <2>5 DEF Consistent, NotePcs
<1>5. ASSUME NEW d \in Dir, BeginDelete(u, d)
      PROVE  Consistent(u)'
  <2>1. Begin(u, "resolve", d, None, {}, <<Call(d)>>) /\ "resolve" \in Pc
    BY <1>5 DEF BeginDelete, Pc
  <2>2. req'[u].pc = "resolve" /\ req'[u].stack = <<Call(d)>>
    BY <2>1, Begun
  <2>3. RestOK'
    BY <1>5 DEF BeginDelete, RestOK, TuplesUsed, SubAgree, NoDead, FiledAgree, Used, Live
  <2>4. d \in Reach(d)'
    BY DEF Reach
  <2>5. CascadeOK(u)'
    <3>1. PICK s : s = <<Call(d)>> /\ s = req'[u].stack /\ Len(s) = 1 /\ s[1].dir = d
      <4>1. Call(d).dir = d
        BY DEF Call
      <4>2. Len(<<Call(d)>>) = 1 /\ <<Call(d)>>[1] = Call(d)
        OBVIOUS
      <4> QED  BY <2>2, <4>1, <4>2
    <3>2. \A i \in 1..Len(s) : i = 1
      BY <3>1
    <3>3. s[Len(s)].dir = d
      BY <3>1
    <3>4. CallsOK("resolve", s)'
      BY <2>4, <3>1, <3>2, <3>3 DEF CallsOK
    <3> QED  BY <2>2, <2>3, <3>1, <3>4 DEF CascadeOK
  <2> QED  BY <2>2, <2>5 DEF Consistent, DeletePcs
<1> QED  BY <1>1, <1>2, <1>3, <1>4, <1>5 DEF BeginRequest, DeleteNote

\* Where an undisturbed request leaves the stores: open, at its next step, or done.
Fine(u) == IF Open(u) THEN Consistent(u) ELSE RestOK

\* The statements that make or list a directory.
LEMMA InsertDirFine ==
  ASSUME Typed, NEW u \in User, Consistent(u), InsertDir(u), ~disturbed'
  PROVE  Fine(u)'
<1> USE DEF Typed
<1>1. PICK d \in Dir, n \in Note :
        d = req[u].dir /\ n = req[u].note /\ Open(u) /\ d # n /\ n # None /\ d # None
  BY CreateGoes, IdsAssumption DEF CreateStep
<1>2. InsertDirOK(u)
  BY ConsistentAt DEF InsertDir, At
<1>3. PICK pc \in {"owner", "readParents"} : Goto(u, pc)
  BY DEF InsertDir, Raise
<1>4. /\ row' = [row EXCEPT ![d] = "live"]
      /\ readme' = [readme EXCEPT ![d] = IF Live(n) THEN n ELSE None]
      /\ UNCHANGED <<sub, filed, spVars>>
  BY <1>1 DEF InsertDir, Raise
<1>5. Open(u)' /\ req'[u].pc = pc /\ req'[u].dir = d /\ req'[u].note = n
      /\ req'[u].want = req[u].want
  BY <1>1, <1>3, Went DEF Pc
<1>6. /\ \A e \in sub : e[1] # d /\ e[2] # d
      /\ \A e \in filed : e[1] # d
      /\ \A e \in spSub : e[1] # d /\ e[2] # d
      /\ \A e \in spFiled : e[1] # d
  BY <1>1, <1>2 DEF InsertDirOK, RestOK, TuplesUsed, Used, PgOK
<1>7. row'[d] = "live" /\ \A x \in Dir \cup Note : x # d => row'[x] = row[x]
  BY <1>1, <1>4 DEF PgOK
<1>8. readme'[d] \in {None, n} /\ \A x \in Dir : x # d => readme'[x] = readme[x]
  BY <1>1, <1>4 DEF PgOK
<1>9. TuplesUsed'
  BY <1>2, <1>4, <1>6, <1>7 DEF InsertDirOK, RestOK, TuplesUsed, Used, SpOK
<1>10. \A x : SubAgree(x)' /\ NoDead(x)'
  <2>1. SubAgree(None) /\ NoDead(None)
    BY <1>2 DEF InsertDirOK, RestOK
  <2>2. ASSUME NEW p \in Dir, NEW c \in Dir, Live(p)', Live(c)'
        PROVE  <<p, c>> \in sub' <=> <<p, c>> \in spSub'
    BY <1>4, <1>6, <1>7, <2>1, <2>2, IdsAssumption DEF SubAgree, Live
  <2>3. ASSUME NEW p \in Dir, NEW c \in Dir, <<p, c>> \in spSub', Live(c)'
        PROVE  Live(p)'
    BY <1>4, <1>6, <1>7, <2>1, <2>3, IdsAssumption DEF NoDead, Live
  <2> QED  BY <2>2, <2>3 DEF SubAgree, NoDead
<1>11. FiledAgree(None)'
  BY <1>1, <1>2, <1>4, <1>6, <1>7, <1>8, IdsAssumption DEF InsertDirOK, RestOK, FiledAgree, Live
<1>12. Used(d)' /\ NoneFiled(d)' /\ WantUsed(u)' /\ Making(u)'
  <2>1. NoneFiled(d)'
    BY <1>4, <1>6 DEF NoneFiled
  <2>2. WantUsed(u)'
    BY <1>1, <1>2, <1>5, <1>7, OpenRequest DEF InsertDirOK, WantUsed, Used
  <2> QED  BY <1>5, <1>7, <1>8, <2>1, <2>2 DEF Used, Making
<1>13. CASE pc = "owner"
  <2>1. OwnerOK(u)'
    BY <1>5, <1>9, <1>10, <1>11, <1>12 DEF OwnerOK, RestOK
  <2> QED  BY <1>5, <1>13, <2>1 DEF Fine, Consistent, At
<1>14. CASE pc = "readParents"
  <2>1. ReplaceOK(u)'
    BY <1>5, <1>9, <1>10, <1>11, <1>12, <1>14 DEF ReplaceOK
  <2> QED  BY <1>5, <1>14, <2>1 DEF Fine, Consistent, DirPcs
<1> QED  BY <1>3, <1>13, <1>14

LEMMA InsertOwnerFine ==
  ASSUME Typed, NEW u \in User, Consistent(u), InsertOwner(u)
  PROVE  Fine(u)'
<1> USE DEF Typed
<1>1. PICK d \in Dir, n \in Note :
        d = req[u].dir /\ n = req[u].note /\ Open(u) /\ d # n /\ n # None /\ d # None
  BY CreateGoes, IdsAssumption DEF CreateStep
<1>2. OwnerOK(u)
  BY ConsistentAt DEF InsertOwner, At
<1>3. PICK pc \in {"insertNote", "bind"} : Goto(u, pc) /\ (pc = "bind" => readme[d] # None)
  BY <1>1 DEF InsertOwner
<1>4. UNCHANGED <<pgVars, spSub, spFiled>>
  BY DEF InsertOwner
<1>5. Open(u)' /\ req'[u].pc = pc /\ req'[u].dir = d /\ req'[u].note = n
  BY <1>1, <1>3, Went DEF Pc
<1>6. RestOK' /\ Used(d)' /\ NoneFiled(d)'
  BY <1>1, <1>2, <1>4 DEF OwnerOK, RestOK, TuplesUsed, SubAgree, NoDead, FiledAgree, Used, Live,
     NoneFiled
<1>7. pc = "bind" => Used(n)'
  BY <1>1, <1>2, <1>3, <1>4 DEF OwnerOK, Making, PgOK, Used
<1>8. ReadmeOK(u)'
  BY <1>3, <1>5, <1>6, <1>7 DEF ReadmeOK, RestOK, NoneFiled, NoneLive, AllFiled
<1> QED  BY <1>3, <1>5, <1>8 DEF Fine, Consistent, ReadmePcs

LEMMA InsertNoteFine ==
  ASSUME Typed, NEW u \in User, Consistent(u), InsertNote(u), ~disturbed'
  PROVE  Fine(u)'
<1> USE DEF Typed
<1>1. PICK d \in Dir, n \in Note :
        d = req[u].dir /\ n = req[u].note /\ Open(u) /\ d # n /\ n # None /\ d # None
  BY CreateGoes, IdsAssumption DEF CreateStep
<1>2. ReadmeOK(u) /\ req[u].pc = "insertNote"
  BY ConsistentAt DEF InsertNote, At, ReadmePcs
<1>3. /\ row[n] = "unused" /\ row' = [row EXCEPT ![n] = "live"] /\ Goto(u, "fileNote")
      /\ UNCHANGED <<sub, filed, readme, spVars>>
  BY <1>1 DEF InsertNote, Raise
<1>4. Open(u)' /\ req'[u].pc = "fileNote" /\ req'[u].dir = d /\ req'[u].note = n
  BY <1>1, <1>3, Went DEF Pc
<1>5. row'[n] = "live" /\ \A x \in Dir \cup Note : x # n => row'[x] = row[x]
  BY <1>1, <1>3 DEF PgOK
<1>6. TuplesUsed /\ SubAgree(None) /\ NoDead(None) /\ FiledAgree(None) /\ Used(d) /\ NoneLive(d)
  BY <1>1, <1>2 DEF ReadmeOK
<1>7. (\A e \in spFiled : e[2] # n) /\ \A e \in filed : e[2] # n
  BY <1>3, <1>6 DEF TuplesUsed, Used, PgOK
<1>8. \A x \in Dir : Live(x)' <=> Live(x)
  BY <1>5, IdsAssumption DEF Live
<1>9. TuplesUsed' /\ SubAgree(None)' /\ NoDead(None)' /\ Used(d)'
  <2>1. TuplesUsed' /\ Used(d)'
    BY <1>3, <1>5, <1>6 DEF TuplesUsed, Used, SpOK
  <2>2. SubAgree(None)' /\ NoDead(None)'
    BY <1>3, <1>6, <1>8 DEF SubAgree, NoDead
  <2> QED  BY <2>1, <2>2
<1>10. FiledAgree(None)' /\ NoneLive(d)'
  BY <1>1, <1>3, <1>5, <1>6, <1>7, IdsAssumption DEF FiledAgree, NoneLive, Live
<1>11. Live(n)' /\ \A p \in Dir : <<p, n>> \notin spFiled' /\ <<p, n>> \notin filed'
  BY <1>3, <1>5, <1>7 DEF Live
<1>12. ReadmeOK(u)'
  BY <1>4, <1>9, <1>10, <1>11 DEF ReadmeOK
<1> QED  BY <1>4, <1>12 DEF Fine, Consistent, ReadmePcs

LEMMA FileNoteFine ==
  ASSUME Typed, NEW u \in User, Consistent(u), FileNote(u), ~disturbed'
  PROVE  Fine(u)'
<1> USE DEF Typed
<1>1. PICK d \in Dir, n \in Note :
        d = req[u].dir /\ n = req[u].note /\ Open(u) /\ d # n /\ n # None /\ d # None
  BY CreateGoes, IdsAssumption DEF CreateStep
<1>2. ReadmeOK(u) /\ req[u].pc = "fileNote"
  BY ConsistentAt DEF FileNote, At, ReadmePcs
<1>3. /\ filed' = filed \cup {<<d, n>>} /\ Goto(u, "mirrorNote")
      /\ UNCHANGED <<row, sub, readme, spVars>>
  BY <1>1 DEF FileNote, Raise
<1>4. Open(u)' /\ req'[u].pc = "mirrorNote" /\ req'[u].dir = d /\ req'[u].note = n
  BY <1>1, <1>3, Went DEF Pc
<1>5. TuplesUsed /\ SubAgree(None) /\ NoDead(None) /\ FiledAgree(None) /\ Used(d) /\ NoneLive(d)
      /\ Live(n) /\ \A p \in Dir : <<p, n>> \notin spFiled /\ <<p, n>> \notin filed
  BY <1>1, <1>2 DEF ReadmeOK
<1>6. TuplesUsed' /\ SubAgree(None)' /\ NoDead(None)' /\ Used(d)' /\ NoneLive(d)' /\ Live(n)'
  BY <1>3, <1>5 DEF TuplesUsed, SubAgree, NoDead, Used, NoneLive, Live
<1>7. FiledAgree(n)'
  BY <1>3, <1>5, IdsAssumption DEF FiledAgree, Live
<1>8. \A p \in Dir : <<p, n>> \notin spFiled' /\ (<<p, n>> \in filed' <=> p = d)
  BY <1>3, <1>5
<1>9. ReadmeOK(u)'
  BY <1>4, <1>6, <1>7, <1>8 DEF ReadmeOK
<1> QED  BY <1>4, <1>9 DEF Fine, Consistent, ReadmePcs

LEMMA MirrorNoteFine ==
  ASSUME Typed, NEW u \in User, Consistent(u), MirrorNote(u)
  PROVE  Fine(u)'
<1> USE DEF Typed
<1>1. PICK d \in Dir, n \in Note :
        d = req[u].dir /\ n = req[u].note /\ Open(u) /\ d # n /\ n # None /\ d # None
  BY CreateGoes, IdsAssumption DEF CreateStep
<1>2. ReadmeOK(u) /\ req[u].pc = "mirrorNote"
  BY ConsistentAt DEF MirrorNote, At, ReadmePcs
<1>3. /\ spFiled' = spFiled \cup {<<d, n>>} /\ Goto(u, "noteOwner")
      /\ UNCHANGED <<pgVars, spSub>>
  BY <1>1 DEF MirrorNote
<1>4. Open(u)' /\ req'[u].pc = "noteOwner" /\ req'[u].dir = d /\ req'[u].note = n
  BY <1>1, <1>3, Went DEF Pc
<1>5. TuplesUsed /\ SubAgree(None) /\ NoDead(None) /\ FiledAgree(n) /\ Used(d) /\ NoneLive(d)
      /\ Live(n) /\ \A p \in Dir : <<p, n>> \notin spFiled /\ (<<p, n>> \in filed <=> p = d)
  BY <1>1, <1>2 DEF ReadmeOK
<1>6. TuplesUsed' /\ SubAgree(None)' /\ NoDead(None)' /\ Used(d)' /\ Used(n)'
  BY <1>3, <1>5 DEF TuplesUsed, SubAgree, NoDead, Used, Live
<1>7. FiledAgree(None)' /\ AllFiled(d)'
  BY <1>3, <1>5 DEF FiledAgree, AllFiled, NoneLive, Live
<1>8. ReadmeOK(u)'
  BY <1>4, <1>6, <1>7 DEF ReadmeOK
<1> QED  BY <1>4, <1>8 DEF Fine, Consistent, ReadmePcs

LEMMA InsertNoteOwnerFine ==
  ASSUME Typed, NEW u \in User, Consistent(u), InsertNoteOwner(u)
  PROVE  Fine(u)'
<1> USE DEF Typed
<1>1. PICK d \in Dir, n \in Note :
        d = req[u].dir /\ n = req[u].note /\ Open(u) /\ d # n /\ n # None /\ d # None
  BY CreateGoes, IdsAssumption DEF CreateStep
<1>2. ReadmeOK(u) /\ req[u].pc = "noteOwner"
  BY ConsistentAt DEF InsertNoteOwner, At, ReadmePcs
<1>3. Goto(u, "bind") /\ UNCHANGED <<pgVars, spSub, spFiled>>
  BY <1>1 DEF InsertNoteOwner
<1>4. Open(u)' /\ req'[u].pc = "bind" /\ req'[u].dir = d /\ req'[u].note = n
  BY <1>1, <1>3, Went DEF Pc
<1>5. TuplesUsed /\ SubAgree(None) /\ NoDead(None) /\ FiledAgree(None) /\ Used(d) /\ Used(n)
      /\ AllFiled(d)
  BY <1>1, <1>2 DEF ReadmeOK
<1>6. TuplesUsed' /\ SubAgree(None)' /\ NoDead(None)' /\ FiledAgree(None)' /\ Used(d)' /\ Used(n)'
      /\ AllFiled(d)'
  BY <1>3, <1>5 DEF TuplesUsed, SubAgree, NoDead, FiledAgree, Used, AllFiled, Live
<1>7. ReadmeOK(u)'
  BY <1>4, <1>6 DEF ReadmeOK
<1> QED  BY <1>4, <1>7 DEF Fine, Consistent, ReadmePcs

LEMMA BindReadmeFine ==
  ASSUME Typed, NEW u \in User, Consistent(u), BindReadme(u), ~disturbed'
  PROVE  Fine(u)'
<1> USE DEF Typed
<1>1. PICK d \in Dir, n \in Note :
        d = req[u].dir /\ n = req[u].note /\ Open(u) /\ d # n /\ n # None /\ d # None
  BY CreateGoes, IdsAssumption DEF CreateStep
<1>2. ReadmeOK(u) /\ req[u].pc = "bind"
  BY ConsistentAt DEF BindReadme, At, ReadmePcs
<1>3. /\ readme' = [readme EXCEPT ![d] = IF Live(d) THEN n ELSE @] /\ Goto(u, "bindTuple")
      /\ UNCHANGED <<row, sub, filed, spVars>>
  BY <1>1 DEF BindReadme, Raise
<1>4. Open(u)' /\ req'[u].pc = "bindTuple" /\ req'[u].dir = d /\ req'[u].note = n
  BY <1>1, <1>3, Went DEF Pc
<1>5. TuplesUsed /\ SubAgree(None) /\ NoDead(None) /\ FiledAgree(None) /\ Used(d) /\ Used(n)
      /\ AllFiled(d)
  BY <1>1, <1>2 DEF ReadmeOK
<1>6. (Live(d) => readme'[d] = n) /\ \A x \in Dir : x # d => readme'[x] = readme[x]
  BY <1>3 DEF PgOK
<1>7. TuplesUsed' /\ SubAgree(None)' /\ NoDead(None)' /\ Used(d)' /\ Used(n)'
      /\ (Live(d) => readme[d] = n)'
  BY <1>3, <1>5, <1>6 DEF TuplesUsed, SubAgree, NoDead, Used, Live
<1>8. FiledAgree(None)'
  BY <1>3, <1>5, <1>6 DEF FiledAgree, AllFiled, Live
<1>9. ReadmeOK(u)'
  BY <1>4, <1>7, <1>8 DEF ReadmeOK
<1> QED  BY <1>4, <1>9 DEF Fine, Consistent, ReadmePcs

LEMMA BindTupleFine ==
  ASSUME Typed, NEW u \in User, Consistent(u), BindTuple(u)
  PROVE  Fine(u)'
<1> USE DEF Typed
<1>1. PICK d \in Dir, n \in Note :
        d = req[u].dir /\ n = req[u].note /\ Open(u) /\ d # n /\ n # None /\ d # None
  BY CreateGoes, IdsAssumption DEF CreateStep
<1>2. ReadmeOK(u) /\ req[u].pc = "bindTuple"
  BY ConsistentAt DEF BindTuple, At, ReadmePcs
<1>3. spFiled' = spFiled \cup {<<d, n>>} /\ UNCHANGED <<pgVars, spSub>> /\ ~Open(u)'
  BY <1>1 DEF BindTuple, End, Open, ReqsOK
<1>4. TuplesUsed /\ SubAgree(None) /\ NoDead(None) /\ FiledAgree(None) /\ Used(d) /\ Used(n)
      /\ (Live(d) => readme[d] = n)
  BY <1>1, <1>2 DEF ReadmeOK
<1>5. TuplesUsed' /\ SubAgree(None)' /\ NoDead(None)' /\ FiledAgree(None)'
  BY <1>3, <1>4 DEF TuplesUsed, SubAgree, NoDead, FiledAgree, Used, Live
<1> QED  BY <1>3, <1>5 DEF Fine, RestOK

\* The statements that replace the parents of a directory.  What every one of them
\* keeps is about the other directories, and about the notes.
ElsewhereOK(d) == TuplesUsed /\ FiledAgree(None) /\ Used(d) /\ SubAgree(d) /\ NoDead(d)

LEMMA ElsewhereKept ==
  ASSUME Typed, NEW d \in Dir, ElsewhereOK(d), UNCHANGED <<row, filed, readme, spFiled>>,
         \A p, c \in Dir : c # d => (<<p, c>> \in sub' <=> <<p, c>> \in sub),
         \A p, c \in Dir : c # d => (<<p, c>> \in spSub' <=> <<p, c>> \in spSub),
         \A e \in spSub' : e \in spSub \/ (e \in Dir \X Dir /\ Used(e[1]) /\ e[2] = d)
  PROVE  ElsewhereOK(d)'
<1>1. TuplesUsed' /\ Used(d)'
  BY DEF ElsewhereOK, TuplesUsed, Used
<1>2. FiledAgree(None)'
  BY DEF ElsewhereOK, FiledAgree, Live
<1>3. SubAgree(d)' /\ NoDead(d)'
  BY DEF ElsewhereOK, SubAgree, NoDead, Live
<1> QED  BY <1>1, <1>2, <1>3 DEF ElsewhereOK

\* The request at such a statement.
LEMMA ReplacesOf ==
  ASSUME Typed, NEW u \in User, Consistent(u), ReplaceStep(u), req[u].pc \in DirPcs
  PROVE  /\ Open(u) /\ ReplaceOK(u) /\ ElsewhereOK(req[u].dir) /\ WantUsed(u) /\ Making(u)
         /\ req[u].dir \in Dir /\ req[u].dir # None
         /\ req[u].want \in SUBSET Dir /\ req[u].drop \in SUBSET Dir /\ req[u].add \in SUBSET Dir
BY ConsistentAt, ReplaceAt, IdsAssumption DEF ReplaceOK, ElsewhereOK, Typed

\* It goes on, and only the parents of its directory were written.
LEMMA ReplaceKept ==
  ASSUME Typed, NEW u \in User, NEW d \in Dir, Open(u), d = req[u].dir, WantUsed(u), Making(u),
         UNCHANGED <<row, readme, spFiled>>,
         req'[u].dir = d, req'[u].want = req[u].want, req'[u].note = req[u].note
  PROVE  WantUsed(u)' /\ Making(u)'
<1>1. WantUsed(u)'
  BY DEF WantUsed, Used
<1>2. Making(u)'
  BY DEF Making, NoneFiled
<1> QED  BY <1>1, <1>2

LEMMA ReadParentsFine ==
  ASSUME Typed, NEW u \in User, Consistent(u), ReadParents(u)
  PROVE  Fine(u)'
<1> USE DEF Typed
<1>0. req[u].pc = "readParents" /\ "readParents" \in DirPcs /\ ReplaceStep(u)
  BY DEF ReadParents, At, DirPcs, ReplaceStep
<1>1. PICK d \in Dir, want \in SUBSET Dir : d = req[u].dir /\ want = req[u].want
        /\ d # None /\ Open(u) /\ ElsewhereOK(d) /\ WantUsed(u) /\ Making(u)
        /\ SubAgree(None) /\ NoDead(None)
  BY <1>0, ReplacesOf DEF ReplaceOK
<1>2. UNCHANGED <<pgVars, spVars>>
  BY DEF ReadParents
<1>3. CASE End(u)
  <2>1. ~Open(u)'
    BY <1>1, <1>3 DEF End, Open, ReqsOK
  <2>2. RestOK'
    BY <1>1, <1>2 DEF ElsewhereOK, RestOK, TuplesUsed, SubAgree, NoDead, FiledAgree, Used, Live
  <2> QED  BY <2>1, <2>2 DEF Fine
<1>4. CASE ~End(u)
  <2>1. PICK existing \in SUBSET Dir : existing = Parents(sub, d)
    BY ParentsInDir
  <2>2. Live(d) /\ Edits(u, "mirror", existing \ want, want \ existing)
    BY <1>0, <1>1, <1>4, <2>1 DEF ReadParents, Edits
  <2>3. /\ Open(u)' /\ req'[u].pc = "mirror" /\ req'[u].drop = existing \ want
        /\ req'[u].add = want \ existing /\ req'[u].dir = d /\ req'[u].note = req[u].note
        /\ req'[u].want = want
    BY <1>1, <2>2, Edited DEF Pc
  <2>4. ElsewhereOK(d)' /\ WantUsed(u)' /\ Making(u)'
    BY <1>1, <1>2, <2>3, ElsewhereKept, ReplaceKept DEF SpOK
  <2>5. \A p \in Dir : <<p, d>> \in spSub <=> p \in existing
    <3>1. ASSUME NEW p \in Dir PROVE <<p, d>> \in sub <=> p \in existing
      BY <2>1, ParentsAre DEF PgOK
    <3>2. ASSUME NEW p \in Dir PROVE <<p, d>> \in sub <=> <<p, d>> \in spSub
      <4>1. <<p, d>> \in sub => Live(p)
        BY DEF PgOK, Live
      <4>2. <<p, d>> \in spSub => Live(p)
        BY <1>1, <2>2 DEF NoDead
      <4> QED  BY <1>1, <2>2, <4>1, <4>2 DEF SubAgree
    <3> QED  BY <3>1, <3>2
  <2>6. Halfway(spSub, req[u].dir, req[u])'
    BY <1>2, <2>3, <2>5 DEF Halfway
  <2>7. ReplaceOK(u)'
    BY <2>3, <2>4, <2>6 DEF ReplaceOK, ElsewhereOK
  <2> QED  BY <2>3, <2>7 DEF Fine, Consistent, DirPcs
<1> QED  BY <1>3, <1>4

LEMMA MirrorFine ==
  ASSUME Typed, NEW u \in User, Consistent(u), Mirror(u)
  PROVE  Fine(u)'
<1> USE DEF Typed
<1>0. req[u].pc = "mirror" /\ "mirror" \in DirPcs /\ ReplaceStep(u)
  BY DEF Mirror, At, DirPcs, ReplaceStep
<1>1. PICK d \in Dir, want \in SUBSET Dir, drop \in SUBSET Dir, add \in SUBSET Dir :
        /\ d = req[u].dir /\ want = req[u].want /\ drop = req[u].drop /\ add = req[u].add
        /\ d # None /\ Open(u) /\ ElsewhereOK(d) /\ WantUsed(u) /\ Making(u)
        /\ Halfway(spSub, d, req[u])
  BY <1>0, ReplacesOf DEF ReplaceOK
<1>2. UNCHANGED <<pgVars, spFiled>>
  BY DEF Mirror
<1>3. /\ drop \cap want = {} /\ add \subseteq want
      /\ \A p \in Dir : <<p, d>> \in spSub <=> p \in drop \/ (p \in want /\ p \notin add)
  BY <1>1 DEF Halfway
<1>4. ASSUME NEW drop2 \in SUBSET Dir, NEW add2 \in SUBSET Dir,
             Edits(u, "mirror", drop2, add2),
             drop2 \cap want = {}, add2 \subseteq want,
             \A p \in Dir : <<p, d>> \in spSub' <=> p \in drop2 \/ (p \in want /\ p \notin add2),
             \A p, c \in Dir : c # d => (<<p, c>> \in spSub' <=> <<p, c>> \in spSub),
             \A e \in spSub' : e \in spSub \/ (e \in Dir \X Dir /\ Used(e[1]) /\ e[2] = d)
      PROVE  Fine(u)'
  <2>1. /\ Open(u)' /\ req'[u].pc = "mirror" /\ req'[u].drop = drop2
        /\ req'[u].add = add2 /\ req'[u].dir = d /\ req'[u].note = req[u].note
        /\ req'[u].want = want
    BY <1>1, <1>4, Edited DEF Pc
  <2>2. ElsewhereOK(d)' /\ WantUsed(u)' /\ Making(u)'
    BY <1>1, <1>2, <1>4, <2>1, ElsewhereKept, ReplaceKept
  <2>3. Halfway(spSub, req[u].dir, req[u])'
    BY <1>4, <2>1 DEF Halfway
  <2>4. ReplaceOK(u)'
    BY <2>1, <2>2, <2>3 DEF ReplaceOK, ElsewhereOK
  <2> QED  BY <2>1, <2>4 DEF Fine, Consistent, DirPcs
<1>5. CASE \E p \in drop : /\ spSub' = spSub \ {<<p, d>>}
                           /\ req' = [req EXCEPT ![u].drop = @ \ {p}]
  <2>1. PICK p \in drop : /\ spSub' = spSub \ {<<p, d>>}
                          /\ req' = [req EXCEPT ![u].drop = @ \ {p}]
    BY <1>5
  <2>2. Edits(u, "mirror", drop \ {p}, add)
    BY <1>0, <1>1, <2>1, OpenRequest DEF Edits, Request
  <2>3. \A q \in Dir : <<q, d>> \in spSub' <=> q \in drop \ {p} \/ (q \in want /\ q \notin add)
    BY <1>3, <2>1
  <2>4. (drop \ {p}) \cap want = {} /\ drop \ {p} \in SUBSET Dir
    BY <1>3
  <2> QED  BY <1>3, <1>4, <2>1, <2>2, <2>3, <2>4
<1>6. CASE drop = {} /\ \E p \in add : /\ spSub' = spSub \cup {<<p, d>>}
                                       /\ req' = [req EXCEPT ![u].add = @ \ {p}]
  <2>1. PICK p \in add : /\ spSub' = spSub \cup {<<p, d>>}
                         /\ req' = [req EXCEPT ![u].add = @ \ {p}]
    BY <1>6
  <2>2. Edits(u, "mirror", drop, add \ {p})
    BY <1>0, <1>1, <2>1, OpenRequest DEF Edits, Request
  <2>3. \A q \in Dir : <<q, d>> \in spSub' <=> q \in drop \/ (q \in want /\ q \notin add \ {p})
    BY <1>3, <2>1
  <2>4. p \in want /\ Used(p)
    BY <1>1, <1>3 DEF WantUsed
  <2>5. add \ {p} \in SUBSET Dir /\ add \ {p} \subseteq want
    BY <1>3
  <2> QED  BY <1>3, <1>4, <2>1, <2>2, <2>3, <2>4, <2>5
<1>7. CASE drop = {} /\ add = {} /\ Goto(u, "cycleCheck") /\ UNCHANGED spSub
  <2>1. /\ Open(u)' /\ req'[u].pc = "cycleCheck" /\ req'[u].dir = d
        /\ req'[u].note = req[u].note /\ req'[u].want = want
    BY <1>1, <1>7, Went DEF Pc
  <2>2. ElsewhereOK(d)' /\ WantUsed(u)' /\ Making(u)'
    BY <1>1, <1>2, <1>7, <2>1, ElsewhereKept, ReplaceKept DEF SpOK
  <2>3. There(spSub, req[u].dir, req[u])'
    BY <1>3, <1>7, <2>1 DEF There
  <2>4. ReplaceOK(u)'
    BY <2>1, <2>2, <2>3 DEF ReplaceOK, ElsewhereOK
  <2> QED  BY <2>1, <2>4 DEF Fine, Consistent, DirPcs
<1> QED  BY <1>1, <1>5, <1>6, <1>7 DEF Mirror

LEMMA CycleCheckFine ==
  ASSUME Typed, NEW u \in User, Consistent(u), CycleCheck(u), ~disturbed'
  PROVE  Fine(u)'
<1> USE DEF Typed
<1>0. req[u].pc = "cycleCheck" /\ "cycleCheck" \in DirPcs /\ ReplaceStep(u)
  BY DEF CycleCheck, At, DirPcs, ReplaceStep
<1>1. PICK d \in Dir, want \in SUBSET Dir : d = req[u].dir /\ want = req[u].want
        /\ d # None /\ Open(u) /\ ElsewhereOK(d) /\ WantUsed(u) /\ Making(u)
        /\ There(spSub, d, req[u])
  BY <1>0, ReplacesOf DEF ReplaceOK
<1>2. UNCHANGED <<pgVars, spVars>>
  BY DEF CycleCheck
<1>3. PICK current \in SUBSET Dir : current = Parents(sub, d)
  BY ParentsInDir
<1>4. Edits(u, "rows", current \ want, want \ current)
  BY <1>0, <1>1, <1>3 DEF CycleCheck, Edits, Raise
<1>5. /\ Open(u)' /\ req'[u].pc = "rows" /\ req'[u].drop = current \ want
      /\ req'[u].add = want \ current /\ req'[u].dir = d /\ req'[u].note = req[u].note
      /\ req'[u].want = want
  BY <1>1, <1>4, Edited DEF Pc
<1>6. ElsewhereOK(d)' /\ WantUsed(u)' /\ Making(u)'
  BY <1>1, <1>2, <1>5, ElsewhereKept, ReplaceKept DEF SpOK
<1>7. \A p \in Dir : <<p, d>> \in sub <=> p \in current
  BY <1>3, ParentsAre DEF PgOK
<1>8. Halfway(sub, req[u].dir, req[u])' /\ There(spSub, req[u].dir, req[u])'
  <2>1. Halfway(sub, req[u].dir, req[u])'
    BY <1>2, <1>5, <1>7 DEF Halfway
  <2>2. There(spSub, req[u].dir, req[u])'
    BY <1>1, <1>2, <1>5 DEF There
  <2> QED  BY <2>1, <2>2
<1>9. ReplaceOK(u)'
  BY <1>5, <1>6, <1>8 DEF ReplaceOK, ElsewhereOK
<1> QED  BY <1>5, <1>9 DEF Fine, Consistent, DirPcs

LEMMA ReplaceRowsFine ==
  ASSUME Typed, NEW u \in User, Consistent(u), ReplaceRows(u), ~disturbed'
  PROVE  Fine(u)'
<1> USE DEF Typed
<1>0. req[u].pc = "rows" /\ "rows" \in DirPcs /\ ReplaceStep(u)
  BY DEF ReplaceRows, At, DirPcs, ReplaceStep
<1>1. PICK d \in Dir, want \in SUBSET Dir, drop \in SUBSET Dir, add \in SUBSET Dir :
        /\ d = req[u].dir /\ want = req[u].want /\ drop = req[u].drop /\ add = req[u].add
        /\ d # None /\ Open(u) /\ ElsewhereOK(d) /\ WantUsed(u) /\ Making(u)
        /\ There(spSub, d, req[u]) /\ Halfway(sub, d, req[u])
  BY <1>0, ReplacesOf DEF ReplaceOK
<1>2. UNCHANGED <<row, filed, readme, spVars>>
  BY DEF ReplaceRows
<1>3. /\ drop \cap want = {} /\ add \subseteq want
      /\ \A p \in Dir : <<p, d>> \in sub <=> p \in drop \/ (p \in want /\ p \notin add)
      /\ \A p \in Dir : <<p, d>> \in spSub <=> p \in want
  BY <1>1 DEF Halfway, There
<1>4. ASSUME NEW drop2 \in SUBSET Dir, NEW add2 \in SUBSET Dir,
             Edits(u, "rows", drop2, add2),
             drop2 \cap want = {}, add2 \subseteq want,
             \A p \in Dir : <<p, d>> \in sub' <=> p \in drop2 \/ (p \in want /\ p \notin add2),
             \A p, c \in Dir : c # d => (<<p, c>> \in sub' <=> <<p, c>> \in sub)
      PROVE  Fine(u)'
  <2>1. /\ Open(u)' /\ req'[u].pc = "rows" /\ req'[u].drop = drop2
        /\ req'[u].add = add2 /\ req'[u].dir = d /\ req'[u].note = req[u].note
        /\ req'[u].want = want
    BY <1>1, <1>4, Edited DEF Pc
  <2>2. ElsewhereOK(d)' /\ WantUsed(u)' /\ Making(u)'
    BY <1>1, <1>2, <1>4, <2>1, ElsewhereKept, ReplaceKept DEF SpOK
  <2>3. Halfway(sub, req[u].dir, req[u])' /\ There(spSub, req[u].dir, req[u])'
    <3>1. Halfway(sub, req[u].dir, req[u])'
      BY <1>4, <2>1 DEF Halfway
    <3>2. There(spSub, req[u].dir, req[u])'
      BY <1>2, <1>3, <2>1 DEF There
    <3> QED  BY <3>1, <3>2
  <2>4. ReplaceOK(u)'
    BY <2>1, <2>2, <2>3 DEF ReplaceOK, ElsewhereOK
  <2> QED  BY <2>1, <2>4 DEF Fine, Consistent, DirPcs
<1>5. CASE \E p \in drop : /\ sub' = sub \ {<<p, d>>}
                           /\ req' = [req EXCEPT ![u].drop = @ \ {p}]
  <2>1. PICK p \in drop : /\ sub' = sub \ {<<p, d>>}
                          /\ req' = [req EXCEPT ![u].drop = @ \ {p}]
    BY <1>5
  <2>2. Edits(u, "rows", drop \ {p}, add)
    BY <1>0, <1>1, <2>1, OpenRequest DEF Edits, Request
  <2>3. \A q \in Dir : <<q, d>> \in sub' <=> q \in drop \ {p} \/ (q \in want /\ q \notin add)
    BY <1>3, <2>1
  <2>4. (drop \ {p}) \cap want = {} /\ drop \ {p} \in SUBSET Dir
    BY <1>3
  <2> QED  BY <1>3, <1>4, <2>1, <2>2, <2>3, <2>4
<1>6. CASE drop = {} /\ \E p \in add : /\ sub' = sub \cup {<<p, d>>}
                                       /\ req' = [req EXCEPT ![u].add = @ \ {p}]
  <2>1. PICK p \in add : /\ sub' = sub \cup {<<p, d>>}
                         /\ req' = [req EXCEPT ![u].add = @ \ {p}]
    BY <1>6
  <2>2. Edits(u, "rows", drop, add \ {p})
    BY <1>0, <1>1, <2>1, OpenRequest DEF Edits, Request
  <2>3. \A q \in Dir : <<q, d>> \in sub' <=> q \in drop \/ (q \in want /\ q \notin add \ {p})
    BY <1>3, <2>1
  <2>4. add \ {p} \in SUBSET Dir /\ add \ {p} \subseteq want
    BY <1>3
  <2> QED  BY <1>3, <1>4, <2>1, <2>2, <2>3, <2>4
<1>7. CASE drop = {} /\ add = {} /\ UNCHANGED sub
           /\ IF req[u].note = None THEN End(u) ELSE Goto(u, "owner")
  <2>1. \A p \in Dir : <<p, d>> \in sub <=> <<p, d>> \in spSub
    BY <1>3, <1>7
  <2>2. SubAgree(None)
    BY <1>1, <2>1 DEF ElsewhereOK, SubAgree
  <2>3. NoDead(None)
    <3>1. ASSUME NEW p \in Dir, <<p, d>> \in spSub PROVE Live(p)
      <4>1. <<p, d>> \in sub
        BY <2>1, <3>1
      <4> QED  BY <4>1 DEF PgOK, Live
    <3> QED  BY <1>1, <3>1 DEF ElsewhereOK, NoDead
  <2>4. RestOK /\ Used(d)
    BY <1>1, <2>2, <2>3 DEF ElsewhereOK, RestOK
  <2>5. RestOK' /\ Used(d)'
    BY <1>2, <1>7, <2>4 DEF RestOK, TuplesUsed, SubAgree, NoDead, FiledAgree, Used, Live
  <2>6. CASE End(u)
    <3>1. ~Open(u)'
      BY <1>1, <2>6 DEF End, Open, ReqsOK
    <3> QED  BY <2>5, <3>1 DEF Fine
  <2>7. CASE req[u].note # None /\ Goto(u, "owner")
    <3>1. /\ Open(u)' /\ req'[u].pc = "owner" /\ req'[u].dir = d
          /\ req'[u].note = req[u].note /\ req'[u].want = want
      BY <1>1, <2>7, Went DEF Pc
    <3>2. Making(u)'
      BY <1>1, <1>2, <3>1, ReplaceKept
    <3>3. NoneFiled(d)'
      BY <2>7, <3>1, <3>2 DEF Making
    <3>4. OwnerOK(u)'
      BY <2>5, <3>1, <3>2, <3>3 DEF OwnerOK
    <3> QED  BY <3>1, <3>4 DEF Fine, Consistent, At
  <2> QED  BY <1>7, <2>6, <2>7
<1>8. ~Raise(u)
  BY DEF Raise
<1> QED  BY <1>1, <1>5, <1>6, <1>7, <1>8 DEF ReplaceRows

\* The statements that replace the directories of a note.
ElsewhereNoteOK(n) ==
  TuplesUsed /\ SubAgree(None) /\ NoDead(None) /\ Used(n) /\ FiledAgree(n)

LEMMA ElsewhereNoteKept ==
  ASSUME Typed, NEW n \in Note, ElsewhereNoteOK(n), UNCHANGED <<row, sub, readme, spSub>>,
         \A p \in Dir, m \in Note : m # n => (<<p, m>> \in filed' <=> <<p, m>> \in filed),
         \A p \in Dir, m \in Note : m # n => (<<p, m>> \in spFiled' <=> <<p, m>> \in spFiled),
         \A e \in spFiled' : e \in spFiled \/ (e \in Dir \X Note /\ Used(e[1]) /\ e[2] = n)
  PROVE  ElsewhereNoteOK(n)'
<1>1. TuplesUsed' /\ Used(n)'
  BY DEF ElsewhereNoteOK, TuplesUsed, Used
<1>2. SubAgree(None)' /\ NoDead(None)'
  BY DEF ElsewhereNoteOK, SubAgree, NoDead, Live
<1>3. FiledAgree(n)'
  BY DEF ElsewhereNoteOK, FiledAgree, Live
<1> QED  BY <1>1, <1>2, <1>3 DEF ElsewhereNoteOK

LEMMA FilesOf ==
  ASSUME Typed, NEW u \in User, Consistent(u), ReplaceStep(u), req[u].pc \in NotePcs
  PROVE  /\ Open(u) /\ NoteRowsOK(u) /\ ElsewhereNoteOK(req[u].note) /\ WantUsed(u)
         /\ req[u].note \in Note
         /\ req[u].want \in SUBSET Dir /\ req[u].drop \in SUBSET Dir /\ req[u].add \in SUBSET Dir
BY ConsistentAt, ReplaceAt DEF NoteRowsOK, ElsewhereNoteOK, Typed

LEMMA ReadNoteRowsFine ==
  ASSUME Typed, NEW u \in User, Consistent(u), ReadNoteRows(u)
  PROVE  Fine(u)'
<1> USE DEF Typed
<1>0. req[u].pc = "readNoteRows" /\ "readNoteRows" \in NotePcs /\ ReplaceStep(u)
  BY DEF ReadNoteRows, At, NotePcs, ReplaceStep
<1>1. PICK n \in Note, want \in SUBSET Dir : n = req[u].note /\ want = req[u].want
        /\ Open(u) /\ ElsewhereNoteOK(n) /\ WantUsed(u)
  BY <1>0, FilesOf
<1>2. UNCHANGED <<pgVars, spVars>>
  BY DEF ReadNoteRows
<1>3. PICK current \in SUBSET Dir : current = Parents(filed, n)
  BY ParentsInDir
<1>4. Edits(u, "noteRows", current \ want, want \ current)
  BY <1>0, <1>1, <1>3 DEF ReadNoteRows, Edits
<1>5. /\ Open(u)' /\ req'[u].pc = "noteRows" /\ req'[u].drop = current \ want
      /\ req'[u].add = want \ current /\ req'[u].note = n /\ req'[u].want = want
  BY <1>1, <1>4, Edited DEF Pc
<1>6. ElsewhereNoteOK(n)' /\ WantUsed(u)'
  <2>1. ElsewhereNoteOK(n)'
    BY <1>1, <1>2, ElsewhereNoteKept DEF SpOK
  <2> QED  BY <1>1, <1>2, <1>5, <2>1 DEF WantUsed, Used
<1>7. \A p \in Dir : <<p, n>> \in filed <=> p \in current
  BY <1>3, ParentsAre DEF PgOK
<1>8. Halfway(filed, req[u].note, req[u])'
  BY <1>2, <1>5, <1>7 DEF Halfway
<1>9. NoteRowsOK(u)'
  BY <1>5, <1>6, <1>8 DEF NoteRowsOK, ElsewhereNoteOK
<1> QED  BY <1>5, <1>9 DEF Fine, Consistent, NotePcs

LEMMA ReplaceNoteRowsFine ==
  ASSUME Typed, NEW u \in User, Consistent(u), ReplaceNoteRows(u), ~disturbed'
  PROVE  Fine(u)'
<1> USE DEF Typed
<1>0. req[u].pc = "noteRows" /\ "noteRows" \in NotePcs /\ ReplaceStep(u)
  BY DEF ReplaceNoteRows, At, NotePcs, ReplaceStep
<1>1. PICK n \in Note, want \in SUBSET Dir, drop \in SUBSET Dir, add \in SUBSET Dir :
        /\ n = req[u].note /\ want = req[u].want /\ drop = req[u].drop /\ add = req[u].add
        /\ Open(u) /\ ElsewhereNoteOK(n) /\ WantUsed(u) /\ Halfway(filed, n, req[u])
  BY <1>0, FilesOf DEF NoteRowsOK
<1>2. UNCHANGED <<row, sub, readme, spVars>>
  BY DEF ReplaceNoteRows
<1>3. /\ drop \cap want = {} /\ add \subseteq want
      /\ \A p \in Dir : <<p, n>> \in filed <=> p \in drop \/ (p \in want /\ p \notin add)
  BY <1>1 DEF Halfway
<1>4. ASSUME NEW drop2 \in SUBSET Dir, NEW add2 \in SUBSET Dir,
             Edits(u, "noteRows", drop2, add2),
             drop2 \cap want = {}, add2 \subseteq want,
             \A p \in Dir : <<p, n>> \in filed' <=> p \in drop2 \/ (p \in want /\ p \notin add2),
             \A p \in Dir, m \in Note : m # n => (<<p, m>> \in filed' <=> <<p, m>> \in filed)
      PROVE  Fine(u)'
  <2>1. /\ Open(u)' /\ req'[u].pc = "noteRows" /\ req'[u].drop = drop2
        /\ req'[u].add = add2 /\ req'[u].note = n /\ req'[u].want = want
    BY <1>1, <1>4, Edited DEF Pc
  <2>2. ElsewhereNoteOK(n)' /\ WantUsed(u)'
    <3>1. ElsewhereNoteOK(n)'
      BY <1>1, <1>2, <1>4, ElsewhereNoteKept DEF SpOK
    <3> QED  BY <1>1, <1>2, <2>1, <3>1 DEF WantUsed, Used
  <2>3. Halfway(filed, req[u].note, req[u])'
    BY <1>4, <2>1 DEF Halfway
  <2>4. NoteRowsOK(u)'
    BY <2>1, <2>2, <2>3 DEF NoteRowsOK, ElsewhereNoteOK
  <2> QED  BY <2>1, <2>4 DEF Fine, Consistent, NotePcs
<1>5. CASE \E p \in drop : /\ filed' = filed \ {<<p, n>>}
                           /\ req' = [req EXCEPT ![u].drop = @ \ {p}]
  <2>1. PICK p \in drop : /\ filed' = filed \ {<<p, n>>}
                          /\ req' = [req EXCEPT ![u].drop = @ \ {p}]
    BY <1>5
  <2>2. Edits(u, "noteRows", drop \ {p}, add)
    BY <1>0, <1>1, <2>1, OpenRequest DEF Edits, Request
  <2>3. \A q \in Dir : <<q, n>> \in filed' <=> q \in drop \ {p} \/ (q \in want /\ q \notin add)
    BY <1>3, <2>1
  <2>4. (drop \ {p}) \cap want = {} /\ drop \ {p} \in SUBSET Dir
    BY <1>3
  <2> QED  BY <1>3, <1>4, <2>1, <2>2, <2>3, <2>4
<1>6. CASE drop = {} /\ \E p \in add : /\ filed' = filed \cup {<<p, n>>}
                                       /\ req' = [req EXCEPT ![u].add = @ \ {p}]
  <2>1. PICK p \in add : /\ filed' = filed \cup {<<p, n>>}
                         /\ req' = [req EXCEPT ![u].add = @ \ {p}]
    BY <1>6
  <2>2. Edits(u, "noteRows", drop, add \ {p})
    BY <1>0, <1>1, <2>1, OpenRequest DEF Edits, Request
  <2>3. \A q \in Dir : <<q, n>> \in filed' <=> q \in drop \/ (q \in want /\ q \notin add \ {p})
    BY <1>3, <2>1
  <2>4. add \ {p} \in SUBSET Dir /\ add \ {p} \subseteq want
    BY <1>3
  <2> QED  BY <1>3, <1>4, <2>1, <2>2, <2>3, <2>4
<1>7. CASE drop = {} /\ add = {} /\ UNCHANGED filed /\ Goto(u, "unmirrorNote")
  <2>1. Open(u)' /\ req'[u].pc = "unmirrorNote" /\ req'[u].note = n /\ req'[u].want = want
    BY <1>1, <1>7, Went DEF Pc
  <2>2. ElsewhereNoteOK(n)' /\ WantUsed(u)'
    <3>1. ElsewhereNoteOK(n)'
      BY <1>1, <1>2, <1>7, ElsewhereNoteKept DEF SpOK
    <3> QED  BY <1>1, <1>2, <2>1, <3>1 DEF WantUsed, Used
  <2>3. There(filed, req[u].note, req[u])'
    BY <1>3, <1>7, <2>1 DEF There
  <2>4. NoteRowsOK(u)'
    BY <2>1, <2>2, <2>3 DEF NoteRowsOK, ElsewhereNoteOK
  <2> QED  BY <2>1, <2>4 DEF Fine, Consistent, NotePcs
<1>8. ~Raise(u)
  BY DEF Raise
<1> QED  BY <1>1, <1>5, <1>6, <1>7, <1>8 DEF ReplaceNoteRows

LEMMA UnmirrorNoteFine ==
  ASSUME Typed, NEW u \in User, Consistent(u), UnmirrorNote(u)
  PROVE  Fine(u)'
<1> USE DEF Typed
<1>0. req[u].pc = "unmirrorNote" /\ "unmirrorNote" \in NotePcs /\ ReplaceStep(u)
  BY DEF UnmirrorNote, At, NotePcs, ReplaceStep
<1>1. PICK n \in Note, want \in SUBSET Dir, drop \in SUBSET Dir :
        /\ n = req[u].note /\ want = req[u].want /\ drop = req[u].drop
        /\ Open(u) /\ ElsewhereNoteOK(n) /\ WantUsed(u) /\ There(filed, n, req[u])
  BY <1>0, FilesOf DEF NoteRowsOK
<1>2. UNCHANGED <<pgVars, spSub>> /\ spFiled' = {e \in spFiled : e[2] # n}
  BY <1>1 DEF UnmirrorNote
<1>3. Edits(u, "mirrorNotes", drop, want)
  BY <1>0, <1>1, OpenRequest DEF UnmirrorNote, Edits, Request
<1>4. /\ Open(u)' /\ req'[u].pc = "mirrorNotes" /\ req'[u].add = want
      /\ req'[u].note = n /\ req'[u].want = want
  BY <1>1, <1>3, Edited DEF Pc
<1>5. ElsewhereNoteOK(n)' /\ WantUsed(u)'
  <2>1. ElsewhereNoteOK(n)'
    BY <1>1, <1>2, ElsewhereNoteKept DEF SpOK
  <2> QED  BY <1>1, <1>2, <1>4, <2>1 DEF WantUsed, Used
<1>6. There(filed, req[u].note, req[u])'
  BY <1>1, <1>2, <1>4 DEF There
<1>7. \A p \in Dir : <<p, n>> \notin spFiled'
  BY <1>2
<1>8. NoteRowsOK(u)'
  BY <1>4, <1>5, <1>6, <1>7 DEF NoteRowsOK, ElsewhereNoteOK
<1> QED  BY <1>4, <1>8 DEF Fine, Consistent, NotePcs

LEMMA MirrorNotesFine ==
  ASSUME Typed, NEW u \in User, Consistent(u), MirrorNotes(u)
  PROVE  Fine(u)'
<1> USE DEF Typed
<1>0. req[u].pc = "mirrorNotes" /\ "mirrorNotes" \in NotePcs /\ ReplaceStep(u)
  BY DEF MirrorNotes, At, NotePcs, ReplaceStep
<1>1. PICK n \in Note, want \in SUBSET Dir, drop \in SUBSET Dir, add \in SUBSET Dir :
        /\ n = req[u].note /\ want = req[u].want /\ drop = req[u].drop /\ add = req[u].add
        /\ Open(u) /\ ElsewhereNoteOK(n) /\ WantUsed(u) /\ There(filed, n, req[u])
        /\ add \subseteq want
        /\ \A p \in Dir : <<p, n>> \in spFiled <=> p \in want /\ p \notin add
  BY <1>0, FilesOf DEF NoteRowsOK
<1>2. UNCHANGED <<pgVars, spSub>>
  BY DEF MirrorNotes
<1>3. CASE \E p \in add : /\ spFiled' = spFiled \cup {<<p, n>>}
                          /\ req' = [req EXCEPT ![u].add = @ \ {p}]
  <2>1. PICK p \in add : /\ spFiled' = spFiled \cup {<<p, n>>}
                         /\ req' = [req EXCEPT ![u].add = @ \ {p}]
    BY <1>3
  <2>2. Edits(u, "mirrorNotes", drop, add \ {p}) /\ add \ {p} \in SUBSET Dir
    BY <1>0, <1>1, <2>1, OpenRequest DEF Edits, Request
  <2>3. /\ Open(u)' /\ req'[u].pc = "mirrorNotes" /\ req'[u].add = add \ {p}
        /\ req'[u].note = n /\ req'[u].want = want
    BY <1>1, <2>2, Edited DEF Pc
  <2>4. p \in want /\ Used(p)
    BY <1>1 DEF WantUsed
  <2>5. ElsewhereNoteOK(n)' /\ WantUsed(u)'
    <3>1. ElsewhereNoteOK(n)'
      BY <1>1, <1>2, <2>1, <2>4, ElsewhereNoteKept
    <3> QED  BY <1>1, <1>2, <2>3, <3>1 DEF WantUsed, Used
  <2>6. There(filed, req[u].note, req[u])'
    BY <1>1, <1>2, <2>3 DEF There
  <2>7. \A q \in Dir : <<q, n>> \in spFiled' <=> q \in want /\ q \notin add \ {p}
    BY <1>1, <2>1, <2>4
  <2>8. NoteRowsOK(u)'
    BY <1>1, <2>3, <2>5, <2>6, <2>7 DEF NoteRowsOK, ElsewhereNoteOK
  <2> QED  BY <2>3, <2>8 DEF Fine, Consistent, NotePcs
<1>4. CASE add = {} /\ End(u) /\ UNCHANGED spFiled
  <2>1. ~Open(u)'
    BY <1>1, <1>4 DEF End, Open, ReqsOK
  <2>2. \A p \in Dir : <<p, n>> \in spFiled <=> <<p, n>> \in filed
    BY <1>1, <1>4 DEF There
  <2>3. FiledAgree(None)
    BY <1>1, <2>2 DEF ElsewhereNoteOK, FiledAgree
  <2>4. RestOK
    BY <1>1, <2>3 DEF ElsewhereNoteOK, RestOK
  <2>5. RestOK'
    BY <1>2, <1>4, <2>4 DEF RestOK, TuplesUsed, SubAgree, NoDead, FiledAgree, Used, Live
  <2> QED  BY <2>1, <2>5 DEF Fine
<1> QED  BY <1>1, <1>3, <1>4 DEF MirrorNotes

\* The statements of delete_directory.  A row that goes takes its rows along, and is
\* the parent of no live directory.
LEMMA RestAfterDelete ==
  ASSUME Typed, RestOK, NEW x \in Dir \cup Note, DeleteRow(x), UNCHANGED <<spSub, spFiled>>,
         \A c \in Dir : <<x, c>> \in spSub /\ Live(c) => c = x
  PROVE  RestOK'
<1> USE DEF Typed
<1>1. /\ row'[x] # "live"
      /\ \A y \in Dir \cup Note : y # x => row'[y] = row[y]
      /\ \A y \in Dir \cup Note : Used(y) => Used(y)'
  BY DEF DeleteRow, PgOK, Used
<1>2. /\ \A y \in Dir \cup Note : Live(y)' => Live(y) /\ y # x
      /\ \A y \in Dir \cup Note : Live(y) /\ y # x => Live(y)'
  BY <1>1 DEF Live
<1>3. TuplesUsed'
  BY <1>1 DEF RestOK, TuplesUsed, SpOK
<1>4. SubAgree(None)'
  BY <1>2 DEF RestOK, SubAgree, DeleteRow
<1>5. NoDead(None)'
  <2>1. ASSUME NEW p \in Dir, NEW c \in Dir, <<p, c>> \in spSub, Live(c)' PROVE Live(p)'
    <3>1. Live(c) /\ c # x /\ Live(p) /\ p # x
      BY <1>2, <2>1, IdsAssumption DEF RestOK, NoDead
    <3> QED  BY <1>2, <3>1
  <2> QED  BY <2>1 DEF NoDead
<1>6. FiledAgree(None)'
  <2>1. ASSUME NEW p \in Dir, NEW n \in Note
        PROVE  /\ <<p, n>> \in filed' => <<p, n>> \in spFiled
               /\ <<p, n>> \in spFiled /\ <<p, n>> \notin filed' /\ Live(p)' /\ Live(n)'
                    => readme'[p] = n
    <3>1. n # None
      BY IdsAssumption
    <3>2. <<p, n>> \in filed' => <<p, n>> \in spFiled
      BY <3>1 DEF RestOK, FiledAgree, DeleteRow
    <3>3. ASSUME <<p, n>> \in spFiled, <<p, n>> \notin filed', Live(p)', Live(n)'
          PROVE  readme'[p] = n
      <4>1. p # x /\ n # x /\ Live(p) /\ Live(n)
        BY <1>2, <3>3
      <4>2. readme[p] = n
        BY <3>1, <3>3, <4>1 DEF RestOK, FiledAgree, DeleteRow
      <4> QED  BY <4>1, <4>2 DEF DeleteRow, PgOK
    <3> QED  BY <3>2, <3>3
  <2> QED  BY <2>1 DEF FiledAgree
<1> QED  BY <1>3, <1>4, <1>5, <1>6 DEF RestOK

\* Rows that go do not disturb what the calls have found.
LEMMA FrameKept ==
  ASSUME UNCHANGED <<spSub, spFiled>>, \A c \in Dir : Live(c)' => Live(c),
         NEW stack, NEW i, FrameOK(stack, i)
  PROVE  FrameOK(stack, i)'
<1>1. \A d : Reach(d)' = Reach(d)
  BY DEF Reach
<1> QED  BY <1>1 DEF FrameOK, Parents

\* What a call finds below its directory is below the directory of the first call.
LEMMA ResolvedInReach ==
  ASSUME Typed, NEW root \in Dir, NEW d \in Dir, d \in Reach(root)
  PROVE  /\ Subtree(d) \subseteq Reach(root)
         /\ \A c \in Dir : <<d, c>> \in spSub => c \in Subtree(d)
         /\ \A n \in ExclusiveNotes(Subtree(d)) : Parents(spFiled, n) \subseteq Reach(root)
<1> USE DEF Typed
<1>1. MaxDepth \in Nat \ {0}
  BY BoundsAssumption
<1>2. Subtree(d) \subseteq Reach(root)
  <2>1. Below(spSub, d, MaxDepth) \subseteq Dir
    <3>1. \A e \in spSub : e[1] \in Dir => e[2] \in Dir
      BY DEF SpOK
    <3> QED  BY <1>1, <3>1, BelowInClosed
  <2>2. ASSUME NEW K \in SUBSET Dir, root \in K, \A e \in spSub : e[1] \in K => e[2] \in K
        PROVE  Below(spSub, d, MaxDepth) \subseteq K
    <3>1. d \in K
      BY <2>2 DEF Reach
    <3> QED  BY <1>1, <2>2, <3>1, BelowInClosed
  <2>3. ASSUME NEW x \in Below(spSub, d, MaxDepth) PROVE x \in Reach(root)
    BY <2>1, <2>2, <2>3 DEF Reach
  <2> QED  BY <2>3 DEF Subtree
<1>3. ASSUME NEW c \in Dir, <<d, c>> \in spSub PROVE c \in Subtree(d)
  <2>1. <<d, c>>[1] \in {d} /\ <<d, c>>[2] = c
    OBVIOUS
  <2>2. c \in Children(spSub, {d})
    BY <1>3, <2>1 DEF Children
  <2> QED  BY <1>1, <2>2, BelowHasChildren DEF Subtree
<1> QED  BY <1>2, <1>3 DEF ExclusiveNotes

LEMMA CascadeAt ==
  ASSUME Typed, NEW u \in User, Consistent(u), DeleteStep(u)
  PROVE  RestOK /\ CallsOK(req[u].pc, req[u].stack) /\ Open(u)
BY ConsistentAt, DeleteAt DEF CascadeOK, Typed

LEMMA ResolveFine ==
  ASSUME Typed, NEW u \in User, Consistent(u), Resolve(u), ~disturbed'
  PROVE  Fine(u)'
<1> USE DEF Typed
<1>1. PICK s \in Seq(Frame) : s = req[u].stack /\ s # <<>> /\ Len(s) \in Nat \ {0} /\ Open(u)
        /\ Top(u) = s[1] /\ s[1] \in Frame
  BY DeleteAt DEF DeleteStep
<1>2. RestOK /\ CallsOK("resolve", s)
  BY <1>1, CascadeAt DEF DeleteStep, Resolve, At
<1>3. PICK d \in Dir, root \in Dir : d = s[1].dir /\ root = s[Len(s)].dir /\ d \in Reach(root)
  <2>1. 1 \in 1..Len(s) /\ Len(s) \in 1..Len(s)
    BY <1>1
  <2>2. s[1] \in Frame /\ s[Len(s)] \in Frame
    BY <1>1, <2>1, StackFacts
  <2>3. s[1].dir \in Dir /\ s[Len(s)].dir \in Dir
    BY <2>2 DEF Frame
  <2>4. s[1].dir \in Reach(s[Len(s)].dir)
    BY <1>2, <2>1 DEF CallsOK
  <2> QED  BY <2>3, <2>4
<1>4. PICK f \in Frame : f = [dir |-> d, notes |-> ExclusiveNotes(Subtree(d)),
                              subs |-> Subtree(d) \ {d}]
  BY Resolved
<1>5. f.dir = d /\ f.notes = ExclusiveNotes(Subtree(d)) /\ f.subs = Subtree(d) \ {d}
  BY <1>4
<1>6. PICK t \in Seq(Frame) : /\ t = <<f>> \o Tail(s) /\ Len(t) = Len(s)
                              /\ \A i \in 1..Len(s) : t[i] = IF i = 1 THEN f ELSE s[i]
  <2> DEFINE new == <<f>> \o Tail(s)
  <2>1. /\ new \in Seq(Frame) /\ Len(new) = Len(s)
        /\ \A i \in 1..Len(s) : new[i] = IF i = 1 THEN f ELSE s[i]
    BY <1>1, StackReplaced
  <2> HIDE DEF new
  <2>2. new = <<f>> \o Tail(s)
    BY DEF new
  <2> QED  BY <2>1, <2>2
<1>7. Stacks(u, "cascade", t) /\ UNCHANGED <<pgVars, spVars>>
  <2>1. req' = [req EXCEPT ![u].pc = "cascade", ![u].stack = <<f>> \o Tail(@)]
        /\ UNCHANGED <<pgVars, spVars>>
    BY <1>1, <1>3, <1>4 DEF Resolve, Raise
  <2>2. req[u] \in Request
    BY <1>1, OpenRequest
  <2> QED  BY <1>1, <1>6, <2>1, <2>2 DEF Stacks, Request
<1>8. Open(u)' /\ req'[u].pc = "cascade" /\ req'[u].stack = t
  BY <1>1, <1>7, Piled DEF Pc
<1>9. RestOK'
  BY <1>2, <1>7 DEF RestOK, TuplesUsed, SubAgree, NoDead, FiledAgree, Used, Live
<1>10. /\ Len(t) \in 1..Len(s)
       /\ \A i \in 1..Len(t) : i \in 1..Len(s) /\ t[i].dir = s[i].dir
  BY <1>1, <1>3, <1>5, <1>6
<1>11. t[Len(t)].dir = root
  BY <1>1, <1>3, <1>6, <1>10
<1>12. FrameOK(t, 1)
  <2>1. t[1] = f
    BY <1>1, <1>6
  <2> QED  BY <1>3, <1>5, <1>11, <2>1, ResolvedInReach DEF FrameOK
<1>13. ASSUME NEW i \in 1..Len(t), i # 1 PROVE FrameOK(t, i)
  <2>1. FrameOK(s, i)
    BY <1>2, <1>10, <1>13 DEF CallsOK
  <2>2. t[i] = s[i] /\ i - 1 \in 1..Len(t) /\ i > 1
    BY <1>1, <1>6, <1>10, <1>13
  <2>3. t[i - 1].dir = s[i - 1].dir
    BY <1>10, <2>2
  <2> QED  BY <1>3, <1>11, <2>1, <2>2, <2>3 DEF FrameOK
<1>14. CallsOK("cascade", t)
  BY <1>2, <1>3, <1>10, <1>11, <1>12, <1>13 DEF CallsOK
<1>15. CallsOK("cascade", t)'
  <2>1. \A e : Reach(e)' = Reach(e) /\ Live(e)' = Live(e)
    BY <1>7 DEF Reach, Live, pgVars, spVars
  <2>2. \A n : Parents(spFiled, n)' = Parents(spFiled, n)
    BY <1>7 DEF spVars
  <2>3. \A i \in 1..Len(t) : FrameOK(t, i) => FrameOK(t, i)'
    BY <1>7, <2>1, <2>2 DEF FrameOK, spVars
  <2> QED  BY <1>14, <2>1, <2>3 DEF CallsOK
<1> QED  BY <1>8, <1>9, <1>15 DEF Fine, Consistent, CascadeOK, DeletePcs

LEMMA CascadeNoteFine ==
  ASSUME Typed, NEW u \in User, Consistent(u), CascadeNote(u)
  PROVE  Fine(u)'
<1> USE DEF Typed
<1>1. PICK s \in Seq(Frame) : s = req[u].stack /\ s # <<>> /\ Len(s) \in Nat \ {0} /\ Open(u)
        /\ Top(u) = s[1] /\ s[1] \in Frame
  BY DeleteAt DEF DeleteStep
<1>2. RestOK /\ CallsOK("cascade", s)
  BY <1>1, CascadeAt DEF DeleteStep, CascadeNote, At
<1>3. PICK n \in s[1].notes : /\ IF MayNote(u, n) THEN DeleteRow(n) ELSE UNCHANGED pgVars
                              /\ SetTop(u, [s[1] EXCEPT !.notes = @ \ {n}])
  BY <1>1 DEF CascadeNote
<1>4. n \in Note /\ UNCHANGED spVars
  BY <1>1, <1>3 DEF Frame, CascadeNote
<1>5. PICK f \in Frame : /\ f = [s[1] EXCEPT !.notes = @ \ {n}] /\ f.dir = s[1].dir
                         /\ f.subs = s[1].subs /\ f.notes = s[1].notes \ {n}
  <2> DEFINE new == [s[1] EXCEPT !.notes = @ \ {n}]
  <2>1. new \in Frame /\ new.dir = s[1].dir /\ new.subs = s[1].subs
        /\ new.notes = s[1].notes \ {n}
    BY <1>1 DEF Frame
  <2> HIDE DEF new
  <2> QED  BY <2>1 DEF new
<1>6. PICK t \in Seq(Frame) : /\ t = <<f>> \o Tail(s) /\ Len(t) = Len(s)
                              /\ \A i \in 1..Len(s) : t[i] = IF i = 1 THEN f ELSE s[i]
  <2> DEFINE new == <<f>> \o Tail(s)
  <2>1. /\ new \in Seq(Frame) /\ Len(new) = Len(s)
        /\ \A i \in 1..Len(s) : new[i] = IF i = 1 THEN f ELSE s[i]
    BY <1>1, StackReplaced
  <2> HIDE DEF new
  <2>2. new = <<f>> \o Tail(s)
    BY DEF new
  <2> QED  BY <2>1, <2>2
<1>7. Stacks(u, "cascade", t)
  <2>1. req[u] \in Request /\ req[u].pc = "cascade"
    BY <1>1, OpenRequest DEF CascadeNote, At
  <2>2. req' = [req EXCEPT ![u].stack = t]
    BY <1>1, <1>3, <1>5, <1>6 DEF SetTop
  <2> QED  BY <2>1, <2>2 DEF Stacks, Request
<1>8. Open(u)' /\ req'[u].pc = "cascade" /\ req'[u].stack = t
  BY <1>1, <1>7, Piled DEF Pc
<1>9. RestOK' /\ \A c \in Dir : Live(c)' => Live(c)
  <2>1. CASE DeleteRow(n)
    <3>1. RestOK'
      <4>1. \A c \in Dir : <<n, c>> \notin spSub
        BY <1>4, IdsAssumption DEF SpOK
      <4> QED  BY <1>2, <1>4, <2>1, <4>1, RestAfterDelete
    <3>2. \A c \in Dir : Live(c)' => Live(c)
      BY <2>1 DEF DeleteRow, Live, PgOK
    <3> QED  BY <3>1, <3>2
  <2>2. CASE UNCHANGED pgVars
    BY <1>2, <1>4, <2>2 DEF RestOK, TuplesUsed, SubAgree, NoDead, FiledAgree, Used, Live
  <2> QED  BY <1>3, <2>1, <2>2
<1>10. /\ Len(t) \in 1..Len(s) /\ Len(t) \in Nat
       /\ \A i \in 1..Len(t) : /\ i \in 1..Len(s) /\ t[i].dir = s[i].dir
                               /\ t[i].subs = s[i].subs /\ t[i].notes \subseteq s[i].notes
  <2>1. Len(t) \in 1..Len(s) /\ Len(t) \in Nat /\ 1..Len(t) = 1..Len(s)
    BY <1>1, <1>6
  <2>2. ASSUME NEW i \in 1..Len(s)
        PROVE  t[i].dir = s[i].dir /\ t[i].subs = s[i].subs /\ t[i].notes \subseteq s[i].notes
    <3>1. CASE i = 1
      BY <1>5, <1>6, <3>1
    <3>2. CASE i # 1
      BY <1>6, <3>2
    <3> QED  BY <3>1, <3>2
  <2> QED  BY <2>1, <2>2
<1>11. t[Len(t)].dir = s[Len(s)].dir
  BY <1>6, <1>10
<1>12. ASSUME NEW i \in 1..Len(t) PROVE FrameOK(t, i)
  <2>1. FrameOK(s, i)
    BY <1>2, <1>10 DEF CallsOK
  <2>2. i > 1 => t[i - 1].dir = s[i - 1].dir
    BY <1>10
  <2> QED  BY <1>10, <1>11, <2>1, <2>2 DEF FrameOK
<1>13. CallsOK("cascade", t)'
  <2>1. ASSUME NEW i \in 1..Len(t) PROVE FrameOK(t, i)'
    BY <1>4, <1>9, <1>12, FrameKept
  <2>2. \A i \in 1..Len(t) : t[i].dir \in Reach(t[Len(t)].dir)'
    BY <1>2, <1>4, <1>10, <1>11 DEF CallsOK, Reach
  <2> QED  BY <2>1, <2>2 DEF CallsOK
<1> QED  BY <1>8, <1>9, <1>13 DEF Fine, Consistent, CascadeOK, DeletePcs

LEMMA CascadeSubFine ==
  ASSUME Typed, NEW u \in User, Consistent(u), CascadeSub(u), ~disturbed'
  PROVE  Fine(u)'
<1> USE DEF Typed
<1>1. PICK s \in Seq(Frame) : s = req[u].stack /\ s # <<>> /\ Len(s) \in Nat \ {0} /\ Open(u)
        /\ Top(u) = s[1] /\ s[1] \in Frame
  BY DeleteAt DEF DeleteStep
<1>2. RestOK /\ CallsOK("cascade", s)
  BY <1>1, CascadeAt DEF DeleteStep, CascadeSub, At
<1>3. PICK c \in s[1].subs :
        req' = [req EXCEPT ![u].pc = "resolve",
                  ![u].stack = <<Call(c), [s[1] EXCEPT !.subs = @ \ {c}]>> \o Tail(@)]
  BY <1>1 DEF CascadeSub, Raise
<1>4. c \in Dir /\ UNCHANGED <<pgVars, spVars>>
  BY <1>1, <1>3 DEF Frame, CascadeSub
<1>5. PICK f \in Frame : /\ f = [s[1] EXCEPT !.subs = @ \ {c}] /\ f.dir = s[1].dir
                         /\ f.subs = s[1].subs \ {c} /\ f.notes = s[1].notes
  <2> DEFINE new == [s[1] EXCEPT !.subs = @ \ {c}]
  <2>1. new \in Frame /\ new.dir = s[1].dir /\ new.subs = s[1].subs \ {c}
        /\ new.notes = s[1].notes
    BY <1>1 DEF Frame
  <2> HIDE DEF new
  <2> QED  BY <2>1 DEF new
<1>6. PICK g \in Frame : g = Call(c) /\ g.dir = c
  <2>1. Call(c) \in Frame /\ Call(c).dir = c
    BY <1>4 DEF Call, Frame
  <2> QED  BY <2>1
<1>7. PICK t \in Seq(Frame) :
        /\ t = <<g, f>> \o Tail(s) /\ Len(t) = Len(s) + 1
        /\ \A i \in 1..Len(s) + 1 : t[i] = IF i = 1 THEN g ELSE IF i = 2 THEN f ELSE s[i - 1]
  <2> DEFINE new == <<g, f>> \o Tail(s)
  <2>1. /\ new \in Seq(Frame) /\ Len(new) = Len(s) + 1
        /\ \A i \in 1..Len(s) + 1 : new[i] = IF i = 1 THEN g ELSE IF i = 2 THEN f ELSE s[i - 1]
    BY <1>1, StackPushed
  <2> HIDE DEF new
  <2>2. new = <<g, f>> \o Tail(s)
    BY DEF new
  <2> QED  BY <2>1, <2>2
<1>8. Stacks(u, "resolve", t)
  <2>1. req[u] \in Request
    BY <1>1, OpenRequest
  <2>2. t = <<Call(c), [s[1] EXCEPT !.subs = @ \ {c}]>> \o Tail(req[u].stack)
    BY <1>1, <1>5, <1>6, <1>7
  <2>3. req' = [req EXCEPT ![u] = [req[u] EXCEPT !.pc = "resolve",
                  !.stack = <<Call(c), [s[1] EXCEPT !.subs = @ \ {c}]>> \o Tail(req[u].stack)]]
    BY <1>3, <2>1 DEF Request
  <2> QED  BY <2>2, <2>3 DEF Stacks
<1>9. Open(u)' /\ req'[u].pc = "resolve" /\ req'[u].stack = t
  BY <1>1, <1>8, Piled DEF Pc
<1>10. RestOK'
  BY <1>2, <1>4 DEF RestOK, TuplesUsed, SubAgree, NoDead, FiledAgree, Used, Live
<1>11. PICK k \in Nat \ {0} : k = Len(s) /\ Len(t) = k + 1
  BY <1>1, <1>7
<1>12. /\ t[1].dir = c
       /\ \A i \in 1..Len(t) : i > 1 => /\ i - 1 \in 1..Len(s) /\ t[i].dir = s[i - 1].dir
                                        /\ t[i].notes = s[i - 1].notes
                                        /\ t[i].subs \subseteq s[i - 1].subs
  <2>1. t[1] = g
    BY <1>7, <1>11
  <2>2. ASSUME NEW i \in 1..Len(t), i > 1
        PROVE  /\ i - 1 \in 1..Len(s) /\ t[i].dir = s[i - 1].dir
               /\ t[i].notes = s[i - 1].notes /\ t[i].subs \subseteq s[i - 1].subs
    <3>1. i - 1 \in 1..Len(s) /\ i \in 1..Len(s) + 1
      BY <1>11, <2>2
    <3>2. CASE i = 2
      <4>1. t[i] = f /\ s[i - 1] = s[1]
        BY <1>7, <3>1, <3>2
      <4> QED  BY <1>5, <3>1, <4>1
    <3>3. CASE i # 2
      <4>1. t[i] = s[i - 1]
        BY <1>7, <2>2, <3>1, <3>3
      <4> QED  BY <3>1, <4>1
    <3> QED  BY <3>2, <3>3
  <2> QED  BY <1>6, <2>1, <2>2
<1>13. PICK root \in Dir : root = s[Len(s)].dir /\ t[Len(t)].dir = root
  <2>1. Len(s) \in 1..Len(s) /\ Len(t) \in 1..Len(t) /\ Len(t) > 1 /\ Len(t) - 1 = Len(s)
    BY <1>11
  <2>2. s[Len(s)] \in Frame
    BY <1>1, <2>1, StackFacts
  <2>3. s[Len(s)].dir \in Dir
    BY <2>2 DEF Frame
  <2> QED  BY <1>12, <2>1, <2>3
<1>14. FrameOK(s, 1) /\ 1 \in 1..Len(s)
  BY <1>2, <1>11 DEF CallsOK
<1>15. ASSUME NEW i \in 1..Len(t) PROVE t[i].dir \in Reach(root)
  <2>1. CASE i = 1
    BY <1>3, <1>12, <1>13, <1>14, <2>1 DEF FrameOK
  <2>2. CASE i # 1
    <3>1. i > 1
      BY <1>11, <2>2
    <3> QED  BY <1>2, <1>12, <1>13, <3>1 DEF CallsOK
  <2> QED  BY <2>1, <2>2
<1>16. ASSUME NEW i \in 1..Len(t), i > 1 PROVE FrameOK(t, i)
  <2>1. FrameOK(s, i - 1) /\ i - 1 \in 1..Len(t)
    BY <1>2, <1>11, <1>12, <1>16 DEF CallsOK
  <2>2. CASE i = 2
    <3>1. t[i] = f /\ s[i - 1] = s[1] /\ t[i - 1].dir = c
      BY <1>7, <1>11, <1>12, <2>2
    <3>2. ASSUME NEW x \in Dir, <<t[i].dir, x>> \in spSub, Live(x)
          PROVE  x \in t[i].subs \/ x = t[i].dir \/ x = t[i - 1].dir
      BY <1>5, <1>14, <3>1, <3>2 DEF FrameOK
    <3> QED  BY <1>12, <1>13, <1>16, <2>1, <3>2 DEF FrameOK
  <2>3. CASE i # 2
    <3>1. t[i] = s[i - 1] /\ i - 1 > 1
      BY <1>7, <1>11, <1>16, <2>3
    <3>2. t[i - 1].dir = s[(i - 1) - 1].dir
      BY <1>12, <2>1, <3>1
    <3> QED  BY <1>13, <1>16, <2>1, <3>1, <3>2 DEF FrameOK
  <2> QED  BY <2>2, <2>3
<1>17. CallsOK("resolve", t)
  BY <1>13, <1>15, <1>16 DEF CallsOK
<1>18. CallsOK("resolve", t)'
  <2>1. ASSUME NEW i \in 1..Len(t), i > 1 PROVE FrameOK(t, i)'
    BY <1>4, <1>16, <2>1, FrameKept DEF Live
  <2>2. \A i \in 1..Len(t) : t[i].dir \in Reach(t[Len(t)].dir)'
    BY <1>4, <1>17 DEF CallsOK, Reach
  <2> QED  BY <2>1, <2>2 DEF CallsOK
<1> QED  BY <1>9, <1>10, <1>18 DEF Fine, Consistent, CascadeOK, DeletePcs

LEMMA CascadeRowFine ==
  ASSUME Typed, NEW u \in User, Consistent(u), CascadeRow(u)
  PROVE  Fine(u)'
<1> USE DEF Typed
<1>1. PICK s \in Seq(Frame) : s = req[u].stack /\ s # <<>> /\ Len(s) \in Nat \ {0} /\ Open(u)
        /\ Top(u) = s[1] /\ s[1] \in Frame
  BY DeleteAt DEF DeleteStep
<1>2. RestOK /\ CallsOK("cascade", s)
  BY <1>1, CascadeAt DEF DeleteStep, CascadeRow, At
<1>3. PICK d \in Dir : d = s[1].dir /\ DeleteRow(d) /\ s[1].subs = {} /\ UNCHANGED spVars
  BY <1>1 DEF CascadeRow, Frame
<1>4. PICK k \in Nat \ {0} : k = Len(s)
  BY <1>1
<1>5. FrameOK(s, 1)
  BY <1>2, <1>4 DEF CallsOK
<1>6. RestOK'
  <2>1. \A c \in Dir : <<d, c>> \in spSub /\ Live(c) => c = d
    BY <1>3, <1>5 DEF FrameOK
  <2> QED  BY <1>2, <1>3, <2>1, RestAfterDelete
<1>7. (\A c \in Dir : Live(c)' => Live(c)) /\ ~Live(d)'
  BY <1>3 DEF DeleteRow, Live, PgOK
<1>8. CASE End(u)
  <2>1. ~Open(u)'
    BY <1>1, <1>8 DEF End, Open, ReqsOK
  <2> QED  BY <1>6, <2>1 DEF Fine
<1>9. CASE ~End(u)
  <2>1. k # 1 /\ req' = [req EXCEPT ![u].stack = Tail(@)] /\ req[u].pc = "cascade"
    BY <1>1, <1>4, <1>9 DEF CascadeRow, At
  <2>2. PICK t \in Seq(Frame) : /\ t = Tail(s) /\ Len(t) = k - 1
                                /\ \A i \in 1..k - 1 : t[i] = s[i + 1]
    BY <1>1, <1>4, StackFacts
  <2>3. Stacks(u, "cascade", t)
    <3>1. req[u] \in Request
      BY <1>1, OpenRequest
    <3>2. [req[u] EXCEPT !.stack = Tail(s)] = [req[u] EXCEPT !.pc = "cascade", !.stack = Tail(s)]
      BY <2>1, <3>1 DEF Request
    <3>3. req' = [req EXCEPT ![u] = [req[u] EXCEPT !.stack = Tail(s)]]
      BY <1>1, <2>1
    <3> QED  BY <2>2, <3>2, <3>3 DEF Stacks
  <2>4. Open(u)' /\ req'[u].pc = "cascade" /\ req'[u].stack = t
    BY <1>1, <2>3, Piled DEF Pc
  <2>5. t[Len(t)] = s[Len(s)] /\ \A i \in 1..Len(t) : i + 1 \in 1..Len(s) /\ t[i] = s[i + 1]
    BY <1>4, <2>1, <2>2
  <2>6. ASSUME NEW i \in 1..Len(t) PROVE FrameOK(t, i)'
    <3>1. FrameOK(s, i + 1)
      BY <1>2, <2>5 DEF CallsOK
    <3>2. FrameOK(s, i + 1)'
      BY <1>3, <1>7, <3>1, FrameKept
    <3>3. CASE i = 1
      <4>1. s[(i + 1) - 1].dir = d
        BY <1>3, <3>3
      <4> QED  BY <1>7, <2>5, <3>2, <3>3, <4>1 DEF FrameOK
    <3>4. CASE i # 1
      <4>1. i > 1 /\ i + 1 > 1 /\ i - 1 \in 1..Len(t) /\ (i - 1) + 1 = (i + 1) - 1
        BY <3>4
      <4>2. t[i - 1] = s[(i + 1) - 1]
        BY <2>5, <4>1
      <4> QED  BY <2>5, <3>2, <4>1, <4>2 DEF FrameOK
    <3> QED  BY <3>3, <3>4
  <2>7. \A i \in 1..Len(t) : t[i].dir \in Reach(t[Len(t)].dir)'
    BY <1>2, <1>3, <2>5 DEF CallsOK, Reach
  <2>8. CallsOK("cascade", t)'
    BY <2>6, <2>7 DEF CallsOK
  <2> QED  BY <1>6, <2>4, <2>8 DEF Fine, Consistent, CascadeOK, DeletePcs
<1> QED  BY <1>8, <1>9

\* Undisturbed, a step takes the one open request from a consistent point to the next.
LEMMA ContinueFine ==
  ASSUME Typed, NEW u \in User, Consistent(u), Continue(u), ~disturbed'
  PROVE  Fine(u)'
BY InsertDirFine, InsertOwnerFine, InsertNoteFine, FileNoteFine, MirrorNoteFine,
   InsertNoteOwnerFine, BindReadmeFine, BindTupleFine, ReadParentsFine, MirrorFine,
   CycleCheckFine, ReplaceRowsFine, ReadNoteRowsFine, ReplaceNoteRowsFine, UnmirrorNoteFine,
   MirrorNotesFine, ResolveFine, CascadeNoteFine, CascadeSubFine, CascadeRowFine DEF Continue

LEMMA ContinueOpen ==
  ASSUME Typed, NEW u \in User, Continue(u)
  PROVE  Open(u) /\ (disturbed => disturbed')
<1>1. Open(u)
  BY ContinueSorted, CreateGoes, ReplaceAt, DeleteAt DEF Typed
<1>2. CASE End(u) \/ Raise(u) \/ UNCHANGED histVars
  BY <1>1, <1>2 DEF End, Raise
<1> QED  BY <1>1, <1>2, ContinueSorted, CreateGoes, ReplaceGoes, DeleteGoes DEF Typed, WritesOn

LEMMA StoresStep == Typed /\ StoresInv /\ [DirectoryNext]_dirVars => StoresInv'
<1> USE DEF Typed
<1> SUFFICES ASSUME Typed, StoresInv, [DirectoryNext]_dirVars, ~disturbed'
             PROVE  /\ \A u, v \in User : Open(u)' /\ Open(v)' => u = v
                    /\ Calm' => RestOK'
                    /\ \A u \in User : Open(u)' => Consistent(u)'
  BY DEF StoresInv
<1>1. CASE UNCHANGED dirVars
  <2>1. /\ TuplesUsed' = TuplesUsed /\ \A d : Reach(d)' = Reach(d)
        /\ \A x : SubAgree(x)' = SubAgree(x) /\ NoDead(x)' = NoDead(x)
                 /\ FiledAgree(x)' = FiledAgree(x) /\ Used(x)' = Used(x) /\ Live(x)' = Live(x)
    BY <1>1 DEF dirVars, TuplesUsed, SubAgree, NoDead, FiledAgree, Used, Live, Reach
  <2>2. ASSUME NEW u \in User, Consistent(u) PROVE Consistent(u)'
    <3>1. InsertDirOK(u) => InsertDirOK(u)'
      BY <1>1, <2>1 DEF dirVars, InsertDirOK, RestOK, WantUsed
    <3>2. Making(u) => Making(u)'
      BY <1>1 DEF dirVars, Making, NoneFiled
    <3>3. ReplaceOK(u) => ReplaceOK(u)'
      BY <1>1, <2>1, <3>2 DEF dirVars, ReplaceOK, WantUsed, Halfway, There
    <3>4. OwnerOK(u) => OwnerOK(u)'
      BY <1>1, <2>1, <3>2 DEF dirVars, OwnerOK, RestOK, NoneFiled
    <3>5. ReadmeOK(u) => ReadmeOK(u)'
      BY <1>1, <2>1 DEF dirVars, ReadmeOK, NoneLive, AllFiled
    <3>6. NoteRowsOK(u) => NoteRowsOK(u)'
      BY <1>1, <2>1 DEF dirVars, NoteRowsOK, WantUsed, Halfway, There
    <3>7. CascadeOK(u) => CascadeOK(u)'
      BY <1>1, <2>1 DEF dirVars, CascadeOK, RestOK, CallsOK, FrameOK, Parents
    <3> QED  BY <1>1, <2>2, <3>1, <3>3, <3>4, <3>5, <3>6, <3>7 DEF dirVars, Consistent, At
  <2> QED  BY <1>1, <2>1, <2>2 DEF dirVars, StoresInv, Calm, Open, RestOK
<1>2. ASSUME NEW u \in User, StepOf(u)
      PROVE  /\ \A v, w \in User : Open(v)' /\ Open(w)' => v = w
             /\ Calm' => RestOK'
             /\ \A v \in User : Open(v)' => Consistent(v)'
  <2>1. ~Fail(u)
    BY DEF Fail, Raise
  <2>2. ~disturbed
    BY <1>2, <2>1, ContinueOpen DEF StepOf, BeginRequest, BeginCreate, BeginList, BeginPatch,
       BeginFile, DeleteNote, BeginDelete, Begin
  <2>3. \A v \in User \ {u} : ~Open(v)
    <3>1. CASE BeginRequest(u)
      BY <3>1 DEF BeginRequest, BeginCreate, BeginList, BeginPatch, BeginFile, DeleteNote,
         BeginDelete, Begin, Calm
    <3>2. CASE Continue(u)
      BY <2>2, <3>2, ContinueOpen DEF StoresInv
    <3> QED  BY <1>2, <2>1, <3>1, <3>2 DEF StepOf
  <2>4. \A v \in User \ {u} : ~Open(v)'
    BY <1>2, <2>3, OthersWait DEF Open
  <2>5. Fine(u)'
    <3>1. CASE \E n \in Note : DeleteNote(u, n)
      <4>1. PICK n \in Note : DeleteNote(u, n)
        BY <3>1
      <4>2. Calm /\ ~Open(u)' /\ DeleteRow(n) /\ UNCHANGED spVars
        BY <4>1 DEF DeleteNote, Open
      <4>3. \A c \in Dir : <<n, c>> \notin spSub
        BY IdsAssumption DEF SpOK
      <4>4. RestOK'
        BY <2>2, <4>2, <4>3, RestAfterDelete DEF StoresInv
      <4> QED  BY <4>2, <4>4 DEF Fine
    <3>2. CASE BeginRequest(u) /\ ~\E n \in Note : DeleteNote(u, n)
      <4>1. ~Open(u) /\ Open(u)'
        <5>1. ASSUME NEW pc \in Pc, NEW d, NEW n, NEW want, NEW stack,
                     Begin(u, pc, d, n, want, stack)
              PROVE  ~Open(u) /\ Open(u)'
          BY <5>1, Begun DEF Begin
        <5>2. {"insertDir", "insertNote", "readParents", "readNoteRows", "resolve"} \subseteq Pc
          BY DEF Pc
        <5> QED  BY <3>2, <5>1, <5>2 DEF BeginRequest, BeginCreate, BeginList, BeginPatch,
                 BeginFile, BeginDelete
      <4>2. RestOK
        BY <2>2, <2>3, <4>1 DEF StoresInv, Calm
      <4>3. req'[u] # req[u]
        BY <4>1 DEF Open
      <4> QED  BY <3>2, <4>1, <4>2, <4>3, BeginsFine DEF Fine
    <3>3. CASE Continue(u)
      BY <2>2, <3>3, ContinueOpen, ContinueFine DEF StoresInv
    <3> QED  BY <1>2, <2>1, <3>1, <3>2, <3>3 DEF StepOf
  <2> QED  BY <2>4, <2>5 DEF Fine, Calm
<1> QED  BY <1>1, <1>2 DEF DirectoryNext, StepOf

LEMMA StoresInit == DirectoryInit => StoresInv
BY DEF DirectoryInit, StoresInv, Calm, Open, RestOK, TuplesUsed, SubAgree, NoDead, FiledAgree

LEMMA RestAgrees ==
  ASSUME Typed, RestOK
  PROVE  /\ sub = {e \in spSub : Live(e[1]) /\ Live(e[2])}
         /\ filed \subseteq spFiled
         /\ \A e \in {f \in spFiled : Live(f[1]) /\ Live(f[2])} \ filed : readme[e[1]] = e[2]
         /\ \A e \in spSub : Live(e[2]) => Live(e[1])
<1> USE DEF Typed
<1>1. ASSUME NEW e \in Dir \X Dir PROVE e \in sub <=> e \in spSub /\ Live(e[1]) /\ Live(e[2])
  <2>1. e = <<e[1], e[2]>> /\ e[1] \in Dir /\ e[2] \in Dir /\ e[2] # None
    BY IdsAssumption
  <2>2. e \in sub => Live(e[1]) /\ Live(e[2])
    BY DEF PgOK, Live
  <2>3. Live(e[1]) /\ Live(e[2]) => (e \in sub <=> e \in spSub)
    BY <2>1 DEF RestOK, SubAgree
  <2> QED  BY <2>2, <2>3
<1>2. sub = {e \in spSub : Live(e[1]) /\ Live(e[2])}
  BY <1>1 DEF PgOK, SpOK
<1>3. ASSUME NEW e \in Dir \X Note
      PROVE  /\ e \in filed => e \in spFiled
             /\ e \in spFiled /\ e \notin filed /\ Live(e[1]) /\ Live(e[2]) => readme[e[1]] = e[2]
  <2>1. e = <<e[1], e[2]>> /\ e[1] \in Dir /\ e[2] \in Note /\ e[2] # None
    BY IdsAssumption
  <2> QED  BY <2>1 DEF RestOK, FiledAgree
<1>4. ASSUME NEW e \in spSub, Live(e[2]) PROVE Live(e[1])
  <2>1. e = <<e[1], e[2]>> /\ e[1] \in Dir /\ e[2] \in Dir /\ e[2] # None
    BY IdsAssumption DEF SpOK
  <2> QED  BY <1>4, <2>1 DEF RestOK, NoDead
<1> QED  BY <1>2, <1>3, <1>4 DEF PgOK, SpOK

(* Between requests that came one after the other and were not refused      *)
(* halfway, SpiceDB has a parent tuple for two live directories exactly     *)
(* where Postgres has the row, and those of notes wherever Postgres has one *)
(* (the facade writes both stores, statement by statement).                 *)
THEOREM StoresStayEqual == DirectorySpec => []StoresAgree
<1>1. Typed /\ StoresInv => StoresAgree
  BY RestAgrees DEF StoresInv, StoresAgree
<1>2. DirectoryInit => Typed /\ StoresInv
  BY InitTyped, StoresInit
<1>3. Typed /\ StoresInv /\ [DirectoryNext]_dirVars => (Typed /\ StoresInv)'
  BY NextTyped, StoresStep
<1> QED  BY <1>1, <1>2, <1>3, PTL DEF DirectorySpec

(* delete_directory takes the whole subtree, however deep it nests: between *)
(* such requests no live directory is left below a deleted one.             *)
THEOREM NoneLeftBelow == DirectorySpec => []NoDeadParents
<1>1. Typed /\ StoresInv => NoDeadParents
  BY RestAgrees DEF StoresInv, NoDeadParents
<1>2. DirectoryInit => Typed /\ StoresInv
  BY InitTyped, StoresInit
<1>3. Typed /\ StoresInv /\ [DirectoryNext]_dirVars => (Typed /\ StoresInv)'
  BY NextTyped, StoresStep
<1> QED  BY <1>1, <1>2, <1>3, PTL DEF DirectorySpec

(* delete_directory: a note that the cascade deletes has, in Postgres, no   *)
(* live parent outside of the subtree of the directory the client named,    *)
(* though the notes were chosen from the tuples of SpiceDB, call by call.   *)
THEOREM SharedContentSurvives == DirectorySpec => SharedNotesSurvive
<1> DEFINE A == \A u \in User, n \in Note :
                  At(u, "cascade") /\ req'[u] # req[u] /\ Live(n) /\ row'[n] # "live"
                    /\ ~disturbed =>
                    LET root == req[u].stack[Len(req[u].stack)].dir
                    IN  Parents(filed, n) \subseteq {root} \cup Below(sub, root, Cardinality(Dir))
<1>1. ASSUME Typed, StoresInv, [DirectoryNext]_dirVars PROVE A
  <2> SUFFICES ASSUME NEW u \in User, NEW n \in Note, At(u, "cascade"), req'[u] # req[u],
                      Live(n), row'[n] # "live", ~disturbed
               PROVE  LET root == req[u].stack[Len(req[u].stack)].dir
                      IN  Parents(filed, n)
                            \subseteq {root} \cup Below(sub, root, Cardinality(Dir))
    OBVIOUS
  <2> USE DEF Typed
  <2>1. PICK w \in User : StepOf(w)
    BY <1>1 DEF DirectoryNext, StepOf, dirVars
  <2>2. w = u
    BY <1>1, <2>1, OthersWait
  <2>3. Open(u) /\ req[u].pc = "cascade"
    BY <1>1, PcAt DEF Pc
  <2>4. CascadeNote(u) /\ DeleteRow(n)
    <3>1. \A x \in Dir \cup Note : DeleteRow(x) => x = n
      BY <1>1 DEF DeleteRow, Live, PgOK
    <3>2. n \notin Dir
      BY IdsAssumption
    <3>3. ~CascadeRow(u)
      <4>1. CascadeRow(u) => Top(u).dir \in Dir /\ DeleteRow(Top(u).dir)
        BY <1>1, DeleteAt DEF DeleteStep, CascadeRow, Frame
      <4> QED  BY <3>1, <3>2, <4>1
    <3>4. row' # row /\ ~InsertDir(u) /\ ~InsertNote(u)
      BY <2>3 DEF Live, InsertDir, InsertNote, At
    <3>5. ASSUME NEW m \in Note PROVE ~DeleteNote(u, m)
      BY <2>3 DEF DeleteNote
    <3> QED  BY <1>1, <2>1, <2>2, <3>1, <3>3, <3>4, <3>5, RowsOf
  <2>5. PICK s \in Seq(Frame) : s = req[u].stack /\ s # <<>> /\ Len(s) \in Nat \ {0}
          /\ Top(u) = s[1]
    BY <1>1, <2>4, DeleteAt DEF DeleteStep
  <2>6. RestOK /\ CallsOK("cascade", s)
    BY <1>1, <2>3, <2>4, <2>5, CascadeAt DEF StoresInv, DeleteStep
  <2>7. 1 \in 1..Len(s) /\ Len(s) \in 1..Len(s)
    BY <2>5
  <2>8. PICK root \in Dir : root = s[Len(s)].dir
    <3>1. s[Len(s)] \in Frame
      BY <2>5, <2>7, StackFacts
    <3> QED  BY <3>1 DEF Frame
  <2>9. FrameOK(s, 1)
    BY <2>6, <2>7 DEF CallsOK
  <2>10. n \in s[1].notes
    <3>1. PICK m \in s[1].notes : DeleteRow(m) \/ UNCHANGED pgVars
      BY <2>4, <2>5 DEF CascadeNote
    <3>2. m \in Note
      BY <2>5, <3>1, <2>7, StackFacts DEF Frame
    <3>3. row' # row
      BY DEF Live
    <3>4. m = n
      BY <1>1, <3>1, <3>2, <3>3 DEF DeleteRow, Live, PgOK
    <3> QED  BY <3>1, <3>4
  <2>11. Parents(spFiled, n) \subseteq Reach(root)
    BY <2>8, <2>9, <2>10 DEF FrameOK
  <2> DEFINE W == {root} \cup Below(sub, root, Cardinality(Dir))
             K == {x \in Dir : Live(x) => x \in W}
  <2>12. Closed(sub, W)
    <3>1. Cardinality(Dir) \in Nat
      BY IdsAssumption, FS_CardinalityType
    <3>2. Cardinality(Dir) <= Cardinality(Dir) + 1
      BY <3>1
    <3> QED  BY <1>1, <3>1, <3>2, WalkCloses DEF PgOK
  <2>13. root \in K
    OBVIOUS
  <2> HIDE DEF W
  <2>14. ASSUME NEW e \in spSub, e[1] \in K PROVE e[2] \in K
    <3>1. e = <<e[1], e[2]>> /\ e[2] \in Dir
      BY <1>1 DEF SpOK
    <3>2. CASE Live(e[2])
      <4>1. Live(e[1]) /\ <<e[1], e[2]>> \in sub
        BY <1>1, <2>6, <2>14, <3>1, <3>2, RestAgrees
      <4>2. e[1] \in W
        BY <2>14, <4>1
      <4>3. e[2] \in W
        BY <2>12, <3>1, <4>1, <4>2 DEF Closed
      <4> QED  BY <3>1, <4>3
    <3> QED  BY <3>1, <3>2
  <2>15. ASSUME NEW p \in Parents(filed, n) PROVE p \in W
    <3>1. p \in Dir /\ <<p, n>> \in filed /\ Live(p)
      <4>1. p \in Dir /\ <<p, n>> \in filed
        BY <1>1, <2>15, ParentsInDir, ParentsAre DEF PgOK
      <4> QED  BY <1>1, <4>1 DEF PgOK, Live
    <3>2. p \in Parents(spFiled, n)
      <4>1. <<p, n>> \in spFiled
        BY <1>1, <2>6, <3>1, RestAgrees
      <4> QED  BY <1>1, <4>1, ParentsAre DEF SpOK
    <3>3. p \in K
      <4>1. K \in SUBSET Dir
        OBVIOUS
      <4> HIDE DEF K
      <4> QED  BY <2>11, <2>13, <2>14, <3>2, <4>1 DEF Reach
    <3> QED  BY <3>1, <3>3
  <2> QED  BY <2>5, <2>8, <2>15 DEF W
<1>2. Typed /\ StoresInv /\ [DirectoryNext]_dirVars => [A]_dirVars
  BY <1>1
<1>3. DirectoryInit => Typed /\ StoresInv
  BY InitTyped, StoresInit
<1>4. Typed /\ StoresInv /\ [DirectoryNext]_dirVars => (Typed /\ StoresInv)'
  BY NextTyped, StoresStep
<1> HIDE DEF A
<1>5. DirectorySpec => [][A]_dirVars
  BY <1>2, <1>3, <1>4, PTL DEF DirectorySpec
<1> QED  BY <1>5 DEF A, SharedNotesSurvive

-----------------------------------------------------------------------------
(* Cycles, while requests come one after the other, refused or cut short as  *)
(* they may be.  The check of set_parents_of walks MaxDepth levels down, so  *)
(* it is only as good as the hierarchy is shallow.                           *)

\* No directory has more below it than a walk sees.
Shallow == \A d \in Dir : Closed(sub, {d} \cup Below(sub, d, MaxDepth))

\* Whatever directories one takes, one of them has no parent among them.
WellFounded(edges) ==
  \A S \in SUBSET Dir : S # {} => \E x \in S : \A e \in edges : e[2] = x => e[1] \notin S

\* The request that writes parents has seen all below its directory, and none of the
\* parents it wants is there.
SeesAll(u) ==
  Open(u) /\ req[u].pc = "rows" =>
    /\ req[u].add \subseteq req[u].want
    /\ \E R \in SUBSET Dir : req[u].dir \in R /\ Closed(sub, R) /\ req[u].want \cap R = {}

TreeInv ==
  ~raced =>
    /\ \A u, v \in User : Open(u) /\ Open(v) => u = v
    /\ WellFounded(sub)
    /\ \A u \in User : SeesAll(u)

\* Fewer edges have no more cycles.
LEMMA FewerEdges ==
  ASSUME NEW edges, NEW fewer \in SUBSET edges, WellFounded(edges)
  PROVE  WellFounded(fewer)
BY DEF WellFounded

\* An edge from outside into a closed set closes no cycle.
LEMMA EdgeIntoClosed ==
  ASSUME NEW edges, WellFounded(edges), NEW R \in SUBSET Dir, Closed(edges, R),
         NEW d \in R, NEW p \in Dir, p \notin R
  PROVE  WellFounded(edges \cup {<<p, d>>})
<1> SUFFICES ASSUME NEW S \in SUBSET Dir, S # {}
             PROVE  \E x \in S : \A e \in edges \cup {<<p, d>>} : e[2] = x => e[1] \notin S
  BY DEF WellFounded
<1>1. <<p, d>>[1] = p /\ <<p, d>>[2] = d
  OBVIOUS
<1>2. CASE p \in S
  <2>1. S \ R \in SUBSET Dir /\ S \ R # {}
    BY <1>2
  <2>2. PICK x \in S \ R : \A e \in edges : e[2] = x => e[1] \notin S \ R
    BY <2>1 DEF WellFounded
  <2>3. \A e \in edges : e[2] = x => e[1] \notin S
    BY <2>2 DEF Closed
  <2> QED  BY <1>1, <2>2, <2>3
<1>3. CASE p \notin S
  <2>1. PICK x \in S : \A e \in edges : e[2] = x => e[1] \notin S
    BY DEF WellFounded
  <2> QED  BY <1>1, <1>3, <2>1
<1> QED  BY <1>2, <1>3

\* What cannot be taken without a first one has nobody below himself.
LEMMA NoneBelowItself ==
  ASSUME NEW edges \in SUBSET (Dir \X Dir), WellFounded(edges), NEW d \in Dir, NEW n \in Nat
  PROVE  d \notin Below(edges, d, n)
<1> SUFFICES ASSUME d \in Below(edges, d, n) PROVE FALSE
  OBVIOUS
<1> DEFINE S == Below(edges, d, n)
<1>1. S \in SUBSET Dir
  BY BelowInClosed
<1>2. \A x \in S : \E e \in edges : e[2] = x /\ e[1] \in S
  BY BelowHasParent
<1> HIDE DEF S
<1>3. S # {}
  BY DEF S
<1> QED  BY <1>1, <1>2, <1>3 DEF WellFounded

\* What a step does to the rows of directory_subdirectory.
LEMMA SubOf ==
  ASSUME Typed, NEW u \in User, StepOf(u)
  PROVE  \/ sub' \subseteq sub
         \/ /\ ReplaceRows(u)
            /\ \E p \in req[u].add : sub' = sub \cup {<<p, req[u].dir>>}
BY DEF StepOf, BeginRequest, Continue, Fail, BeginCreate, BeginList, BeginPatch, BeginFile,
   BeginDelete, DeleteNote, DeleteRow, InsertDir, InsertOwner, InsertNote, FileNote, MirrorNote,
   InsertNoteOwner, BindReadme, BindTuple, ReadParents, Mirror, CycleCheck, ReplaceRows,
   ReadNoteRows, ReplaceNoteRows, UnmirrorNote, MirrorNotes, Resolve, CascadeNote, CascadeSub,
   CascadeRow

\* A request comes to the rows from the check, and stays there while it writes.
LEMMA RowsFrom ==
  ASSUME Typed, NEW u \in User, StepOf(u), req'[u] # req[u], Open(u)', req'[u].pc = "rows"
  PROVE  \/ /\ CycleCheck(u) /\ ~ClosesCycle(req[u].dir, req[u].want)
            /\ Edits(u, "rows", Parents(sub, req[u].dir) \ req[u].want,
                                req[u].want \ Parents(sub, req[u].dir))
         \/ /\ ReplaceRows(u) /\ req'[u].dir = req[u].dir /\ req'[u].want = req[u].want
            /\ req'[u].add \subseteq req[u].add
<1> USE DEF Typed
<1>1. ~End(u) /\ ~Raise(u) /\ ~Fail(u)
  BY DEF End, Raise, Fail, Open, ReqsOK
<1>2. ASSUME NEW pc \in Pc, Goto(u, pc), Open(u) PROVE req'[u].pc = pc
  BY <1>2, Went
<1>3. ASSUME NEW pc \in Pc, NEW d, NEW n, NEW want, NEW stack, Begin(u, pc, d, n, want, stack)
      PROVE  req'[u].pc = pc
  BY <1>3 DEF Begin, ReqsOK
<1>4. ~BeginRequest(u)
  <2>1. {"insertDir", "insertNote", "readParents", "readNoteRows", "resolve"} \subseteq Pc
    BY DEF Pc
  <2> QED  BY <1>3, <2>1 DEF BeginRequest, BeginCreate, BeginList, BeginPatch, BeginFile,
           BeginDelete, DeleteNote
<1>5. ~CreateStep(u)
  <2>1. "rows" \notin ReadmePcs \cup {"readParents"} /\ ReadmePcs \cup {"readParents"} \subseteq Pc
    BY DEF ReadmePcs, Pc
  <2> QED  BY <1>1, <1>2, <2>1, CreateGoes
<1>6. ~DeleteStep(u)
  <2>1. "rows" \notin DeletePcs /\ DeletePcs \subseteq Pc
    BY DEF DeletePcs, Pc
  <2> QED  BY <1>1, <2>1, DeleteGoes, DeleteAt, Piled
<1>7. ReplaceStep(u) /\ Open(u)
  BY <1>1, <1>4, <1>5, <1>6, ContinueSorted, ReplaceAt DEF StepOf
<1>8. req[u] \in Request
  BY <1>7, ReplaceAt
<1>9. ASSUME NEW pc, NEW drop, NEW add,
             req' = [req EXCEPT ![u].pc = pc, ![u].drop = drop, ![u].add = add]
      PROVE  req'[u].pc = pc
  BY <1>8, <1>9 DEF Request, ReqsOK
<1>10. ~ReadParents(u) /\ ~ReadNoteRows(u)
  <2>1. ASSUME ReadParents(u) PROVE FALSE
    <3>1. PICK drop, add :
            req' = [req EXCEPT ![u].pc = "mirror", ![u].drop = drop, ![u].add = add]
      BY <1>1, <2>1 DEF ReadParents
    <3> QED  BY <1>9, <3>1
  <2>2. ASSUME ReadNoteRows(u) PROVE FALSE
    <3>1. PICK drop, add :
            req' = [req EXCEPT ![u].pc = "noteRows", ![u].drop = drop, ![u].add = add]
      BY <2>2 DEF ReadNoteRows
    <3> QED  BY <1>9, <3>1
  <2> QED  BY <2>1, <2>2
<1>11. ~UnmirrorNote(u)
  BY <1>8 DEF UnmirrorNote, Request, ReqsOK
<1>12. ASSUME NEW p, req' = [req EXCEPT ![u].drop = @ \ {p}] \/ req' = [req EXCEPT ![u].add = @ \ {p}]
       PROVE  /\ req'[u].pc = req[u].pc /\ req'[u].dir = req[u].dir /\ req'[u].want = req[u].want
              /\ req'[u].add \subseteq req[u].add
  BY <1>8, <1>12 DEF Request, ReqsOK
<1>13. ~Mirror(u) /\ ~ReplaceNoteRows(u) /\ ~MirrorNotes(u)
  <2>1. {"cycleCheck", "unmirrorNote"} \subseteq Pc
    BY DEF Pc
  <2> QED  BY <1>1, <1>2, <1>7, <1>12, <2>1 DEF Mirror, ReplaceNoteRows, MirrorNotes, At
<1>14. CASE CycleCheck(u)
  BY <1>1, <1>14 DEF CycleCheck, Edits
<1>15. CASE ReplaceRows(u)
  <2>1. "owner" \in Pc
    BY DEF Pc
  <2> QED  BY <1>1, <1>2, <1>7, <1>12, <1>15, <2>1 DEF ReplaceRows
<1> QED  BY <1>7, <1>10, <1>11, <1>13, <1>14, <1>15 DEF ReplaceStep

\* Where a walk sees all, the rows close no cycle.
LEMMA TreeStep == Typed /\ Shallow /\ TreeInv /\ [DirectoryNext]_dirVars => TreeInv'
<1> USE DEF Typed
<1> SUFFICES ASSUME Typed, Shallow, TreeInv, [DirectoryNext]_dirVars, ~raced'
             PROVE  /\ \A u, v \in User : Open(u)' /\ Open(v)' => u = v
                    /\ WellFounded(sub)'
                    /\ \A u \in User : SeesAll(u)'
  BY DEF TreeInv
<1>1. CASE UNCHANGED dirVars
  BY <1>1 DEF dirVars, TreeInv, Open, WellFounded, SeesAll, Closed
<1>2. ASSUME NEW u \in User, StepOf(u)
      PROVE  /\ \A v, w \in User : Open(v)' /\ Open(w)' => v = w
             /\ WellFounded(sub)'
             /\ \A v \in User : SeesAll(v)'
  <2>1. CASE BeginRequest(u)
    <3>1. ~raced /\ \A v \in User : v # u => ~Open(v)
      BY <2>1 DEF BeginRequest, BeginCreate, BeginList, BeginPatch, BeginFile, DeleteNote,
         BeginDelete, Begin, Calm
    <3>2. ~ReplaceRows(u)
      <4>1. ~Open(u)
        BY <2>1, <3>1 DEF BeginRequest, BeginCreate, BeginList, BeginPatch, BeginFile, DeleteNote,
           BeginDelete, Begin
      <4> QED  BY <4>1, ReplaceAt DEF ReplaceStep
    <3>3. WellFounded(sub')
      BY <1>2, <3>1, <3>2, SubOf, FewerEdges DEF TreeInv
    <3>4. \A v \in User : v # u => ~Open(v)'
      BY <1>2, <3>1, OthersWait DEF Open
    <3>5. SeesAll(u)'
      <4>1. ~CycleCheck(u)
        <5>1. ~Open(u)
          BY <2>1 DEF BeginRequest, BeginCreate, BeginList, BeginPatch, BeginFile, DeleteNote,
             BeginDelete, Begin
        <5> QED  BY <5>1, ReplaceAt DEF ReplaceStep
      <4>2. req'[u] = req[u] => ~Open(u)'
        BY <2>1 DEF BeginRequest, BeginCreate, BeginList, BeginPatch, BeginFile, DeleteNote,
           BeginDelete, Begin, Open
      <4> QED  BY <1>2, <3>2, <4>1, <4>2, RowsFrom DEF SeesAll
    <3> QED  BY <3>3, <3>4, <3>5 DEF WellFounded, SeesAll
  <2>2. CASE Continue(u) \/ Fail(u)
    <3>1. Open(u) /\ (raced => raced')
      <4>1. CASE Continue(u)
        <5>1. raced' = raced
          BY <4>1, ContinueSorted, CreateReqs, ReplaceReqs, DeleteReqs
        <5> QED  BY <4>1, <5>1, ContinueOpen
      <4>2. CASE Fail(u)
        BY <4>2 DEF Fail, Raise
      <4> QED  BY <2>2, <4>1, <4>2
    <3>2. /\ ~raced /\ WellFounded(sub) /\ SeesAll(u)
          /\ \A v \in User : v # u => ~Open(v)
      BY <3>1 DEF TreeInv
    <3>3. \A v \in User : v # u => ~Open(v)'
      BY <1>2, <3>2, OthersWait DEF Open
    <3>4. CASE sub' \subseteq sub
      <4>1. WellFounded(sub')
        BY <3>2, <3>4, FewerEdges
      <4>2. SeesAll(u)'
        <5> SUFFICES ASSUME Open(u)', req'[u].pc = "rows"
                     PROVE  /\ req'[u].add \subseteq req'[u].want
                            /\ \E R \in SUBSET Dir : /\ req'[u].dir \in R /\ Closed(sub', R)
                                                     /\ req'[u].want \cap R = {}
          BY DEF SeesAll, Closed
        <5>1. CASE CycleCheck(u)
          <6>1. PICK d \in Dir, want \in SUBSET Dir : d = req[u].dir /\ want = req[u].want
            BY <5>1, ReplaceAt DEF ReplaceStep, CycleCheck, At, DirPcs
          <6>2. PICK current \in SUBSET Dir : current = Parents(sub, d)
            BY ParentsInDir
          <6>3. /\ Edits(u, "rows", current \ want, want \ current)
                /\ want \cap ({d} \cup Below(sub, d, MaxDepth)) = {}
            BY <5>1, <6>1, <6>2 DEF CycleCheck, ClosesCycle, Edits, Raise, Open, ReqsOK, At
          <6>4. req'[u].add = want \ current /\ req'[u].dir = d /\ req'[u].want = want
            BY <3>1, <6>1, <6>3, Edited DEF Pc
          <6> DEFINE R == {d} \cup Below(sub, d, MaxDepth)
          <6>5. R \in SUBSET Dir
            <7>1. \A e \in sub : e[1] \in Dir => e[2] \in Dir
              BY DEF PgOK
            <7> QED  BY <7>1, BoundsAssumption, BelowInClosed
          <6>6. Closed(sub, R) /\ d \in R /\ want \cap R = {}
            BY <6>3 DEF Shallow
          <6> HIDE DEF R
          <6>7. Closed(sub', R)
            BY <3>4, <6>6 DEF Closed
          <6> QED  BY <6>4, <6>5, <6>6, <6>7
        <5>2. CASE ~CycleCheck(u)
          <6>1. /\ Open(u) /\ req[u].pc = "rows" /\ req'[u].dir = req[u].dir
                /\ req'[u].want = req[u].want /\ req'[u].add \subseteq req[u].add
            <7>1. CASE req'[u] = req[u]
              BY <3>1, <7>1
            <7>2. CASE req'[u] # req[u]
              BY <1>2, <3>1, <5>2, <7>2, RowsFrom DEF ReplaceRows, At
            <7> QED  BY <7>1, <7>2
          <6>2. /\ req[u].add \subseteq req[u].want
                /\ \E R \in SUBSET Dir :
                      req[u].dir \in R /\ Closed(sub, R) /\ req[u].want \cap R = {}
            BY <3>2, <6>1 DEF SeesAll
          <6>3. \A R : Closed(sub, R) => Closed(sub', R)
            BY <3>4 DEF Closed
          <6> QED  BY <6>1, <6>2, <6>3
        <5> QED  BY <5>1, <5>2
      <4> QED  BY <3>3, <4>1, <4>2 DEF WellFounded, SeesAll
    <3>5. CASE ReplaceRows(u) /\ \E p \in req[u].add : sub' = sub \cup {<<p, req[u].dir>>}
      <4>1. PICK d \in Dir, p \in Dir : d = req[u].dir /\ p \in req[u].add
              /\ sub' = sub \cup {<<p, d>>} /\ req[u].pc = "rows"
        BY <3>5, ReplaceAt DEF ReplaceStep, ReplaceRows, At, DirPcs
      <4>2. PICK R \in SUBSET Dir : /\ d \in R /\ Closed(sub, R) /\ req[u].want \cap R = {}
                                    /\ req[u].add \subseteq req[u].want
        BY <3>1, <3>2, <4>1 DEF SeesAll
      <4>3. WellFounded(sub')
        BY <3>2, <4>1, <4>2, EdgeIntoClosed
      <4>4. Closed(sub', R)
        <5>1. <<p, d>>[2] = d
          OBVIOUS
        <5> QED  BY <4>1, <4>2, <5>1 DEF Closed
      <4>5. SeesAll(u)'
        <5>1. ~CycleCheck(u)
          BY <4>1 DEF CycleCheck, At
        <5> SUFFICES ASSUME Open(u)', req'[u].pc = "rows"
                     PROVE  /\ req'[u].add \subseteq req'[u].want
                            /\ req'[u].dir \in R /\ req'[u].want \cap R = {}
          BY <4>4 DEF SeesAll, Closed
        <5>2. CASE req'[u] = req[u]
          BY <4>1, <4>2, <5>2
        <5>3. CASE req'[u] # req[u]
          BY <1>2, <4>1, <4>2, <5>1, <5>3, RowsFrom
        <5> QED  BY <5>2, <5>3
      <4> QED  BY <3>3, <4>3, <4>5 DEF WellFounded, SeesAll
    <3> QED  BY <1>2, <3>4, <3>5, SubOf
  <2> QED  BY <1>2, <2>1, <2>2 DEF StepOf
<1> QED  BY <1>1, <1>2 DEF DirectoryNext, StepOf

LEMMA TreeInit == DirectoryInit => TreeInv
BY DEF DirectoryInit, TreeInv, Open, WellFounded, SeesAll

(* The directories of Postgres form no cycle, whatever requests were refused *)
(* or cut short, while they come one after the other and the hierarchy stays *)
(* as shallow as the walk of set_parents_of is deep.                         *)
THEOREM NoCycleCloses == DirectorySpec /\ []Shallow => []Acyclic
<1>1. Typed /\ TreeInv => Acyclic
  <2> SUFFICES ASSUME Typed, TreeInv, ~raced, NEW d \in Dir
               PROVE  d \notin Below(sub, d, Cardinality(Dir))
    BY DEF Acyclic
  <2>1. sub \in SUBSET (Dir \X Dir) /\ WellFounded(sub) /\ Cardinality(Dir) \in Nat
    BY IdsAssumption, FS_CardinalityType DEF Typed, PgOK, TreeInv
  <2> QED  BY <2>1, NoneBelowItself
<1>2. DirectoryInit => Typed /\ TreeInv
  BY InitTyped, TreeInit
<1>3. Typed /\ TreeInv /\ Shallow /\ [DirectoryNext]_dirVars => (Typed /\ TreeInv)'
  BY NextTyped, TreeStep
<1> QED  BY <1>1, <1>2, <1>3, PTL DEF DirectorySpec

(* And so it is with no more directories than a walk can see, whatever      *)
(* their hierarchy becomes.                                                 *)
THEOREM NoCycleOfFew ==
  ASSUME Cardinality(Dir) <= MaxDepth + 1
  PROVE  DirectorySpec => []Acyclic
<1>1. Typed => Shallow
  BY WalkCloses, BoundsAssumption DEF Typed, PgOK, Shallow
<1>2. DirectorySpec => []Shallow
  <2>1. Typed /\ [DirectoryNext]_dirVars => Typed'
    BY NextTyped
  <2> QED  BY <1>1, <2>1, InitTyped, PTL DEF DirectorySpec
<1> QED  BY <1>2, NoCycleCloses, PTL
=============================================================================
