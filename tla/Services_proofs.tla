--------------------------- MODULE Services_proofs ---------------------------
(***************************************************************************)
(* What the smaller services keep, for all values of the constants: the    *)
(* attachment stores, the books of a shelf, whose text an embedding is,    *)
(* what a passkey keeps, what the rules do, and what the import of a book  *)
(* brings over.                                                            *)
(***************************************************************************)
EXTENDS Attachments, ShelfBooks, Embeddings, Passkeys, RuleDispatch, BookImport,
        FiniteSetTheorems, TLAPS

(***************************************************************************)
(* Passkeys: what one keeps, without a bound on the requests that overlap. *)
(***************************************************************************)

AskRecord == [op : {"none"}] \cup [op : {"count", "revoke", "stamp"}, key : Keys, read : Nat]

Shaped ==
    /\ passkey \in [Keys -> [there : BOOLEAN, count : Nat, revoked : BOOLEAN]]
    /\ ask \in [Asks -> AskRecord]
    /\ bumps \in [Keys -> Nat]

\* What was answered is revoked.
Revoked == \A k \in answered : k \in Keys => passkey[k].revoked

\* A counter under way has read no more than has been written.
Behind ==
    /\ \A k \in Keys : passkey[k].count <= bumps[k]
    /\ \A c \in Asks : Of(c, "count") => ask[c].read <= bumps[ask[c].key]

\* The counter of a passkey whose counter requests never overlapped: one at a time,
\* and it has read the present value.
Exact ==
    \A k \in Keys \ overlapped :
        /\ passkey[k].count = bumps[k]
        /\ \A c \in Asks : Of(c, "count") /\ ask[c].key = k =>
              /\ ask[c].read = passkey[k].count
              /\ \A d \in Asks : Of(d, "count") /\ ask[d].key = k => d = c

KInv == Shaped /\ Revoked /\ Behind /\ Exact

LEMMA KeysStart == KeysInit => KInv
  <1> SUFFICES ASSUME KeysInit PROVE KInv
    OBVIOUS
  <1>1. Shaped
    BY DEF KeysInit, Shaped, AskRecord, NoAsk
  <1>2. Revoked /\ Behind /\ Exact
    BY DEF KeysInit, Revoked, Behind, Exact, Of, NoAsk
  <1> QED
    BY <1>1, <1>2 DEF KInv

\* A request that is closed leaves the others as they were.
LEMMA Closes ==
  ASSUME Shaped, NEW c \in Asks, Close(c)
  PROVE  /\ ask' \in [Asks -> AskRecord]
         /\ ~Of(c, "count")'
         /\ \A d \in Asks \ {c} : ask'[d] = ask[d]
  BY DEF Shaped, Close, NoAsk, AskRecord, Of

LEMMA RegisterKeeps ==
  ASSUME KInv, NEW who \in Holders, NEW k \in Keys, RegisterPasskey(who, k)
  PROVE  KInv'
  <1>1. Shaped'
    BY DEF KInv, Shaped, RegisterPasskey
  <1>2. \A l \in Keys : passkey'[l].count = passkey[l].count /\ passkey'[l].revoked = passkey[l].revoked
    BY DEF KInv, Shaped, RegisterPasskey
  <1> QED
    BY <1>1, <1>2 DEF KInv, Revoked, Behind, Exact, RegisterPasskey, Of

LEMMA AskIs ==
  ASSUME Shaped, NEW c \in Asks, NEW who \in Holders, NEW k \in Keys,
         NEW op \in {"count", "revoke"}, BeginAsk(c, op, who, k)
  PROVE  /\ ask' \in [Asks -> AskRecord]
         /\ ask'[c] = [op |-> op, key |-> k, read |-> passkey[k].count]
         /\ \A d \in Asks \ {c} : ask'[d] = ask[d]
  BY DEF Shaped, BeginAsk, Ask, AskRecord

LEMMA CountBegins ==
  ASSUME KInv, NEW c \in Asks, NEW who \in Holders, NEW k \in Keys, BeginCount(c, who, k)
  PROVE  KInv'
  <1>1. /\ ask' \in [Asks -> AskRecord]
        /\ ask'[c] = [op |-> "count", key |-> k, read |-> passkey[k].count]
        /\ \A d \in Asks \ {c} : ask'[d] = ask[d]
    BY AskIs DEF KInv, BeginCount
  <1>2. /\ passkey' = passkey /\ bumps' = bumps /\ answered' = answered
        /\ overlapped' = overlapped \cup {l \in {k} : \E d \in Asks : Of(d, "count") /\ ask[d].key = l}
        /\ Of(c, "none")
    BY DEF BeginCount, BeginAsk
  <1>3. Shaped' /\ Revoked'
    BY <1>1, <1>2 DEF KInv, Shaped, Revoked
  <1>4. Behind'
    BY <1>1, <1>2 DEF KInv, Behind, Of
  <1>5. Exact'
    <2> SUFFICES ASSUME NEW l \in Keys, l \notin overlapped'
                 PROVE  /\ passkey[l].count = bumps[l]
                        /\ \A d \in Asks : Of(d, "count")' /\ ask'[d].key = l =>
                              /\ ask'[d].read = passkey[l].count
                              /\ \A e \in Asks : Of(e, "count")' /\ ask'[e].key = l => e = d
      BY <1>2 DEF Exact
    <2>1. CASE l = k
      <3>1. \A d \in Asks : ~(Of(d, "count") /\ ask[d].key = k)
        BY <1>2, <2>1
      <3> QED
        BY <1>1, <1>2, <2>1, <3>1 DEF KInv, Exact, Of
    <2>2. CASE l # k
      BY <1>1, <1>2, <2>2 DEF KInv, Exact, Of
    <2> QED
      BY <2>1, <2>2
  <1> QED
    BY <1>3, <1>4, <1>5 DEF KInv

LEMMA RevokeBegins ==
  ASSUME KInv, NEW c \in Asks, NEW who \in Holders, NEW k \in Keys, BeginRevoke(c, who, k)
  PROVE  KInv'
  <1>1. /\ ask' \in [Asks -> AskRecord]
        /\ ask'[c] = [op |-> "revoke", key |-> k, read |-> passkey[k].count]
        /\ \A d \in Asks \ {c} : ask'[d] = ask[d]
    BY AskIs DEF KInv, BeginRevoke
  <1>2. UNCHANGED <<passkey, bumps, overlapped, answered>>
    BY DEF BeginRevoke
  <1> QED
    BY <1>1, <1>2 DEF KInv, Shaped, Revoked, Behind, Exact, Of

LEMMA CountWritten ==
  ASSUME KInv, NEW c \in Asks, WriteCount(c)
  PROVE  KInv'
  <1> DEFINE k == ask[c].key
             n == ask[c].read + 1
  <1>1. k \in Keys /\ ask[c].read \in Nat /\ Of(c, "count")
    BY DEF KInv, Shaped, AskRecord, WriteCount, Of
  <1>2. /\ passkey' = [passkey EXCEPT ![k].count = n]
        /\ bumps' = [bumps EXCEPT ![k] = @ + 1]
        /\ overlapped' = overlapped /\ answered' = answered
    BY DEF WriteCount
  <1>3. /\ ask' \in [Asks -> AskRecord] /\ ~Of(c, "count")'
        /\ \A d \in Asks \ {c} : ask'[d] = ask[d]
    BY Closes DEF KInv, WriteCount
  <1>4. Shaped'
    BY <1>1, <1>2, <1>3 DEF KInv, Shaped
  <1>5. /\ passkey'[k].count = n /\ bumps'[k] = bumps[k] + 1
        /\ \A l \in Keys : passkey'[l].revoked = passkey[l].revoked
        /\ \A l \in Keys \ {k} : passkey'[l] = passkey[l] /\ bumps'[l] = bumps[l]
    BY <1>1, <1>2 DEF KInv, Shaped
  <1>6. Revoked'
    BY <1>2, <1>5 DEF KInv, Revoked
  <1>7. \A l \in Keys : bumps[l] \in Nat /\ bumps[l] <= bumps'[l]
    BY <1>1, <1>5 DEF KInv, Shaped
  <1>8. Behind'
    <2>1. n <= bumps'[k]
      BY <1>1, <1>5, <1>7 DEF KInv, Behind
    <2>2. ASSUME NEW d \in Asks, Of(d, "count")' PROVE ask'[d].read <= bumps'[ask'[d].key]
      <3>1. d # c /\ ask'[d] = ask[d]
        BY <1>3, <2>2
      <3>2. ask[d].key \in Keys /\ ask[d].read \in Nat /\ ask[d].read <= bumps[ask[d].key]
        BY <2>2, <3>1 DEF KInv, Behind, Shaped, AskRecord, Of
      <3>3. bumps'[ask[d].key] \in Nat
        BY <1>4, <3>2 DEF Shaped
      <3> QED
        BY <1>7, <3>1, <3>2, <3>3
    <2>3. \A l \in Keys : passkey'[l].count <= bumps'[l]
      BY <1>5, <2>1 DEF KInv, Behind
    <2> QED
      BY <2>2, <2>3 DEF Behind
  <1>9. Exact'
    <2> SUFFICES ASSUME NEW l \in Keys, l \notin overlapped
                 PROVE  /\ passkey'[l].count = bumps'[l]
                        /\ \A d \in Asks : Of(d, "count")' /\ ask'[d].key = l =>
                              /\ ask'[d].read = passkey'[l].count
                              /\ \A e \in Asks : Of(e, "count")' /\ ask'[e].key = l => e = d
      BY <1>2 DEF Exact
    <2>1. CASE l = k
      <3>1. passkey[k].count = bumps[k] /\ ask[c].read = passkey[k].count
            /\ \A d \in Asks : Of(d, "count") /\ ask[d].key = k => d = c
        BY <1>1, <2>1 DEF KInv, Exact
      <3>2. \A d \in Asks : ~(Of(d, "count")' /\ ask'[d].key = k)
        BY <1>3, <3>1 DEF Of
      <3> QED
        BY <1>5, <2>1, <3>1, <3>2
    <2>2. CASE l # k
      BY <1>3, <1>5, <2>2 DEF KInv, Exact, Of
    <2> QED
      BY <2>1, <2>2
  <1> QED
    BY <1>4, <1>6, <1>8, <1>9 DEF KInv

LEMMA RevocationSteps ==
  ASSUME KInv, NEW c \in Asks, CheckRevoked(c) \/ StampRevoked(c) \/ AskFails(c)
  PROVE  KInv'
  <1>1. CASE CheckRevoked(c)
    <2>1. Of(c, "revoke") /\ UNCHANGED <<passkey, bumps, overlapped>> /\ ask[c].key \in Keys
      BY <1>1 DEF CheckRevoked, KInv, Shaped, AskRecord, Of
    <2>2. CASE passkey[ask[c].key].revoked
      <3>1. Close(c) /\ answered' = answered \cup {ask[c].key}
        BY <1>1, <2>2 DEF CheckRevoked
      <3> QED
        BY <2>1, <2>2, <3>1, Closes DEF KInv, Shaped, Revoked, Behind, Exact, Of
    <2>3. CASE ~passkey[ask[c].key].revoked
      <3>1. ask' = [ask EXCEPT ![c].op = "stamp"] /\ answered' = answered
        BY <1>1, <2>3 DEF CheckRevoked
      <3>2. ask' \in [Asks -> AskRecord] /\ ask'[c].op = "stamp" /\ \A d \in Asks \ {c} : ask'[d] = ask[d]
        BY <2>1, <3>1 DEF KInv, Shaped, AskRecord, Of
      <3> QED
        BY <2>1, <3>1, <3>2 DEF KInv, Shaped, Revoked, Behind, Exact, Of
    <2> QED
      BY <2>2, <2>3
  <1>2. CASE StampRevoked(c)
    <2>1. ask[c].key \in Keys /\ Close(c) /\ UNCHANGED <<bumps, overlapped>>
          /\ passkey' = [passkey EXCEPT ![ask[c].key].revoked = TRUE]
          /\ answered' = answered \cup {ask[c].key}
      BY <1>2 DEF StampRevoked, KInv, Shaped, AskRecord, Of
    <2>2. /\ passkey' \in [Keys -> [there : BOOLEAN, count : Nat, revoked : BOOLEAN]]
          /\ passkey'[ask[c].key].revoked
          /\ \A l \in Keys : passkey'[l].count = passkey[l].count
                             /\ (passkey[l].revoked => passkey'[l].revoked)
      BY <2>1 DEF KInv, Shaped
    <2>3. Shaped' /\ Revoked'
      BY <2>1, <2>2, Closes DEF KInv, Shaped, Revoked
    <2> QED
      BY <2>1, <2>2, <2>3, Closes DEF KInv, Behind, Exact, Of
  <1>3. CASE AskFails(c)
    BY <1>3, Closes DEF AskFails, KInv, Shaped, Revoked, Behind, Exact, Of
  <1> QED
    BY <1>1, <1>2, <1>3

LEMMA KeysStep == KInv /\ [KeysNext]_keyVars => KInv'
  <1> SUFFICES ASSUME KInv, [KeysNext]_keyVars PROVE KInv'
    OBVIOUS
  <1>1. CASE KeysNext
    BY <1>1, RegisterKeeps, CountBegins, RevokeBegins, CountWritten, RevocationSteps DEF KeysNext
  <1>2. CASE UNCHANGED keyVars
    BY <1>2 DEF keyVars, KInv, Shaped, Revoked, Behind, Exact, Of
  <1> QED
    BY <1>1, <1>2

(* A revocation that was answered stays, and the counter of a passkey is the *)
(* number of its bumps unless two of them overlapped, and never more, for    *)
(* every interleaving and failure (user_auth_service.py, bump_sign_count and *)
(* revoke_passkey).                                                          *)
THEOREM PasskeysKeep == KeysSpec => []PasskeyKeeps
  <1>1. KInv => PasskeyKeeps
    BY DEF KInv, Revoked, Behind, Exact, PasskeyKeeps
  <1> QED
    BY <1>1, KeysStart, KeysStep, PTL DEF KeysSpec

(***************************************************************************)
(* The types of what requests count: each write of a counter is a request  *)
(* begun, so that the bound on the requests bounds the counters, and what  *)
(* a request works on is a registered passkey.                             *)
(***************************************************************************)

\* The counter requests of a key under way.
Pending(k) == {c \in Asks : Of(c, "count") /\ ask[c].key = k}

Budget ==
    /\ asked \in Nat /\ asked <= MaxAsks
    /\ \A k \in Keys : IsFiniteSet(Pending(k)) /\ bumps[k] + Cardinality(Pending(k)) <= asked

Registered ==
    /\ overlapped \cup answered \subseteq {k \in Keys : passkey[k].there}
    /\ \A c \in Asks : ~Of(c, "none") => passkey[ask[c].key].there

KTyped == KInv /\ Budget /\ Registered

LEMMA KeysStartTyped == KeysInit => KTyped
  <1> SUFFICES ASSUME KeysInit PROVE KTyped
    OBVIOUS
  <1>1. \A k \in Keys : Pending(k) = {} /\ bumps[k] = 0
    BY DEF KeysInit, Pending, Of, NoAsk
  <1>2. Budget
    BY <1>1, FS_EmptySet, MaxAsksNat DEF KeysInit, Budget
  <1>3. Registered
    BY DEF KeysInit, Registered, Of, NoAsk
  <1> QED
    BY <1>2, <1>3, KeysStart DEF KTyped

\* Requests end, and nothing is counted.
LEMMA BudgetShrinks ==
  ASSUME KTyped, asked' \in Nat, asked <= asked', asked' <= MaxAsks, bumps' = bumps,
         \A k \in Keys : Pending(k)' \subseteq Pending(k)
  PROVE  Budget'
  <1> SUFFICES ASSUME NEW k \in Keys
               PROVE  IsFiniteSet(Pending(k)') /\ bumps[k] + Cardinality(Pending(k)') <= asked'
    BY DEF Budget
  <1>1. /\ IsFiniteSet(Pending(k)) /\ bumps[k] + Cardinality(Pending(k)) <= asked
        /\ asked \in Nat /\ bumps[k] \in Nat
    BY DEF KTyped, KInv, Shaped, Budget
  <1>2. /\ IsFiniteSet(Pending(k)')
        /\ Cardinality(Pending(k)') <= Cardinality(Pending(k))
    BY <1>1, FS_Subset
  <1>3. Cardinality(Pending(k)) \in Nat /\ Cardinality(Pending(k)') \in Nat
    BY <1>1, <1>2, FS_CardinalityType
  <1> QED
    BY <1>1, <1>2, <1>3

\* A request that begins to count is one more of its key.
LEMMA CountIsBudgeted ==
  ASSUME KTyped, NEW c \in Asks, NEW who \in Holders, NEW k \in Keys, BeginCount(c, who, k)
  PROVE  Budget'
  <1>1. /\ ask' \in [Asks -> AskRecord]
        /\ ask'[c] = [op |-> "count", key |-> k, read |-> passkey[k].count]
        /\ \A d \in Asks \ {c} : ask'[d] = ask[d]
    BY AskIs DEF KTyped, KInv, BeginCount
  <1>2. /\ asked' = asked + 1 /\ asked < MaxAsks /\ bumps' = bumps
        /\ Of(c, "none")
    BY DEF BeginCount, BeginAsk
  <1>3. asked \in Nat /\ asked' \in Nat /\ asked' <= MaxAsks
    BY <1>2, MaxAsksNat DEF KTyped, Budget
  <1> SUFFICES ASSUME NEW l \in Keys
               PROVE  IsFiniteSet(Pending(l)') /\ bumps[l] + Cardinality(Pending(l)') <= asked'
    BY <1>2, <1>3 DEF Budget
  <1>4. /\ IsFiniteSet(Pending(l)) /\ bumps[l] + Cardinality(Pending(l)) <= asked
        /\ bumps[l] \in Nat /\ Cardinality(Pending(l)) \in Nat
    BY FS_CardinalityType DEF KTyped, KInv, Shaped, Budget
  <1>5. CASE l = k
    <2>1. Pending(l)' = Pending(l) \cup {c} /\ c \notin Pending(l)
      BY <1>1, <1>2, <1>5 DEF Pending, Of
    <2>2. IsFiniteSet(Pending(l)') /\ Cardinality(Pending(l)') = Cardinality(Pending(l)) + 1
      BY <1>4, <2>1, FS_AddElement
    <2> QED
      BY <1>2, <1>3, <1>4, <2>2
  <1>6. CASE l # k
    <2>1. Pending(l)' = Pending(l)
      BY <1>1, <1>2, <1>6 DEF Pending, Of
    <2> QED
      BY <1>2, <1>3, <1>4, <2>1
  <1> QED
    BY <1>5, <1>6

\* A write is the end of a request of its key.
LEMMA WriteIsBudgeted ==
  ASSUME KTyped, NEW c \in Asks, WriteCount(c)
  PROVE  Budget'
  <1> DEFINE k == ask[c].key
  <1>1. /\ k \in Keys /\ Of(c, "count") /\ asked' = asked
        /\ bumps' = [bumps EXCEPT ![k] = @ + 1] /\ bumps \in [Keys -> Nat]
    BY DEF KTyped, KInv, Shaped, AskRecord, WriteCount, Of
  <1>2. ~Of(c, "count")' /\ \A d \in Asks \ {c} : ask'[d] = ask[d]
    BY Closes DEF KTyped, KInv, WriteCount
  <1>3. \A l \in Keys : /\ IsFiniteSet(Pending(l))
                        /\ bumps[l] + Cardinality(Pending(l)) <= asked
                        /\ Cardinality(Pending(l)) \in Nat
    BY FS_CardinalityType DEF KTyped, Budget
  <1> SUFFICES ASSUME NEW l \in Keys
               PROVE  IsFiniteSet(Pending(l)') /\ bumps'[l] + Cardinality(Pending(l)') <= asked
    BY <1>1 DEF KTyped, Budget
  <1>4. asked \in Nat
    BY DEF KTyped, Budget
  <1>5. CASE l = k
    <2>1. Pending(l)' = Pending(l) \ {c} /\ c \in Pending(l)
      BY <1>1, <1>2, <1>5 DEF Pending, Of
    <2>2. IsFiniteSet(Pending(l)') /\ Cardinality(Pending(l)') = Cardinality(Pending(l)) - 1
      BY <1>3, <2>1, FS_RemoveElement
    <2>3. bumps'[l] = bumps[l] + 1
      BY <1>1, <1>5
    <2> QED
      BY <1>1, <1>3, <1>4, <2>2, <2>3
  <1>6. CASE l # k
    <2>1. Pending(l)' = Pending(l) /\ bumps'[l] = bumps[l]
      BY <1>1, <1>2, <1>6 DEF Pending, Of
    <2> QED
      BY <1>3, <2>1
  <1> QED
    BY <1>5, <1>6

LEMMA KeysStepTyped == KTyped /\ [KeysNext]_keyVars => KTyped'
  <1> SUFFICES ASSUME KTyped, [KeysNext]_keyVars PROVE Budget' /\ Registered'
    BY KeysStep DEF KTyped
  <1>b. asked \in Nat /\ asked <= MaxAsks
    BY DEF KTyped, Budget
  <1>k. \A c \in Asks : ~Of(c, "none") => ask[c].key \in Keys
    BY DEF KTyped, KInv, Shaped, AskRecord, Of
  <1>1. ASSUME NEW who \in Holders, NEW k \in Keys, RegisterPasskey(who, k)
        PROVE  Budget' /\ Registered'
    <2>1. UNCHANGED <<ask, asked, bumps, overlapped, answered>>
      BY <1>1 DEF RegisterPasskey
    <2>2. \A l \in Keys : passkey[l].there => passkey'[l].there
      BY <1>1 DEF RegisterPasskey, KTyped, KInv, Shaped
    <2>3. \A l \in Keys : Pending(l)' = Pending(l)
      BY <2>1 DEF Pending, Of
    <2>4. Registered'
      BY <1>k, <2>1, <2>2 DEF KTyped, Registered, Of
    <2> QED
      BY <1>b, <2>1, <2>3, <2>4, BudgetShrinks
  <1>2. ASSUME NEW who \in Holders, NEW k \in Keys, NEW c \in Asks, BeginCount(c, who, k)
        PROVE  Budget' /\ Registered'
    <2>1. /\ ask'[c] = [op |-> "count", key |-> k, read |-> passkey[k].count]
          /\ \A d \in Asks \ {c} : ask'[d] = ask[d]
      BY <1>2, AskIs DEF KTyped, KInv, BeginCount
    <2>2. /\ passkey[k].there /\ passkey' = passkey /\ answered' = answered
          /\ overlapped' \subseteq overlapped \cup {k}
      BY <1>2 DEF BeginCount, BeginAsk
    <2>3. Registered'
      BY <2>1, <2>2 DEF KTyped, Registered, Of
    <2> QED
      BY <1>2, <2>3, CountIsBudgeted
  <1>3. ASSUME NEW who \in Holders, NEW k \in Keys, NEW c \in Asks, BeginRevoke(c, who, k)
        PROVE  Budget' /\ Registered'
    <2>1. /\ ask'[c] = [op |-> "revoke", key |-> k, read |-> passkey[k].count]
          /\ \A d \in Asks \ {c} : ask'[d] = ask[d]
      BY <1>3, AskIs DEF KTyped, KInv, BeginRevoke
    <2>2. /\ passkey[k].there /\ UNCHANGED <<passkey, bumps, overlapped, answered>>
          /\ asked' = asked + 1 /\ asked < MaxAsks
      BY <1>3 DEF BeginRevoke, BeginAsk
    <2>3. asked' \in Nat /\ asked <= asked' /\ asked' <= MaxAsks
      BY <1>b, <2>2, MaxAsksNat
    <2>4. \A l \in Keys : Pending(l)' \subseteq Pending(l)
      BY <2>1 DEF Pending, Of
    <2>5. Registered'
      BY <2>1, <2>2 DEF KTyped, Registered, Of
    <2> QED
      BY <2>2, <2>3, <2>4, <2>5, BudgetShrinks
  <1>4. ASSUME NEW c \in Asks, WriteCount(c)
        PROVE  Budget' /\ Registered'
    <2>1. /\ passkey' = [passkey EXCEPT ![ask[c].key].count = ask[c].read + 1]
          /\ UNCHANGED <<overlapped, answered>> /\ Close(c) /\ ask[c].key \in Keys
      BY <1>4, <1>k DEF WriteCount, Of
    <2>2. ask'[c] = NoAsk /\ \A d \in Asks \ {c} : ask'[d] = ask[d]
      BY <2>1 DEF Close, KTyped, KInv, Shaped
    <2>3. \A l \in Keys : passkey'[l].there = passkey[l].there
      BY <2>1 DEF KTyped, KInv, Shaped
    <2>4. Registered'
      BY <1>k, <2>1, <2>2, <2>3 DEF KTyped, Registered, Of, NoAsk
    <2> QED
      BY <1>4, <2>4, WriteIsBudgeted
  <1>5. ASSUME NEW c \in Asks, CheckRevoked(c) \/ StampRevoked(c) \/ AskFails(c)
        PROVE  Budget' /\ Registered'
    <2>1. /\ UNCHANGED <<asked, bumps, overlapped>> /\ ~Of(c, "none")
          /\ answered' \subseteq answered \cup {ask[c].key}
          /\ Close(c) \/ ask' = [ask EXCEPT ![c].op = "stamp"]
          /\ passkey' = passkey \/ passkey' = [passkey EXCEPT ![ask[c].key].revoked = TRUE]
      BY <1>5 DEF CheckRevoked, StampRevoked, AskFails, Of
    <2>2. /\ ask'[c].op \in {"none", "stamp"} /\ (ask'[c].op = "stamp" => ask'[c].key = ask[c].key)
          /\ \A d \in Asks \ {c} : ask'[d] = ask[d]
      BY <2>1 DEF Close, NoAsk, KTyped, KInv, Shaped, AskRecord, Of
    <2>3. \A l \in Keys : passkey'[l].there = passkey[l].there
      BY <1>k, <2>1 DEF KTyped, KInv, Shaped
    <2>4. \A l \in Keys : Pending(l)' \subseteq Pending(l)
      BY <2>2 DEF Pending, Of
    <2>5. Registered'
      BY <1>k, <2>1, <2>2, <2>3 DEF KTyped, Registered, Of
    <2> QED
      BY <1>b, <2>1, <2>4, <2>5, BudgetShrinks
  <1>6. CASE UNCHANGED keyVars
    <2>1. \A l \in Keys : Pending(l)' = Pending(l)
      BY <1>6 DEF keyVars, Pending, Of
    <2>2. Registered'
      BY <1>6 DEF keyVars, KTyped, Registered, Of
    <2> QED
      BY <1>b, <1>6, <2>1, <2>2, BudgetShrinks DEF keyVars
  <1> QED
    BY <1>1, <1>2, <1>3, <1>4, <1>5, <1>6 DEF KeysNext

(* The rows and requests of passkeys have their types: no counter passes the *)
(* requests begun, and only a registered passkey is counted or revoked       *)
(* (user_auth_service.py, bump_sign_count and revoke_passkey).               *)
THEOREM KeysTypeCorrect == KeysSpec => []KeysTypeOK
  <1>1. KTyped => KeysTypeOK
    <2> SUFFICES ASSUME KTyped PROVE KeysTypeOK
      OBVIOUS
    <2>1. ASSUME NEW k \in Keys PROVE passkey[k].count \in 0..MaxAsks /\ bumps[k] \in 0..MaxAsks
      <3>1. passkey[k].count \in Nat /\ bumps[k] \in Nat /\ passkey[k].count <= bumps[k]
        BY DEF KTyped, KInv, Shaped, Behind
      <3>2. /\ Cardinality(Pending(k)) \in Nat /\ bumps[k] + Cardinality(Pending(k)) <= asked
            /\ asked \in Nat /\ asked <= MaxAsks
        BY FS_CardinalityType DEF KTyped, Budget
      <3> QED
        BY <3>1, <3>2, MaxAsksNat
    <2>2. \A c \in Asks : ask[c].op \in {"none", "count", "revoke", "stamp"}
      BY DEF KTyped, KInv, Shaped, AskRecord
    <2> QED
      BY <2>1, <2>2 DEF KTyped, Registered, KeysTypeOK
  <1> QED
    BY <1>1, KeysStartTyped, KeysStepTyped, PTL DEF KeysSpec

(***************************************************************************)
(* Embeddings: whose text one is.                                          *)
(***************************************************************************)

TaskSet == [memo : Memos, of : 1..Part, kind : {"insert", "refresh"},
            stage : {"generate", "update", "store"}]

\* An embedding goes with its note, an id is not used twice, and the sweep
\* has a batch only while it runs.
EmbRows ==
    /\ \A n \in Memos : text[n] = 0 => vector[n] = 0
    /\ \A n \in gone : text[n] = 0
    /\ sweep # "running" => batch = {}

\* One writer at most is at a note nobody is unsure about, and it holds the
\* present text.  A writer that inserts finds no row.
OneWriter(n) ==
    /\ \A t \in tasks : t.memo = n =>
          /\ t.of = text[n]
          /\ t.kind = "insert" \/ t.stage = "store" => vector[n] = 0
          /\ \A u \in tasks : u.memo = n => u = t
          /\ \A b \in batch : b.memo # n
    /\ \A b \in batch : b.memo = n => b.of = text[n] /\ vector[n] = 0
    /\ ~Contested(n) => vector[n] = text[n]

Writers == \A n \in Memos \ unsure : text[n] # 0 => OneWriter(n)

\* What the sweep found and has not failed at is filled, on its list, or deleted.
Filling ==
    \A n \in found : /\ text[n] # 0 \/ n \in gone
                     /\ text[n] # 0 => vector[n] # 0 \/ \E b \in batch : b.memo = n

EInv == EmbTypeOK /\ EmbRows /\ Writers /\ Filling

LEMMA EmbStart == EmbInit => EInv
  BY EmbBounds DEF EmbInit, EInv, EmbTypeOK, EmbRows, Writers, Filling, Part

\* What the scheduling of a task does to the writers of all notes.
LEMMA Schedules ==
  ASSUME EInv, NEW n \in Memos, NEW of \in 1..Part, NEW kind \in {"insert", "refresh"},
         Schedule(n, of, kind), UNCHANGED <<gone, vector, sweep, batch, boots, found>>,
         text' = [text EXCEPT ![n] = of] \/ of = Part,
         text[n] = 0 => kind = "insert",
         kind = "insert" => text[n] = 0,
         text' \in [Memos -> 0..MaxText],
         \A m \in Memos \ {n} : text'[m] = text[m],
         text'[n] # 0, n \notin gone
  PROVE  EInv'
  <1> DEFINE new == Task(n, of, kind)
  <1>1. /\ new \in TaskSet /\ new.memo = n /\ new.of = of /\ new.kind = kind
        /\ new.stage = "generate"
        /\ tasks' = tasks \cup {new}
        /\ unsure' = IF Contested(n) \/ of = Part THEN unsure \cup {n} ELSE unsure \ {n}
    BY DEF Schedule, Task, TaskSet
  <1>2. tasks \subseteq TaskSet
    BY DEF EInv, EmbTypeOK, TaskSet
  <1>3. EmbTypeOK'
    BY <1>1, <1>2 DEF EInv, EmbTypeOK, TaskSet, Part
  <1>4. EmbRows' /\ Filling'
    BY DEF EInv, EmbRows, Filling, EmbTypeOK
  <1>5. Writers'
    <2> SUFFICES ASSUME NEW m \in Memos, m \notin unsure', text'[m] # 0 PROVE OneWriter(m)'
      BY DEF Writers
    <2>1. CASE m = n
      <3>1. ~Contested(n) /\ of # Part /\ text'[n] = of
        BY <1>1, <2>1 DEF EInv, EmbTypeOK
      <3>2. kind = "insert" => vector[n] = 0
        BY DEF EInv, EmbRows
      <3> QED
        BY <1>1, <2>1, <3>1, <3>2 DEF OneWriter, Contested
    <2>2. CASE m # n
      <3>1. OneWriter(m) /\ text'[m] = text[m]
        BY <1>1, <2>2 DEF EInv, Writers
      <3>2. \A t \in tasks' : t.memo = m => t \in tasks
        BY <1>1, <2>2
      <3>3. Contested(m)' <=> Contested(m)
        BY <1>1, <2>2 DEF Contested
      <3> QED
        BY <3>1, <3>2, <3>3 DEF OneWriter
    <2> QED
      BY <2>1, <2>2
  <1> QED
    BY <1>3, <1>4, <1>5 DEF EInv

LEMMA InsertKeeps == ASSUME EInv, NEW n \in Memos, InsertMemo(n) PROVE EInv'
  <1>1. 1 \in 1..Part /\ 1 \in 0..MaxText /\ text \in [Memos -> 0..MaxText]
    BY EmbBounds DEF Part, EInv, EmbTypeOK
  <1>2. /\ text' = [text EXCEPT ![n] = 1]
        /\ Schedule(n, 1, "insert") /\ text[n] = 0 /\ n \notin gone
        /\ UNCHANGED <<gone, vector, sweep, batch, boots, found>>
    BY DEF InsertMemo
  <1>3. /\ text' \in [Memos -> 0..MaxText] /\ text'[n] # 0
        /\ \A m \in Memos \ {n} : text'[m] = text[m]
    BY <1>1, <1>2
  <1> QED
    BY <1>1, <1>2, <1>3, Schedules

LEMMA UpdateKeeps ==
  ASSUME EInv, NEW n \in Memos, NEW whole \in BOOLEAN, UpdateMemo(n, whole)
  PROVE  EInv'
  <1> DEFINE of == IF whole THEN text[n] + 1 ELSE Part
  <1>1. /\ text \in [Memos -> 0..MaxText] /\ text[n] \in 1..(MaxText - 1)
        /\ text' = [text EXCEPT ![n] = text[n] + 1]
        /\ Schedule(n, of, "refresh")
        /\ UNCHANGED <<gone, vector, sweep, batch, boots, found>>
    BY DEF UpdateMemo, EInv, EmbTypeOK
  <1>2. /\ of \in 1..Part /\ (text' = [text EXCEPT ![n] = of] \/ of = Part)
        /\ text' \in [Memos -> 0..MaxText] /\ text[n] # 0 /\ text'[n] # 0
        /\ \A m \in Memos \ {n} : text'[m] = text[m]
    <2>1. of \in 1..Part /\ text[n] + 1 \in 1..MaxText /\ text[n] # 0
      BY <1>1, EmbBounds DEF Part
    <2>2. text' = [text EXCEPT ![n] = of] \/ of = Part
      BY <1>1
    <2>3. /\ text' \in [Memos -> 0..MaxText] /\ text'[n] = text[n] + 1
          /\ \A m \in Memos \ {n} : text'[m] = text[m]
      <3> HIDE DEF of
      <3> QED
        BY <1>1, <2>1, EmbBounds
    <2>4. text'[n] # 0
      BY <2>1, <2>3
    <2> QED
      BY <2>1, <2>2, <2>3, <2>4
  <1>3. n \notin gone
    BY <1>2 DEF EInv, EmbRows
  <1> HIDE DEF of
  <1> QED
    BY <1>1, <1>2, <1>3, Schedules

\* A row changed without a task: the note is unsure of its embedding.
LEMMA BlankKeeps ==
  ASSUME EInv, NEW n \in Memos, InsertBlank(n) \/ RetitleMemo(n)
  PROVE  EInv'
  <1>1. /\ text \in [Memos -> 0..MaxText] /\ text' \in [Memos -> 0..MaxText]
        /\ \A m \in Memos \ {n} : text'[m] = text[m]
        /\ text'[n] # 0 /\ n \notin gone /\ unsure' = unsure \cup {n}
        /\ UNCHANGED <<gone, vector, tasks, sweep, batch, boots, found>>
    BY EmbBounds DEF InsertBlank, RetitleMemo, EInv, EmbTypeOK, EmbRows
  <1>2. EmbTypeOK' /\ EmbRows' /\ Filling'
    <2>1. EmbTypeOK'
      BY <1>1 DEF EInv, EmbTypeOK
    <2>2. EmbRows'
      BY <1>1 DEF EInv, EmbRows, EmbTypeOK
    <2>3. \A m \in found : text'[m] # 0 \/ m \in gone
      BY <1>1 DEF EInv, Filling, EmbTypeOK
    <2>4. n \in found => text[n] # 0
      BY <1>1 DEF EInv, Filling
    <2>5. Filling'
      BY <1>1, <2>3, <2>4 DEF EInv, Filling, EmbTypeOK
    <2> QED
      BY <2>1, <2>2, <2>5
  <1>3. Writers'
    BY <1>1 DEF EInv, Writers, OneWriter, Contested
  <1> QED
    BY <1>2, <1>3 DEF EInv

LEMMA DeleteKeeps == ASSUME EInv, NEW n \in Memos, DeleteMemo(n) PROVE EInv'
  <1>1. /\ text \in [Memos -> 0..MaxText] /\ vector \in [Memos -> 0..Part]
        /\ text' = [text EXCEPT ![n] = 0] /\ vector' = [vector EXCEPT ![n] = 0]
        /\ gone' = gone \cup {n}
        /\ UNCHANGED <<tasks, sweep, batch, boots, found, unsure>>
    BY DEF DeleteMemo, EInv, EmbTypeOK
  <1>2. EmbTypeOK'
    BY <1>1, EmbBounds DEF EInv, EmbTypeOK, Part
  <1>3. EmbRows'
    BY <1>1 DEF EInv, EmbRows, EmbTypeOK
  <1>4. Filling'
    BY <1>1 DEF EInv, Filling, EmbTypeOK
  <1>5. Writers'
    <2> SUFFICES ASSUME NEW m \in Memos, m \notin unsure, text'[m] # 0 PROVE OneWriter(m)'
      BY <1>1 DEF Writers
    <2>1. m # n /\ text'[m] = text[m] /\ vector'[m] = vector[m] /\ OneWriter(m)
      BY <1>1 DEF EInv, Writers
    <2> QED
      BY <1>1, <2>1 DEF OneWriter, Contested
  <1> QED
    BY <1>2, <1>3, <1>4, <1>5 DEF EInv

\* A task that leaves the others and the rows as they are.
LEMMA MovesOn ==
  ASSUME EInv, NEW t \in tasks, NEW shifted \in TaskSet,
         shifted.memo = t.memo, shifted.of = t.of, shifted.kind = t.kind,
         tasks' = (tasks \ {t}) \cup {shifted},
         t.memo \notin unsure /\ shifted.stage = "store" => vector[t.memo] = 0 \/ text[t.memo] = 0,
         UNCHANGED <<text, gone, vector, sweep, batch, boots, found, unsure>>
  PROVE  EInv'
  <1>1. tasks \subseteq TaskSet /\ t.memo \in Memos
    BY DEF EInv, EmbTypeOK, TaskSet
  <1>2. EmbTypeOK'
    BY <1>1 DEF EInv, EmbTypeOK, TaskSet
  <1>3. EmbRows' /\ Filling'
    BY DEF EInv, EmbRows, Filling
  <1>4. Writers'
    <2> SUFFICES ASSUME NEW m \in Memos, m \notin unsure, text[m] # 0 PROVE OneWriter(m)'
      BY DEF Writers
    <2>1. OneWriter(m)
      BY DEF EInv, Writers
    <2>2. Contested(m)' <=> Contested(m)
      BY DEF Contested
    <2>3. CASE m = t.memo
      <3>1. \A u \in tasks' : u.memo = m => u = shifted
        BY <2>1, <2>3 DEF OneWriter
      <3>2. /\ t.of = text[m] /\ (t.kind = "insert" => vector[m] = 0)
            /\ \A b \in batch : b.memo # m
        BY <2>1, <2>3 DEF OneWriter
      <3> QED
        BY <2>1, <2>2, <2>3, <3>1, <3>2 DEF OneWriter
    <2>4. CASE m # t.memo
      <3>1. \A u \in tasks' : u.memo = m => u \in tasks
        BY <2>4
      <3> QED
        BY <2>1, <2>2, <3>1 DEF OneWriter
    <2> QED
      BY <2>3, <2>4
  <1> QED
    BY <1>2, <1>3, <1>4 DEF EInv

LEMMA GeneratedKeeps == ASSUME EInv, NEW t \in tasks, Generated(t) PROVE EInv'
  <1> DEFINE shifted == [t EXCEPT !.stage = IF t.kind = "insert" THEN "store" ELSE "update"]
  <1>1. t \in TaskSet
    BY DEF EInv, EmbTypeOK, TaskSet
  <1>2. /\ shifted \in TaskSet /\ shifted.memo = t.memo /\ shifted.of = t.of /\ shifted.kind = t.kind
        /\ (shifted.stage = "store" => t.kind = "insert")
    BY <1>1 DEF TaskSet
  <1>3. t.memo \notin unsure /\ t.kind = "insert" => vector[t.memo] = 0 \/ text[t.memo] = 0
    BY <1>1 DEF EInv, Writers, OneWriter, TaskSet
  <1>4. /\ tasks' = (tasks \ {t}) \cup {shifted}
        /\ UNCHANGED <<text, gone, vector, sweep, batch, boots, found, unsure>>
    BY DEF Generated
  <1> HIDE DEF shifted
  <1> QED
    BY <1>2, <1>3, <1>4, MovesOn

\* A writer that ends has written its text, or the note is unsure or deleted.
LEMMA Ends ==
  ASSUME EInv, NEW t \in tasks, tasks' = tasks \ {t},
         unsure' = unsure \/ unsure' = unsure \cup {t.memo},
         \/ vector' = [vector EXCEPT ![t.memo] = t.of] /\ text[t.memo] # 0
         \/ vector' = vector /\ (t.memo \in unsure' \/ text[t.memo] = 0),
         UNCHANGED <<text, gone, sweep, batch, boots, found>>
  PROVE  EInv'
  <1>1. /\ tasks \subseteq TaskSet /\ t.memo \in Memos /\ t.of \in 1..Part
        /\ vector \in [Memos -> 0..Part]
    BY DEF EInv, EmbTypeOK, TaskSet
  <1>2. /\ vector' \in [Memos -> 0..Part]
        /\ \A m \in Memos : m # t.memo => vector'[m] = vector[m]
        /\ \A m \in Memos : vector[m] # 0 => vector'[m] # 0
        /\ \A m \in Memos : text[m] = 0 => vector'[m] = vector[m]
    BY <1>1, EmbBounds DEF Part
  <1>3. EmbTypeOK'
    BY <1>1, <1>2 DEF EInv, EmbTypeOK
  <1>4. EmbRows'
    BY <1>2 DEF EInv, EmbRows
  <1>5. Filling'
    BY <1>2 DEF EInv, Filling, EmbTypeOK
  <1>6. Writers'
    <2> SUFFICES ASSUME NEW m \in Memos, m \notin unsure', text[m] # 0 PROVE OneWriter(m)'
      BY DEF Writers
    <2>1. OneWriter(m) /\ m \notin unsure
      BY DEF EInv, Writers
    <2>2. CASE m = t.memo
      <3>1. vector'[m] = t.of /\ t.of = text[m]
        BY <1>1, <2>1, <2>2 DEF OneWriter
      <3>2. (\A u \in tasks' : u.memo # m) /\ \A b \in batch : b.memo # m
        BY <2>1, <2>2 DEF OneWriter
      <3> QED
        BY <3>1, <3>2 DEF OneWriter, Contested
    <2>3. CASE m # t.memo
      <3>1. (Contested(m)' <=> Contested(m)) /\ vector'[m] = vector[m]
        BY <1>2, <2>3 DEF Contested
      <3> QED
        BY <2>1, <3>1 DEF OneWriter
    <2> QED
      BY <2>2, <2>3
  <1> QED
    BY <1>3, <1>4, <1>5, <1>6 DEF EInv

LEMMA UpdateVectorKeeps == ASSUME EInv, NEW t \in tasks, UpdateVector(t) PROVE EInv'
  <1>1. t \in TaskSet
    BY DEF EInv, EmbTypeOK, TaskSet
  <1>2. CASE vector[t.memo] # 0
    <2>1. text[t.memo] # 0
      BY <1>1, <1>2 DEF EInv, EmbRows, TaskSet
    <2> QED
      BY <1>2, <2>1, Ends DEF UpdateVector
  <1>3. CASE vector[t.memo] = 0
    <2> DEFINE shifted == [t EXCEPT !.stage = "store"]
    <2>1. shifted \in TaskSet /\ shifted.memo = t.memo /\ shifted.of = t.of /\ shifted.kind = t.kind
      BY <1>1 DEF TaskSet
    <2>2. /\ tasks' = (tasks \ {t}) \cup {shifted}
          /\ UNCHANGED <<text, gone, vector, sweep, batch, boots, found, unsure>>
      BY <1>3 DEF UpdateVector
    <2> HIDE DEF shifted
    <2> QED
      BY <1>3, <2>1, <2>2, MovesOn
  <1> QED
    BY <1>2, <1>3

LEMMA StoreVectorKeeps == ASSUME EInv, NEW t \in tasks, StoreVector(t) PROVE EInv'
  <1>1. t.memo \in Memos
    BY DEF EInv, EmbTypeOK
  <1>2. t.memo \notin unsure /\ text[t.memo] # 0 => vector[t.memo] = 0
    BY <1>1 DEF EInv, Writers, OneWriter, StoreVector
  <1> QED
    BY <1>2, Ends DEF StoreVector, AfterStore

LEMMA TaskFailsKeeps == ASSUME EInv, NEW t \in tasks, TaskFails(t) PROVE EInv'
  BY Ends DEF TaskFails

LEMMA ScanKeeps == ASSUME EInv, ScanMissing PROVE EInv'
  <1> DEFINE missing == {n \in Memos : text[n] # 0 /\ vector[n] = 0}
  <1>1. PICK chosen \in SUBSET missing :
          /\ batch' = {[memo |-> n, of |-> text[n]] : n \in chosen}
          /\ found' = chosen
          /\ unsure' = (unsure \ chosen) \cup {n \in chosen : \E t \in tasks : t.memo = n}
    BY DEF ScanMissing
  <1>2. /\ sweep = "due" /\ sweep' = "running" /\ batch = {}
        /\ UNCHANGED <<text, gone, vector, tasks, boots>>
    BY DEF ScanMissing, EInv, EmbRows
  <1>3. \A n \in chosen : n \in Memos /\ text[n] \in 1..MaxText /\ vector[n] = 0
    BY DEF EInv, EmbTypeOK
  <1>4. \A n \in Memos : (\E b \in batch' : b.memo = n) <=> n \in chosen
    <2> TAKE n \in Memos
    <2>1. ASSUME n \in chosen PROVE \E b \in batch' : b.memo = n
      <3>1. [memo |-> n, of |-> text[n]] \in batch' /\ [memo |-> n, of |-> text[n]].memo = n
        BY <1>1, <2>1
      <3> QED
        BY <3>1
    <2>2. ASSUME NEW b \in batch', b.memo = n PROVE n \in chosen
      <3>1. PICK k \in chosen : b = [memo |-> k, of |-> text[k]]
        BY <1>1
      <3> QED
        BY <2>2, <3>1
    <2> QED
      BY <2>1, <2>2
  <1>5. EmbTypeOK'
    BY <1>1, <1>2, <1>3 DEF EInv, EmbTypeOK
  <1>6. EmbRows' /\ Filling'
    BY <1>1, <1>2, <1>3, <1>4 DEF EInv, EmbRows, Filling
  <1>7. Writers'
    <2> SUFFICES ASSUME NEW m \in Memos, m \notin unsure', text[m] # 0 PROVE OneWriter(m)'
      BY <1>2 DEF Writers
    <2>1. CASE m \in chosen
      <3>1. \A t \in tasks : t.memo # m
        BY <1>1, <2>1
      <3>2. \A b \in batch' : b.memo = m => b.of = text[m]
        BY <1>1
      <3>3. Contested(m)'
        BY <1>4, <2>1 DEF Contested
      <3> QED
        BY <1>2, <1>3, <2>1, <3>1, <3>2, <3>3 DEF OneWriter
    <2>2. CASE m \notin chosen
      <3>1. OneWriter(m)
        BY <1>1, <2>2 DEF EInv, Writers
      <3>2. \A b \in batch' : b.memo # m
        BY <1>4, <2>2
      <3>3. Contested(m)' <=> Contested(m)
        BY <1>2, <3>2 DEF Contested
      <3> QED
        BY <1>2, <3>1, <3>2, <3>3 DEF OneWriter
    <2> QED
      BY <2>1, <2>2
  <1> QED
    BY <1>5, <1>6, <1>7 DEF EInv

LEMMA EncodeKeeps ==
  ASSUME EInv, NEW b \in batch, NEW fails \in BOOLEAN, Encode(b, fails)
  PROVE  EInv'
  <1>1. /\ b.memo \in Memos /\ b.of \in 1..MaxText /\ vector \in [Memos -> 0..Part]
        /\ \A d \in batch : d.memo \in Memos
        /\ found \subseteq Memos
    BY DEF EInv, EmbTypeOK
  <1>2. /\ batch' = batch \ {b}
        /\ UNCHANGED <<text, gone, tasks, sweep, boots>>
        /\ fails => /\ vector' = vector /\ found' = found \ {b.memo}
                    /\ unsure' = unsure \cup {b.memo}
        /\ ~fails => vector' = AfterStore(b.memo, b.of) /\ UNCHANGED <<found, unsure>>
    BY DEF Encode
  <1>3. /\ vector' \in [Memos -> 0..Part]
        /\ \A m \in Memos : m # b.memo \/ text[m] = 0 => vector'[m] = vector[m]
        /\ \A m \in Memos : vector[m] # 0 => vector'[m] = vector[m]
        /\ ~fails /\ text[b.memo] # 0 => vector'[b.memo] # 0
        /\ ~fails /\ text[b.memo] # 0 /\ vector[b.memo] = 0 => vector'[b.memo] = b.of
    BY <1>1, <1>2, EmbBounds DEF AfterStore, Part
  <1>4. EmbTypeOK'
    BY <1>1, <1>2, <1>3 DEF EInv, EmbTypeOK
  <1>5. EmbRows'
    BY <1>2, <1>3 DEF EInv, EmbRows
  <1>6. Filling'
    <2> SUFFICES ASSUME NEW n \in found'
                 PROVE  /\ text[n] # 0 \/ n \in gone
                        /\ text[n] # 0 => vector'[n] # 0 \/ \E d \in batch' : d.memo = n
      BY <1>2 DEF Filling
    <2>1. n \in found /\ n \in Memos /\ (n = b.memo => ~fails)
      BY <1>1, <1>2
    <2> QED
      BY <1>2, <1>3, <2>1 DEF EInv, Filling
  <1>7. Writers'
    <2> SUFFICES ASSUME NEW m \in Memos, m \notin unsure', text[m] # 0 PROVE OneWriter(m)'
      BY <1>2 DEF Writers
    <2>1. OneWriter(m) /\ (m = b.memo => ~fails)
      BY <1>2 DEF EInv, Writers
    <2>2. CASE m = b.memo
      <3>1. b.of = text[m] /\ vector[m] = 0 /\ vector'[m] = text[m]
        BY <1>3, <2>1, <2>2 DEF OneWriter
      <3>2. \A d \in batch : d.memo = m => d = b
        <4>1. \A d \in batch : d.memo = m => d.of = text[m]
          BY <2>1 DEF OneWriter
        <4>2. batch \subseteq [memo : Memos, of : 1..MaxText]
          BY DEF EInv, EmbTypeOK
        <4> QED
          BY <2>2, <3>1, <4>1, <4>2
      <3>3. \A t \in tasks : t.memo # m
        BY <2>1, <2>2 DEF OneWriter
      <3> QED
        BY <1>2, <3>1, <3>2, <3>3 DEF OneWriter
    <2>3. CASE m # b.memo
      <3>1. (Contested(m)' <=> Contested(m)) /\ vector'[m] = vector[m]
        BY <1>2, <1>3, <2>3 DEF Contested
      <3> QED
        BY <1>2, <2>1, <3>1 DEF OneWriter
    <2> QED
      BY <2>2, <2>3
  <1> QED
    BY <1>4, <1>5, <1>6, <1>7 DEF EInv

LEMMA SweepEndsKeeps == ASSUME EInv, SweepEnds PROVE EInv'
  BY DEF EInv, EmbTypeOK, EmbRows, Writers, OneWriter, Contested, Filling, SweepEnds

LEMMA RebootKeeps == ASSUME EInv, Reboot PROVE EInv'
  <1>1. EmbTypeOK' /\ EmbRows' /\ Filling'
    BY EmbBounds DEF EInv, EmbTypeOK, EmbRows, Filling, Reboot
  <1>2. Writers'
    BY DEF EInv, Writers, OneWriter, Contested, Reboot
  <1> QED
    BY <1>1, <1>2 DEF EInv

LEMMA EmbSteps == EInv /\ [EmbNext]_embVars => EInv'
  <1> SUFFICES ASSUME EInv, [EmbNext]_embVars PROVE EInv'
    OBVIOUS
  <1>1. ASSUME NEW n \in Memos, InsertMemo(n) PROVE EInv'
    BY <1>1, InsertKeeps
  <1>2. ASSUME NEW n \in Memos, InsertBlank(n) \/ RetitleMemo(n) PROVE EInv'
    BY <1>2, BlankKeeps
  <1>3. ASSUME NEW n \in Memos, DeleteMemo(n) PROVE EInv'
    BY <1>3, DeleteKeeps
  <1>4. ASSUME NEW n \in Memos, NEW whole \in BOOLEAN, UpdateMemo(n, whole) PROVE EInv'
    BY <1>4, UpdateKeeps
  <1>5. ASSUME NEW t \in tasks, Generated(t) PROVE EInv'
    BY <1>5, GeneratedKeeps
  <1>6. ASSUME NEW t \in tasks, UpdateVector(t) PROVE EInv'
    BY <1>6, UpdateVectorKeeps
  <1>7. ASSUME NEW t \in tasks, StoreVector(t) \/ TaskFails(t) PROVE EInv'
    BY <1>7, StoreVectorKeeps, TaskFailsKeeps
  <1>8. CASE ScanMissing
    BY <1>8, ScanKeeps
  <1>9. ASSUME NEW b \in batch, NEW fails \in BOOLEAN, Encode(b, fails) PROVE EInv'
    BY <1>9, EncodeKeeps
  <1>10. CASE SweepEnds \/ Reboot
    BY <1>10, SweepEndsKeeps, RebootKeeps
  <1>11. CASE UNCHANGED embVars
    BY <1>11 DEF embVars, EInv, EmbTypeOK, EmbRows, Writers, OneWriter, Contested, Filling
  <1> QED
    BY <1>1, <1>2, <1>3, <1>4, <1>5, <1>6, <1>7, <1>8, <1>9, <1>10, <1>11 DEF EmbNext

LEMMA EmbAlways == EmbSpec => []EInv
  BY EmbStart, EmbSteps, PTL DEF EmbSpec

(* EmbRows, tasks and the sweep keep their types (note_facade.py, embedding.py, *)
(* missing_embedding_process.py).                                            *)
THEOREM EmbTyped == EmbSpec => []EmbTypeOK
  <1>1. EInv => EmbTypeOK
    BY DEF EInv
  <1> QED
    BY <1>1, EmbAlways, PTL

(* A note whose last writer was alone, did not fail and had the whole text   *)
(* has, with no task left, the embedding of its present text                 *)
(* (NoteRepoFacade, EmbeddingPostgresRepo): however many notes, edits, tasks *)
(* and boots there are.                                                      *)
THEOREM EmbeddingAlwaysCurrent == EmbSpec => []EmbeddingIsCurrent
  <1>1. EInv => EmbeddingIsCurrent
    BY DEF EInv, Writers, OneWriter, EmbeddingIsCurrent
  <1> QED
    BY <1>1, EmbAlways, PTL

(* What a sweep found missing and could encode has an embedding when it is   *)
(* over (MissingEmbeddingProcess.run), whichever task raced it.              *)
THEOREM SweepAlwaysFills == EmbSpec => []SweepFills
  <1>1. EInv => SweepFills
    BY DEF EInv, EmbRows, Filling, SweepFills
  <1> QED
    BY <1>1, EmbAlways, PTL

(***************************************************************************)
(* Rules: every stored one can run, and a dispatch depends on its event.   *)
(***************************************************************************)

Edit == [rule : Rules \cup {Top}, change : Changes \cup {Top}]
Listing == SUBSET [id : Rules, row : Row]
Dispatch == [stage : {"idle", "scope", "run"}, subject : Entities,
             listed : Listing, left : Listing, matched : Listing, skipped : Listing,
             folders : SUBSET Folders, tags : SUBSET Tags]

RuleShape ==
    /\ ruleRow \in [Rules -> Row \cup {Top}]
    /\ inFolders \subseteq Folders /\ tagged \in [Entities -> SUBSET Tags]
    /\ disp \in Dispatch
    /\ disp.left \subseteq disp.listed /\ disp.matched \subseteq disp.listed
    /\ disp.skipped \subseteq disp.listed
    /\ editor \in [Editors -> Edit]
    /\ crossed \subseteq Rules /\ edits \in 0..MaxEdits /\ events \in 0..MaxEvents

\* The request at a rule that only one request is at would still be accepted.
Editing ==
    \A e \in Editors : editor[e] # NoEdit =>
        /\ editor[e].rule \in Rules /\ editor[e].change \in Changes
        /\ editor[e].rule \notin crossed =>
              /\ \/ ruleRow[editor[e].rule] = Top
                 \/ ValidUpdate(ruleRow[editor[e].rule], editor[e].change)
              /\ \A o \in Editors : editor[o].rule = editor[e].rule => o = e

EditInv == RuleShape /\ Editing /\ StoredActionsParse

LEMMA RuleStarts == RuleInit => EditInv
  <1> SUFFICES ASSUME RuleInit PROVE EditInv
    OBVIOUS
  <1>1. RuleShape
    <2>1. ruleRow \in [Rules -> Row \cup {Top}]
      BY RulesAssumption DEF RuleInit
    <2>2. disp \in Dispatch
      BY DEF RuleInit, NoDispatch, Dispatch, Listing, Entities
    <2>3. editor \in [Editors -> Edit]
      BY DEF RuleInit, NoEdit, Edit
    <2> QED
      BY <2>1, <2>2, <2>3, RulesAssumption DEF RuleInit, RuleShape, NoDispatch
  <1>2. Editing
    BY DEF RuleInit, Editing, NoEdit
  <1>3. StoredActionsParse
    BY DEF RuleInit, StoredActionsParse
  <1> QED
    BY <1>1, <1>2, <1>3 DEF EditInv

\* A row with fields taken from another is a row.
LEMMA MergedIsRow ==
  ASSUME NEW old \in Row, NEW change \in Changes
  PROVE  Merged(old, change) \in Row
  <1>1. change.row \in Row
    BY RulesAssumption
  <1> QED
    BY <1>1 DEF Merged, Fields, Row

\* What an accepted update leaves of an action that could run can run.
LEMMA MergedFits ==
  ASSUME NEW old \in Row, NEW change \in Changes,
         Fits(old.kind, old.arg), ValidUpdate(old, change)
  PROVE  Fits(Merged(old, change).kind, Merged(old, change).arg)
  <1>1. CASE change.give \cap {"kind", "arg"} # {}
    BY <1>1 DEF ValidUpdate
  <1>2. CASE change.give \cap {"kind", "arg"} = {}
    <2>1. Merged(old, change).kind = old.kind /\ Merged(old, change).arg = old.arg
      BY <1>2 DEF Merged, Fields
    <2> QED
      BY <2>1
  <1> QED
    BY <1>1, <1>2

\* Steps of the dispatcher touch no row and no request.
LEMMA DispatchingEdits ==
  ASSUME EditInv, UNCHANGED <<ruleRow, editor, edits, crossed>>,
         inFolders' \subseteq Folders, tagged' \in [Entities -> SUBSET Tags],
         disp' \in Dispatch, disp'.left \subseteq disp'.listed,
         disp'.matched \subseteq disp'.listed, disp'.skipped \subseteq disp'.listed,
         events' \in 0..MaxEvents
  PROVE  EditInv'
  <1>1. RuleShape'
    BY DEF EditInv, RuleShape
  <1>2. Editing'
    BY DEF EditInv, Editing
  <1>3. StoredActionsParse'
    BY DEF EditInv, StoredActionsParse
  <1> QED
    BY <1>1, <1>2, <1>3 DEF EditInv

LEMMA CreateRuleKeeps ==
  ASSUME EditInv, NEW r \in Rules, NEW row \in Rows, CreateRule(r, row)
  PROVE  EditInv'
  <1> USE DEF EditInv, CreateRule
  <1>1. RuleShape'
    BY RulesAssumption DEF RuleShape
  <1>2. Editing'
    BY DEF Editing, RuleShape
  <1>3. StoredActionsParse'
    BY DEF StoredActionsParse, RuleShape
  <1> QED
    BY <1>1, <1>2, <1>3

LEMMA DeleteRuleKeeps ==
  ASSUME EditInv, NEW r \in Rules, DeleteRule(r)
  PROVE  EditInv'
  <1> USE DEF EditInv, DeleteRule
  <1>1. RuleShape'
    BY RulesAssumption DEF RuleShape
  <1>2. Editing'
    BY DEF Editing, RuleShape
  <1>3. StoredActionsParse'
    BY DEF StoredActionsParse, RuleShape
  <1> QED
    BY <1>1, <1>2, <1>3

LEMMA BeginUpdateKeeps ==
  ASSUME EditInv, NEW e \in Editors, NEW r \in Rules, NEW change \in Changes,
         BeginUpdate(e, r, change)
  PROVE  EditInv'
  <1> USE DEF EditInv, BeginUpdate
  <1>1. RuleShape'
    BY RulesAssumption DEF RuleShape, Edit
  <1>2. Editing'
    <2> SUFFICES ASSUME NEW f \in Editors, editor'[f] # NoEdit
                 PROVE  /\ editor'[f].rule \in Rules /\ editor'[f].change \in Changes
                        /\ editor'[f].rule \notin crossed' =>
                              /\ \/ ruleRow'[editor'[f].rule] = Top
                                 \/ ValidUpdate(ruleRow'[editor'[f].rule], editor'[f].change)
                              /\ \A o \in Editors : editor'[o].rule = editor'[f].rule => o = f
      BY DEF Editing
    <2>1. /\ editor'[e] = [rule |-> r, change |-> change]
          /\ \A o \in Editors \ {e} : editor'[o] = editor[o]
          /\ ruleRow' = ruleRow
      BY DEF RuleShape
    <2>2. (\E o \in Editors : editor[o].rule = r) => r \in crossed'
      OBVIOUS
    <2>3. CASE f = e
      <3>1. editor'[f].rule = r /\ editor'[f].change = change
        BY <2>1, <2>3
      <3>2. ASSUME r \notin crossed', NEW o \in Editors, editor'[o].rule = r PROVE o = f
        BY <2>1, <2>2, <2>3, <3>2
      <3> QED
        BY <2>1, <3>1, <3>2
    <2>4. CASE f # e
      <3>1. editor'[f] = editor[f] /\ editor[f] # NoEdit
        BY <2>1, <2>4
      <3>2. editor[f].rule \in Rules /\ editor[f].change \in Changes
        BY <3>1 DEF Editing
      <3>3. ASSUME editor[f].rule \notin crossed' PROVE editor[f].rule # r
        BY <2>2, <3>3
      <3>4. ASSUME editor[f].rule \notin crossed', NEW o \in Editors,
                   editor'[o].rule = editor[f].rule
            PROVE  o = f
        BY <2>1, <3>1, <3>3, <3>4 DEF Editing
      <3>5. crossed \subseteq crossed'
        OBVIOUS
      <3> QED
        BY <2>1, <3>1, <3>2, <3>4, <3>5 DEF Editing
    <2> QED
      BY <2>3, <2>4
  <1>3. StoredActionsParse'
    BY DEF StoredActionsParse
  <1> QED
    BY <1>1, <1>2, <1>3

LEMMA WriteUpdateKeeps ==
  ASSUME EditInv, NEW e \in Editors, WriteUpdate(e)
  PROVE  EditInv'
  <1> USE DEF EditInv
  <1>1. PICK r \in Rules : r = editor[e].rule
    BY DEF WriteUpdate, Editing
  <1>2. PICK change \in Changes : change = editor[e].change
    BY DEF WriteUpdate, Editing
  <1>3. /\ ruleRow' = IF ruleRow[r] = Top THEN ruleRow
                      ELSE [ruleRow EXCEPT ![r] = Merged(ruleRow[r], change)]
        /\ editor' = [editor EXCEPT ![e] = NoEdit]
        /\ UNCHANGED <<inFolders, tagged, disp, edits, events, crossed, moved>>
    BY <1>1, <1>2 DEF WriteUpdate, RuleShape
  <1>4. ruleRow[r] # Top => Merged(ruleRow[r], change) \in Row
    BY MergedIsRow DEF RuleShape
  <1>5. RuleShape'
    <2>1. NoEdit \in Edit
      BY DEF NoEdit, Edit
    <2> QED
      BY <1>3, <1>4, <2>1 DEF RuleShape
  <1>6. /\ editor'[e] = NoEdit /\ \A f \in Editors \ {e} : editor'[f] = editor[f]
        /\ \A q \in Rules \ {r} : ruleRow'[q] = ruleRow[q]
    BY <1>3 DEF RuleShape
  <1>7. Editing'
    <2> SUFFICES ASSUME NEW f \in Editors, editor'[f] # NoEdit
                 PROVE  /\ editor'[f].rule \in Rules /\ editor'[f].change \in Changes
                        /\ editor'[f].rule \notin crossed' =>
                              /\ \/ ruleRow'[editor'[f].rule] = Top
                                 \/ ValidUpdate(ruleRow'[editor'[f].rule], editor'[f].change)
                              /\ \A o \in Editors : editor'[o].rule = editor'[f].rule => o = f
      BY DEF Editing
    <2>1. f # e /\ editor'[f] = editor[f] /\ editor[f] # NoEdit
      BY <1>6
    <2>2. editor[f].rule \in Rules /\ editor[f].change \in Changes
      BY <2>1 DEF Editing
    <2>3. ASSUME editor[f].rule \notin crossed PROVE editor[f].rule # r
      BY <1>1, <2>1, <2>3 DEF Editing
    <2>4. ASSUME editor[f].rule \notin crossed, NEW o \in Editors,
                 editor'[o].rule = editor[f].rule
          PROVE  o = f
      <3>1. CASE o = e
        BY <1>6, <2>2, <2>4, <3>1, RulesAssumption DEF NoEdit
      <3>2. CASE o # e
        BY <1>6, <2>1, <2>4, <3>2 DEF Editing
      <3> QED
        BY <3>1, <3>2
    <2> QED
      BY <1>3, <1>6, <2>1, <2>2, <2>3, <2>4 DEF Editing
  <1>8. StoredActionsParse'
    <2> SUFFICES ASSUME NEW q \in Rules, q \notin crossed, ruleRow'[q] # Top
                 PROVE  Fits(ruleRow'[q].kind, ruleRow'[q].arg)
      BY <1>3 DEF StoredActionsParse
    <2>1. CASE q # r
      BY <1>6, <2>1 DEF StoredActionsParse
    <2>2. CASE q = r
      <3>1. ruleRow[r] # Top
        BY <1>3, <2>2
      <3>2. ruleRow[r] \in Row /\ ruleRow'[r] = Merged(ruleRow[r], change)
        BY <1>3, <3>1 DEF RuleShape
      <3>3. Fits(ruleRow[r].kind, ruleRow[r].arg) /\ ValidUpdate(ruleRow[r], change)
        BY <1>1, <1>2, <2>2, <3>1 DEF WriteUpdate, Editing, StoredActionsParse
      <3> QED
        BY <2>2, <3>2, <3>3, MergedFits
    <2> QED
      BY <2>1, <2>2
  <1> QED
    BY <1>5, <1>7, <1>8

\* A rule that is in scope of the note wherever it was, or of one of its places.
Sure(x) == \A d \in disp.folders : Matches(x.row, TheNote, d)
May(x) == \E d \in disp.folders : Matches(x.row, TheNote, d)

\* The rules the dispatch is through with, and has not skipped; what those that
\* matched gave.
Through == disp.listed \ (disp.skipped \cup disp.left)
Gave(kind) == {x.row.arg : x \in {y \in Through \cap disp.matched : y.row.kind = kind}}

\* How far a dispatch is whose note nobody moved.
Scoping ==
    /\ inFolders = disp.folders /\ tagged[TheNote] = disp.tags
    /\ disp.matched \cap (disp.left \cup disp.skipped) = {} /\ disp.left \cap disp.skipped = {}
Running ==
    /\ disp.left \subseteq disp.matched /\ disp.left \cap disp.skipped = {}
    /\ disp.folders \cup Gave("add_to_directory") = inFolders
    /\ disp.tags \cup Gave("add_tag") = tagged[TheNote]
Dispatching ==
    disp.stage # "idle" /\ disp.subject = TheNote /\ ~moved =>
        /\ \A x \in disp.matched : May(x)
        /\ \A x \in Through : Sure(x) => x \in disp.matched
        /\ disp.stage = "scope" => Scoping
        /\ disp.stage = "run" => Running

RuleInv == EditInv /\ Dispatching

\* Steps of the rule service touch no dispatch.
LEMMA EditsDispatch ==
  ASSUME Dispatching, UNCHANGED <<inFolders, tagged, disp, moved>>
  PROVE  Dispatching'
  <1>1. /\ \A x : Sure(x)' <=> Sure(x)
        /\ \A x : May(x)' <=> May(x)
    BY DEF Sure, May
  <1>2. Through' = Through
    BY DEF Through
  <1>3. Scoping' <=> Scoping
    BY DEF Scoping
  <1>4. Running' <=> Running
    BY DEF Running, Gave, Through
  <1> QED
    BY <1>1, <1>2, <1>3, <1>4 DEF Dispatching

LEMMA PublishKeeps ==
  ASSUME RuleInv, NEW s \in Entities, Publish(s)
  PROVE  RuleInv'
  <1>1. PICK listed \in Listing :
          disp' = [NoDispatch EXCEPT !.stage = "scope", !.subject = s,
                                     !.folders = inFolders, !.tags = tagged[s],
                                     !.listed = listed, !.left = listed]
    <2> DEFINE stored == {r \in Rules : ruleRow[r] # Top}
               all == {[id |-> r, row |-> ruleRow[r]] : r \in stored}
               enabled == {x \in all : x.row.enabled}
    <2>1. enabled \in Listing
      BY DEF RuleInv, EditInv, RuleShape, Listing
    <2>2. disp' = [NoDispatch EXCEPT !.stage = "scope", !.subject = s,
                                     !.folders = inFolders, !.tags = tagged[s],
                                     !.listed = enabled, !.left = enabled]
      BY DEF Publish
    <2> HIDE DEF enabled
    <2> QED
      BY <2>1, <2>2
  <1>2. disp' = [stage |-> "scope", subject |-> s, listed |-> listed, left |-> listed,
                 matched |-> {}, skipped |-> {}, folders |-> inFolders, tags |-> tagged[s]]
    BY <1>1 DEF NoDispatch
  <1>3. /\ disp' \in Dispatch /\ disp'.left = disp'.listed
        /\ disp'.matched = {} /\ disp'.skipped = {} /\ disp'.stage = "scope"
        /\ disp'.subject = s /\ disp'.folders = inFolders /\ disp'.tags = tagged[s]
    BY <1>2 DEF RuleInv, EditInv, RuleShape, Dispatch, Listing
  <1>4. /\ events' \in 0..MaxEvents
        /\ UNCHANGED <<ruleRow, inFolders, tagged, editor, edits, crossed>>
    BY RulesAssumption DEF Publish, RuleInv, EditInv, RuleShape
  <1>5. EditInv'
    BY <1>3, <1>4, DispatchingEdits DEF RuleInv, EditInv, RuleShape
  <1>6. Through' = {}
    BY <1>3 DEF Through
  <1>7. s = TheNote => Scoping'
    BY <1>3, <1>4 DEF Scoping
  <1>8. Dispatching'
    BY <1>3, <1>6, <1>7 DEF Dispatching
  <1> QED
    BY <1>5, <1>8 DEF RuleInv

LEMMA FilterKeeps ==
  ASSUME RuleInv, NEW x \in disp.left, NEW works \in BOOLEAN, Filter(x, works)
  PROVE  RuleInv'
  <1>1. PICK d \in PlaceOf(disp.subject) :
          disp' = [disp EXCEPT !.left = @ \ {x},
                               !.matched = IF works /\ Matches(x.row, disp.subject, d)
                                           THEN @ \cup {x} ELSE @,
                               !.skipped = IF works THEN @ ELSE @ \cup {x}]
    BY DEF Filter
  <1>2. PICK hit \in BOOLEAN : hit = (works /\ Matches(x.row, disp.subject, d))
    OBVIOUS
  <1>3. /\ disp \in Dispatch /\ disp.left \subseteq disp.listed
        /\ disp.matched \subseteq disp.listed /\ disp.skipped \subseteq disp.listed
    BY DEF RuleInv, EditInv, RuleShape
  <1>4. /\ disp'.stage = disp.stage /\ disp'.subject = disp.subject
        /\ disp'.listed = disp.listed /\ disp'.left = disp.left \ {x}
        /\ disp'.matched = IF hit THEN disp.matched \cup {x} ELSE disp.matched
        /\ disp'.skipped = IF works THEN disp.skipped ELSE disp.skipped \cup {x}
        /\ disp'.folders = disp.folders /\ disp'.tags = disp.tags
        /\ disp' \in Dispatch
    BY <1>1, <1>2, <1>3 DEF Dispatch, Listing
  <1>5. /\ disp.stage = "scope" /\ x \in disp.left
        /\ UNCHANGED <<ruleRow, inFolders, tagged, editor, edits, events, crossed, moved>>
    BY DEF Filter
  <1>6. EditInv'
    BY <1>3, <1>4, <1>5, DispatchingEdits DEF RuleInv, EditInv, RuleShape
  <1>7. Dispatching'
    <2> SUFFICES ASSUME disp.subject = TheNote, ~moved
                 PROVE  /\ \A y \in disp'.matched : May(y)'
                        /\ \A y \in Through' : Sure(y)' => y \in disp'.matched
                        /\ Scoping'
      BY <1>4, <1>5 DEF Dispatching
    <2>1. /\ \A y \in disp.matched : May(y)
          /\ \A y \in Through : Sure(y) => y \in disp.matched
          /\ Scoping
      BY <1>5 DEF RuleInv, Dispatching
    <2>2. /\ \A y : Sure(y)' <=> Sure(y)
          /\ \A y : May(y)' <=> May(y)
      BY <1>4 DEF Sure, May
    <2>3. d \in disp.folders
      BY <2>1 DEF Scoping, PlaceOf
    <2>4. hit => May(x)
      BY <1>2, <2>3 DEF May
    <2>5. works /\ Sure(x) => hit
      BY <1>2, <2>3 DEF Sure
    <2>6. \A y \in Through' : y \in Through \/ (y = x /\ works)
      BY <1>4 DEF Through
    <2>7. hit => works
      BY <1>2
    <2>8. disp'.matched \cap (disp'.left \cup disp'.skipped) = {}
      BY <1>4, <2>1, <2>7 DEF Scoping
    <2>9. Scoping'
      BY <1>4, <1>5, <2>1, <2>8 DEF Scoping
    <2> QED
      BY <1>4, <2>1, <2>2, <2>4, <2>5, <2>6, <2>9
  <1> QED
    BY <1>6, <1>7 DEF RuleInv

LEMMA FilteredKeeps ==
  ASSUME RuleInv, Filtered
  PROVE  RuleInv'
  <1>1. /\ disp \in Dispatch /\ disp.left \subseteq disp.listed
        /\ disp.matched \subseteq disp.listed /\ disp.skipped \subseteq disp.listed
    BY DEF RuleInv, EditInv, RuleShape
  <1>2. /\ disp'.stage = "run" /\ disp'.subject = disp.subject
        /\ disp'.listed = disp.listed /\ disp'.left = disp.matched
        /\ disp'.matched = disp.matched /\ disp'.skipped = disp.skipped
        /\ disp'.folders = disp.folders /\ disp'.tags = disp.tags
        /\ disp' \in Dispatch
    BY <1>1 DEF Filtered, Dispatch
  <1>3. /\ disp.stage = "scope" /\ disp.left = {}
        /\ UNCHANGED <<ruleRow, inFolders, tagged, editor, edits, events, crossed, moved>>
    BY DEF Filtered
  <1>4. EditInv'
    BY <1>1, <1>2, <1>3, DispatchingEdits DEF RuleInv, EditInv, RuleShape
  <1>5. Dispatching'
    <2> SUFFICES ASSUME disp.subject = TheNote, ~moved
                 PROVE  /\ \A y \in disp'.matched : May(y)'
                        /\ \A y \in Through' : Sure(y)' => y \in disp'.matched
                        /\ Running'
      BY <1>2, <1>3 DEF Dispatching
    <2>1. /\ \A y \in disp.matched : May(y)
          /\ \A y \in Through : Sure(y) => y \in disp.matched
          /\ Scoping
      BY <1>3 DEF RuleInv, Dispatching
    <2>2. /\ \A y : Sure(y)' <=> Sure(y)
          /\ \A y : May(y)' <=> May(y)
      BY <1>2 DEF Sure, May
    <2>3. Through' \subseteq Through /\ Through' \cap disp'.matched = {}
      BY <1>2, <1>3 DEF Through
    <2>4. Gave("add_to_directory")' = {} /\ Gave("add_tag")' = {}
      BY <2>3 DEF Gave
    <2>5. Running'
      BY <1>2, <1>3, <2>1, <2>4 DEF Running, Scoping
    <2> QED
      BY <1>2, <2>1, <2>2, <2>3, <2>5
  <1> QED
    BY <1>4, <1>5 DEF RuleInv

\* A rule that was run gave what its action says, and no other changed what was given.
LEMMA RunRuleKeeps ==
  ASSUME RuleInv, NEW x \in disp.left, NEW works \in BOOLEAN, RunRule(x, works)
  PROVE  RuleInv'
  <1>1. PICK done \in BOOLEAN : done = (works /\ Fits(x.row.kind, x.row.arg))
    OBVIOUS
  <1>2. /\ disp \in Dispatch /\ disp.left \subseteq disp.listed
        /\ disp.matched \subseteq disp.listed /\ disp.skipped \subseteq disp.listed
        /\ inFolders \subseteq Folders /\ tagged \in [Entities -> SUBSET Tags]
    BY DEF RuleInv, EditInv, RuleShape
  <1>3. /\ disp' = IF done THEN [disp EXCEPT !.left = @ \ {x}]
                   ELSE [disp EXCEPT !.left = @ \ {x}, !.skipped = @ \cup {x}]
        /\ IF done THEN Effect(x.row, disp.subject) ELSE UNCHANGED <<inFolders, tagged>>
        /\ disp.stage = "run" /\ x \in disp.left
        /\ UNCHANGED <<ruleRow, editor, edits, events, crossed, moved>>
    BY <1>1 DEF RunRule
  <1>4. /\ disp'.stage = "run" /\ disp'.subject = disp.subject
        /\ disp'.listed = disp.listed /\ disp'.left = disp.left \ {x}
        /\ disp'.matched = disp.matched
        /\ disp'.skipped = IF done THEN disp.skipped ELSE disp.skipped \cup {x}
        /\ disp'.folders = disp.folders /\ disp'.tags = disp.tags
        /\ disp' \in Dispatch
    BY <1>2, <1>3 DEF Dispatch, Listing
  <1>5. x \in disp.listed /\ x.row \in Row /\ disp.subject \in Entities
    BY <1>2, <1>3 DEF Dispatch, Listing
  <1>6. x.row.kind \in {"add_to_directory", "add_tag"}
    BY <1>5 DEF Row
  <1>7. /\ inFolders' \subseteq Folders /\ tagged' \in [Entities -> SUBSET Tags]
        /\ disp.subject = TheNote =>
              /\ inFolders' = IF done /\ x.row.kind = "add_to_directory"
                              THEN inFolders \cup {x.row.arg} ELSE inFolders
              /\ tagged'[TheNote] = IF done /\ x.row.kind = "add_tag"
                                    THEN tagged[TheNote] \cup {x.row.arg} ELSE tagged[TheNote]
    <2>1. CASE done
      <3>1. Fits(x.row.kind, x.row.arg)
        BY <1>1, <2>1
      <3>2. CASE x.row.kind = "add_tag"
        BY <1>2, <1>3, <1>5, <2>1, <3>1, <3>2 DEF Effect, Fits, Entities
      <3>3. CASE x.row.kind = "add_to_directory"
        BY <1>2, <1>3, <1>5, <2>1, <3>1, <3>3 DEF Effect, Fits, Entities
      <3> QED
        BY <1>6, <3>2, <3>3
    <2>2. CASE ~done
      BY <1>2, <1>3, <2>2
    <2> QED
      BY <2>1, <2>2
  <1>8. EditInv'
    BY <1>2, <1>3, <1>4, <1>7, DispatchingEdits DEF RuleInv, EditInv, RuleShape
  <1>9. Dispatching'
    <2> SUFFICES ASSUME disp.subject = TheNote, ~moved
                 PROVE  /\ \A y \in disp'.matched : May(y)'
                        /\ \A y \in Through' : Sure(y)' => y \in disp'.matched
                        /\ Running'
      BY <1>3, <1>4 DEF Dispatching
    <2>1. /\ \A y \in disp.matched : May(y)
          /\ \A y \in Through : Sure(y) => y \in disp.matched
          /\ Running
      BY <1>3 DEF RuleInv, Dispatching
    <2>2. /\ \A y : Sure(y)' <=> Sure(y)
          /\ \A y : May(y)' <=> May(y)
      BY <1>4 DEF Sure, May
    <2>3. x \in disp.matched /\ x \notin disp.skipped
      BY <1>3, <2>1 DEF Running
    <2>4. Through' = IF done THEN Through \cup {x} ELSE Through
      BY <1>3, <1>4, <1>5, <2>3 DEF Through
    <2>5. ASSUME NEW kind
          PROVE  Gave(kind)' = IF done /\ x.row.kind = kind THEN Gave(kind) \cup {x.row.arg}
                               ELSE Gave(kind)
      <3> DEFINE of(S) == {y.row.arg : y \in {z \in S : z.row.kind = kind}}
      <3>1. Gave(kind)' = of(Through' \cap disp.matched) /\ Gave(kind) = of(Through \cap disp.matched)
        BY <1>4 DEF Gave
      <3>2. CASE done
        <4>1. Through' \cap disp.matched = (Through \cap disp.matched) \cup {x}
          BY <2>3, <2>4, <3>2
        <4>2. \A S : of(S \cup {x}) = IF x.row.kind = kind THEN of(S) \cup {x.row.arg} ELSE of(S)
          OBVIOUS
        <4> QED
          BY <3>1, <3>2, <4>1, <4>2
      <3>3. CASE ~done
        BY <2>4, <3>1, <3>3
      <3> QED
        BY <3>2, <3>3
    <2>6. Running'
      <3>1. disp'.left \subseteq disp'.matched /\ disp'.left \cap disp'.skipped = {}
        BY <1>4, <2>1 DEF Running
      <3>2. disp'.folders \cup Gave("add_to_directory")' = inFolders'
        BY <1>4, <1>7, <2>1, <2>5 DEF Running
      <3>3. disp'.tags \cup Gave("add_tag")' = tagged'[TheNote]
        BY <1>4, <1>7, <2>1, <2>5 DEF Running
      <3> QED
        BY <3>1, <3>2, <3>3 DEF Running
    <2> QED
      BY <1>4, <2>1, <2>2, <2>3, <2>4, <2>6
  <1> QED
    BY <1>8, <1>9 DEF RuleInv

LEMMA DispatchedKeeps ==
  ASSUME RuleInv, Dispatched
  PROVE  RuleInv'
  <1>1. /\ NoDispatch \in Dispatch /\ NoDispatch.stage = "idle"
        /\ NoDispatch.left = {} /\ NoDispatch.matched = {} /\ NoDispatch.skipped = {}
    BY DEF NoDispatch, Dispatch, Listing, Entities
  <1>2. EditInv'
    BY <1>1, DispatchingEdits DEF Dispatched, RuleInv, EditInv, RuleShape
  <1>3. Dispatching'
    BY <1>1 DEF Dispatched, Dispatching
  <1> QED
    BY <1>2, <1>3 DEF RuleInv

LEMMA MoveNoteKeeps ==
  ASSUME RuleInv, NEW to \in SUBSET Folders \ {{}}, MoveNote(to)
  PROVE  RuleInv'
  <1>1. EditInv'
    BY DispatchingEdits DEF MoveNote, RuleInv, EditInv, RuleShape
  <1>2. Dispatching'
    BY DEF MoveNote, Dispatching
  <1> QED
    BY <1>1, <1>2 DEF RuleInv

LEMMA RuleStep == RuleInv /\ [RuleNext]_ruleVars => RuleInv'
  <1> SUFFICES ASSUME RuleInv, [RuleNext]_ruleVars PROVE RuleInv'
    OBVIOUS
  <1> EditInv /\ Dispatching
    BY DEF RuleInv
  <1>1. CASE \E r \in Rules : DeleteRule(r)
    BY <1>1, DeleteRuleKeeps, EditsDispatch DEF DeleteRule, RuleInv
  <1>2. CASE \E r \in Rules, row \in Rows : CreateRule(r, row)
    BY <1>2, CreateRuleKeeps, EditsDispatch DEF CreateRule, RuleInv
  <1>3. CASE \E e \in Editors, r \in Rules, change \in Changes : BeginUpdate(e, r, change)
    BY <1>3, BeginUpdateKeeps, EditsDispatch DEF BeginUpdate, RuleInv
  <1>4. CASE \E e \in Editors : WriteUpdate(e)
    BY <1>4, WriteUpdateKeeps, EditsDispatch DEF WriteUpdate, RuleInv
  <1>5. CASE \E s \in Entities : Publish(s)
    BY <1>5, PublishKeeps
  <1>6. CASE \E x \in disp.left, works \in BOOLEAN : Filter(x, works)
    BY <1>6, FilterKeeps
  <1>7. CASE \E x \in disp.left, works \in BOOLEAN : RunRule(x, works)
    BY <1>7, RunRuleKeeps
  <1>8. CASE Filtered
    BY <1>8, FilteredKeeps
  <1>9. CASE Dispatched
    BY <1>9, DispatchedKeeps
  <1>10. CASE \E to \in SUBSET Folders \ {{}} : MoveNote(to)
    BY <1>10, MoveNoteKeeps
  <1>11. CASE UNCHANGED ruleVars
    <2>1. EditInv'
      BY <1>11, DispatchingEdits DEF ruleVars, EditInv, RuleShape
    <2> QED
      BY <1>11, <2>1, EditsDispatch DEF ruleVars, RuleInv
  <1> QED
    BY <1>1, <1>2, <1>3, <1>4, <1>5, <1>6, <1>7, <1>8, <1>9, <1>10, <1>11 DEF RuleNext

LEMMA RulesHold == RuleSpec => []RuleInv
  <1>1. RuleInit => RuleInv
    BY RuleStarts DEF RuleInit, NoDispatch, RuleInv, Dispatching
  <1> QED
    BY <1>1, RuleStep, PTL DEF RuleSpec

(* Rows, requests and the dispatch have their types (rule_service.py,        *)
(* rule_dispatcher.py).                                                      *)
THEOREM RuleTypeCorrect == RuleSpec => []RuleTypeOK
  <1>1. RuleInv => RuleTypeOK
    BY DEF RuleInv, EditInv, RuleShape, RuleTypeOK, Dispatch, Listing
  <1> QED
    BY <1>1, RulesHold, PTL

(* Partial updates keep the action type of a rule and its context in step    *)
(* (rule_service.py, update_rule), unless two requests update it at once:    *)
(* every stored rule can run.                                                *)
THEOREM StoredRulesRun == RuleSpec => []StoredActionsParse
  <1>1. RuleInv => StoredActionsParse
    BY DEF RuleInv, EditInv
  <1> QED
    BY <1>1, RulesHold, PTL

(* At the end of a dispatch (rule_dispatcher.py) the note is where it was    *)
(* and where the matching rules put it, and has the tags it had and those    *)
(* they gave it, in whatever order they ran, whichever failed, and however   *)
(* the rules were edited meanwhile.                                          *)
THEOREM DispatchDependsOnItsEvent == RuleSpec => []DispatchIsExact
  <1>1. ASSUME RuleInv PROVE DispatchIsExact
    <2> SUFFICES ASSUME disp.stage = "run", disp.left = {}, disp.subject = TheNote, ~moved
                 PROVE  DispatchIsExact
      BY DEF DispatchIsExact
    <2>1. /\ \A y \in disp.matched : May(y)
          /\ \A y \in Through : Sure(y) => y \in disp.matched
          /\ disp.folders \cup Gave("add_to_directory") = inFolders
          /\ disp.tags \cup Gave("add_tag") = tagged[TheNote]
      BY <1>1 DEF RuleInv, Dispatching, Running
    <2> DEFINE ran == disp.listed \ disp.skipped
               sure == {x \in ran : \A d \in disp.folders : Matches(x.row, TheNote, d)}
               may == {x \in ran : \E d \in disp.folders : Matches(x.row, TheNote, d)}
               given(xs, kind) == {x.row.arg : x \in {y \in xs : y.row.kind = kind}}
    <2>2. Through = ran
      BY DEF Through
    <2>3. sure \subseteq Through \cap disp.matched
      BY <2>1, <2>2 DEF Sure
    <2>4. Through \cap disp.matched \subseteq may
      BY <2>1, <2>2 DEF May
    <2>5. \A kind : Gave(kind) = given(Through \cap disp.matched, kind)
      BY DEF Gave
    <2> HIDE DEF sure, may
    <2>6. \A kind : given(sure, kind) \subseteq Gave(kind) /\ Gave(kind) \subseteq given(may, kind)
      BY <2>3, <2>4, <2>5
    <2>7. /\ disp.folders \cup given(sure, "add_to_directory") \subseteq inFolders
          /\ inFolders \subseteq disp.folders \cup given(may, "add_to_directory")
          /\ disp.tags \cup given(sure, "add_tag") \subseteq tagged[TheNote]
          /\ tagged[TheNote] \subseteq disp.tags \cup given(may, "add_tag")
      BY <2>1, <2>6
    <2> QED
      BY <2>7 DEF DispatchIsExact, sure, may
  <1> QED
    BY <1>1, RulesHold, PTL

(***************************************************************************)
(* Attachments: the three properties of their stores, for all callers,     *)
(* notes and requests.  ObjInv says what a post and a delete have done so  *)
(* far, LinkInv what a link, an unlink and a delete have done to a target  *)
(* nobody else writes, DelInv that a delete nobody disturbed still has its *)
(* rights.                                                                 *)
(***************************************************************************)

Touched(c, t) == t \in Touches(attCall[c])
Even(t) == t \in links <=> t \in parents

\* A link and an unlink have a target.
Aimed == \A c \in AttCalls : attCall[c].op \in {"link", "unlink"} => attCall[c].target \in Parents

Typed == AttTypeOK /\ Aimed

ObjInv ==
    /\ \A c \in AttCalls : attCall[c].op = "delete" =>
          metadata # "none" /\ (attCall[c].stage = "tuple" => metadata = "deleted")
    /\ \A c \in AttCalls :
          attCall[c].op = "post" /\ attCall[c].stage = "row" /\ metadata = "none" => object
    /\ RowHasObject

\* A target outside unsettled has one writer at most.
Solo ==
    \A t \in Parents \ unsettled : \A c, d \in AttCalls : Touched(c, t) /\ Touched(d, t) => c = d

\* What its writer has done so far.
SoFar(c, t) ==
    \/ attCall[c].stage = "tuple" /\ attCall[c].op = "link" /\ t \in links
    \/ attCall[c].stage = "tuple" /\ attCall[c].op \in {"unlink", "delete"} /\ t \notin links
    \/ attCall[c].stage = "row" /\ attCall[c].op = "unlink"
    \/ attCall[c].stage \in {"object", "row"} /\ attCall[c].op \in {"link", "delete"} /\ Even(t)

LinkInv ==
    \A t \in (People \cup papers) \ unsettled :
        /\ (\A c \in AttCalls : ~Touched(c, t)) => Even(t)
        /\ \A c \in AttCalls : Touched(c, t) => SoFar(c, t)

\* A delete still has its rights, and nobody else is writing.
Entitled(c) == EditsAttachment(attCall[c].by)

DelInv ==
    \A c \in AttCalls : attCall[c].op = "delete" /\ Parents \cap unsettled = {} =>
        /\ Entitled(c)
        /\ \A d \in AttCalls \ {c} : Touches(attCall[d]) = {}

AInv == Typed /\ ObjInv /\ Solo /\ LinkInv /\ DelInv

CallType == [op : {"none", "post", "link", "unlink", "delete"}, stage : AttStages,
             by : People \cup {Nobody}, target : Parents \cup {Nobody}]

LEMMA TouchesIs ==
  ASSUME NEW r \in CallType
  PROVE  /\ r.op \in {"link", "unlink"} => Touches(r) = {r.target}
         /\ r.op = "delete" => Touches(r) = Parents
         /\ r.op \in {"none", "post"} => Touches(r) = {}
  BY DEF Touches, CallType

LEMMA RestIs == Rest \in CallType /\ Touches(Rest) = {} /\ Rest.op = "none" /\ Rest.stage = "idle"
  BY DEF Rest, CallType, AttStages, Touches

LEMMA InvInit == AttInit => AInv
  <1> SUFFICES ASSUME AttInit PROVE AInv
    OBVIOUS
  <1>0. \A c \in AttCalls : attCall[c] = Rest
    BY DEF AttInit
  <1>1. AttTypeOK
    <2>1. attCall \in [AttCalls -> CallType]
      BY RestIs DEF AttInit
    <2>2. metadata = "none" /\ object = FALSE /\ links = {} /\ parents = {} /\ papers = Papers
          /\ attBegun = 0 /\ unsettled = {}
      BY DEF AttInit
    <2>3. 0 \in 0..MaxAttCalls
      BY MaxAttCallsNat
    <2> QED
      BY <2>1, <2>2, <2>3 DEF AttTypeOK, CallType
  <1>2. ObjInv
    BY <1>0, RestIs DEF AttInit, ObjInv, RowHasObject
  <1>3. Solo /\ LinkInv
    BY <1>0, RestIs DEF AttInit, Solo, LinkInv, Touched, Even
  <1>4. DelInv
    BY <1>0, RestIs DEF AttInit, DelInv
  <1>5. Aimed
    BY <1>0, RestIs DEF Aimed
  <1> QED
    BY <1>1, <1>2, <1>3, <1>4, <1>5 DEF AInv, Typed

-----------------------------------------------------------------------------
(* The requests that begin, as one action of three cases.                    *)

AttBegins(c, u, op, stage, t) ==
    /\ AttBegin(c, op, stage, u, t)
    /\ \/ op = "post" /\ stage \in {"object", "row"} /\ t = Nobody /\ metadata = "none"
          /\ (stage = "row" => object)
       \/ op \in {"link", "unlink"} /\ stage = "row" /\ t \in Parents /\ metadata # "none"
       \/ op = "delete" /\ stage = "object" /\ t = Nobody /\ metadata # "none" /\ EditsAttachment(u)

Continues(c) ==
    \/ PutObject(c) \/ PostMetadata(c)
    \/ LinkRow(c) \/ LinkTuple(c) \/ UnlinkRow(c) \/ UnlinkTuple(c)
    \/ DeleteObject(c) \/ DeleteMetadata(c) \/ DeleteParents(c)
    \/ AttFails(c)

LEMMA NextIs ==
  ASSUME AttNext
  PROVE  \/ \E c \in AttCalls, u \in People, op \in {"post", "link", "unlink", "delete"},
               stage \in AttStages, t \in Parents \cup {Nobody} : AttBegins(c, u, op, stage, t)
         \/ \E c \in AttCalls : Continues(c)
         \/ Upload
         \/ \E n \in Papers : PaperGone(n)
  <1>1. ASSUME NEW c \in AttCalls, NEW u \in People,
               \/ BeginPost(c, u) \/ BeginPostUploaded(c, u) \/ BeginDeleteAttachment(c, u)
               \/ \E t \in Parents : BeginLink(c, u, t) \/ BeginUnlink(c, u, t)
        PROVE  \E op \in {"post", "link", "unlink", "delete"}, stage \in AttStages,
                  t \in Parents \cup {Nobody} : AttBegins(c, u, op, stage, t)
    <2>1. CASE BeginPost(c, u)
      <3>1. AttBegins(c, u, "post", "object", Nobody)
        BY <2>1 DEF BeginPost, AttBegins
      <3> QED
        BY <3>1 DEF AttStages
    <2>2. CASE BeginPostUploaded(c, u)
      <3>1. AttBegins(c, u, "post", "row", Nobody)
        BY <2>2 DEF BeginPostUploaded, AttBegins
      <3> QED
        BY <3>1 DEF AttStages
    <2>3. CASE BeginDeleteAttachment(c, u)
      <3>1. AttBegins(c, u, "delete", "object", Nobody)
        BY <2>3 DEF BeginDeleteAttachment, AttBegins
      <3> QED
        BY <3>1 DEF AttStages
    <2>4. ASSUME NEW t \in Parents, BeginLink(c, u, t) PROVE AttBegins(c, u, "link", "row", t)
      BY <2>4 DEF BeginLink, AttBegins
    <2>5. ASSUME NEW t \in Parents, BeginUnlink(c, u, t) PROVE AttBegins(c, u, "unlink", "row", t)
      BY <2>5 DEF BeginUnlink, AttBegins
    <2> QED
      BY <1>1, <2>1, <2>2, <2>3, <2>4, <2>5 DEF AttStages
  <1> QED
    BY <1>1 DEF AttNext, Continues

LEMMA BeginsTyped ==
  ASSUME Typed, NEW c \in AttCalls, NEW u \in People, NEW op \in {"post", "link", "unlink", "delete"},
         NEW stage \in AttStages, NEW t \in Parents \cup {Nobody}, AttBegins(c, u, op, stage, t)
  PROVE  /\ Typed'
         /\ attCall'[c] = [op |-> op, stage |-> stage, by |-> u, target |-> t]
         /\ attCall'[c] \in CallType
         /\ attCall[c].stage = "idle"
         /\ UNCHANGED <<object, metadata, links, parents, papers>>
         /\ \A d \in AttCalls \ {c} : attCall'[d] = attCall[d]
         /\ \A x \in Touches(attCall'[c]), d \in AttCalls \ {c} :
               Touched(d, x) => x \in unsettled'
         /\ \A x : x \in unsettled /\ (op = "unlink" => x # t) => x \in unsettled'
         /\ \A x : x \in unsettled' =>
               \/ x \in unsettled
               \/ x \in Touches(attCall'[c]) /\ \E d \in AttCalls \ {c} : Touched(d, x)
  <1> DEFINE r == [op |-> op, stage |-> stage, by |-> u, target |-> t]
  <1>1. r \in CallType
    BY DEF CallType
  <1>2. Touches(r) \subseteq Parents
    <2>1. op \in {"link", "unlink"} => t \in Parents
      BY DEF AttBegins
    <2> QED
      BY <1>1, <2>1, TouchesIs
  <1>3. /\ attCall' = [attCall EXCEPT ![c] = r]
        /\ unsettled' = (unsettled \ {x \in {t} : op = "unlink"}) \cup
                          (Touches(r) \cap UNION {Touches(attCall[d]) : d \in AttCalls \ {c}})
        /\ attBegun < MaxAttCalls /\ attBegun' = attBegun + 1
        /\ UNCHANGED <<object, metadata, links, parents, papers>>
        /\ attCall[c].stage = "idle"
    BY DEF AttBegin, AttBegins
  <1>5. attCall'[c] = r /\ \A d \in AttCalls \ {c} : attCall'[d] = attCall[d]
    BY <1>3 DEF Typed, AttTypeOK
  <1>6. unsettled' \subseteq Parents \cup {"object"}
    BY <1>2, <1>3 DEF Typed, AttTypeOK
  <1>7. AttTypeOK'
    <2>1. attCall' \in [AttCalls -> CallType]
      BY <1>1, <1>3 DEF Typed, AttTypeOK, CallType
    <2>2. attBegun' \in 0..MaxAttCalls
      BY <1>3, MaxAttCallsNat DEF Typed, AttTypeOK
    <2> QED
      BY <1>3, <1>6, <2>1, <2>2 DEF Typed, AttTypeOK, CallType
  <1>8. \A x : x \in UNION {Touches(attCall[d]) : d \in AttCalls \ {c}}
               <=> \E d \in AttCalls \ {c} : Touched(d, x)
    BY DEF Touched
  <1>9. Aimed'
    BY <1>5 DEF Typed, Aimed, AttBegins
  <1> QED
    BY <1>1, <1>3, <1>5, <1>7, <1>8, <1>9 DEF Typed

\* What a step of a request does besides writing its store.
LEMMA StepTyped ==
  ASSUME Typed, NEW c \in AttCalls, Continues(c)
  PROVE  /\ Typed'
         /\ attCall[c] \in CallType /\ attCall'[c] \in CallType
         /\ \/ attCall'[c] = Rest
            \/ attCall'[c] = [attCall[c] EXCEPT !.stage = "row"]
            \/ attCall'[c] = [attCall[c] EXCEPT !.stage = "tuple"]
         /\ \A d \in AttCalls \ {c} : attCall'[d] = attCall[d]
         /\ Touches(attCall'[c]) \subseteq Touches(attCall[c])
         /\ papers' = papers
         /\ \A t \in Parents : t \in unsettled => t \in unsettled'
  <1>1. attCall[c] \in CallType
    BY DEF Typed, AttTypeOK, CallType
  <1>2. /\ \/ attCall' = [attCall EXCEPT ![c] = Rest]
           \/ attCall' = [attCall EXCEPT ![c].stage = "row"]
           \/ attCall' = [attCall EXCEPT ![c].stage = "tuple"]
        /\ papers' = papers /\ attBegun' = attBegun
    BY DEF Continues, PutObject, PostMetadata, LinkRow, LinkTuple, UnlinkRow, UnlinkTuple, DeleteObject,
           DeleteMetadata, DeleteParents, AttFails
  <1>3. /\ \/ attCall'[c] = Rest
           \/ attCall'[c] = [attCall[c] EXCEPT !.stage = "row"]
           \/ attCall'[c] = [attCall[c] EXCEPT !.stage = "tuple"]
        /\ \A d \in AttCalls \ {c} : attCall'[d] = attCall[d]
    BY <1>2 DEF Typed, AttTypeOK
  <1>4. attCall'[c] \in CallType
    BY <1>1, <1>3, RestIs DEF CallType, AttStages
  <1>5. attCall' \in [AttCalls -> CallType]
    <2>1. \A d \in AttCalls : attCall'[d] \in CallType
      BY <1>3, <1>4 DEF Typed, AttTypeOK, CallType
    <2>2. attCall' = [d \in AttCalls |-> attCall'[d]]
      BY <1>2 DEF Typed, AttTypeOK
    <2> QED
      BY <2>1, <2>2
  <1>6. Touches(attCall'[c]) \subseteq Touches(attCall[c])
    <2>1. CASE attCall'[c] = Rest
      BY <2>1, RestIs
    <2>2. CASE attCall'[c].op = attCall[c].op /\ attCall'[c].target = attCall[c].target
      BY <2>2 DEF Touches
    <2> QED
      BY <1>1, <1>3, <2>1, <2>2 DEF CallType
  <1>7. Touches(attCall[c]) \subseteq Parents
    BY <1>1, TouchesIs DEF CallType, Typed, Aimed
  <1>8. \A t \in Parents : t # "object"
    BY TargetsDistinct
  <1>9. \A t \in Parents : t \in unsettled => t \in unsettled'
    BY <1>8 DEF Continues, PutObject, PostMetadata, LinkRow, LinkTuple, UnlinkRow, UnlinkTuple, DeleteObject,
           DeleteMetadata, DeleteParents, AttFails
  <1>10. Aimed'
    <2>1. \/ attCall'[c] = Rest
          \/ attCall'[c].op = attCall[c].op /\ attCall'[c].target = attCall[c].target
      BY <1>1, <1>3 DEF CallType
    <2> QED
      BY <1>3, <2>1, RestIs DEF Typed, Aimed
  <1>11. links' \subseteq Parents /\ parents' \subseteq Parents
    <2>1. links \subseteq Parents /\ parents \subseteq Parents /\ papers \subseteq Papers
      BY DEF Typed, AttTypeOK
    <2>2. attCall[c].op = "link" => attCall[c].target \in Parents
      BY DEF Typed, Aimed
    <2> QED
      BY <2>1, <2>2 DEF Continues, PutObject, PostMetadata, LinkRow, LinkTuple, UnlinkRow, UnlinkTuple,
           DeleteObject, DeleteMetadata, DeleteParents, AttFails
  <1>12. unsettled' \subseteq Parents \cup {"object"}
    <2>1. unsettled \subseteq Parents \cup {"object"}
      BY DEF Typed, AttTypeOK
    <2> QED
      BY <1>7, <2>1 DEF Continues, PutObject, PostMetadata, LinkRow, LinkTuple, UnlinkRow, UnlinkTuple,
           DeleteObject, DeleteMetadata, DeleteParents, AttFails
  <1>13. object' \in BOOLEAN /\ metadata' \in {"none", "row", "deleted"}
    <2>1. object \in BOOLEAN /\ metadata \in {"none", "row", "deleted"}
      BY DEF Typed, AttTypeOK
    <2>2. object' \in {object, TRUE, FALSE} /\ metadata' \in {metadata, "row", "deleted"}
      BY DEF Continues, PutObject, PostMetadata, LinkRow, LinkTuple, UnlinkRow, UnlinkTuple,
           DeleteObject, DeleteMetadata, DeleteParents, AttFails
    <2> QED
      BY <2>1, <2>2
  <1>14. AttTypeOK'
    BY <1>2, <1>5, <1>11, <1>12, <1>13 DEF Typed, AttTypeOK, CallType
  <1> QED
    BY <1>1, <1>2, <1>3, <1>4, <1>6, <1>9, <1>10, <1>14 DEF Typed

-----------------------------------------------------------------------------
(* The object store and the metadata row.                                    *)

LEMMA ObjBegins ==
  ASSUME Typed, ObjInv, NEW c \in AttCalls, NEW u \in People, NEW op \in {"post", "link", "unlink", "delete"},
         NEW stage \in AttStages, NEW t \in Parents \cup {Nobody}, AttBegins(c, u, op, stage, t)
  PROVE  ObjInv'
  <1>1. /\ attCall'[c] = [op |-> op, stage |-> stage, by |-> u, target |-> t]
        /\ attCall[c].stage = "idle"
        /\ UNCHANGED <<object, metadata, links, parents, papers>>
        /\ \A d \in AttCalls \ {c} : attCall'[d] = attCall[d]
        /\ \A x : x \in unsettled /\ (op = "unlink" => x # t) => x \in unsettled'
    BY BeginsTyped
  <1>2. /\ op = "delete" => metadata # "none" /\ stage = "object"
        /\ op = "post" /\ stage = "row" => object
        /\ op = "unlink" => t \in Parents
    BY DEF AttBegins
  <1>3. RowHasObject'
    <2>1. "object" \in unsettled => "object" \in unsettled'
      BY <1>1, <1>2, TargetsDistinct
    <2>2. \A d \in AttCalls : attCall[d].stage = "row" => attCall'[d] = attCall[d]
      BY <1>1
    <2> QED
      BY <1>1, <2>1, <2>2 DEF ObjInv, RowHasObject
  <1>4. \A d \in AttCalls : attCall'[d].op = "delete" =>
          metadata' # "none" /\ (attCall'[d].stage = "tuple" => metadata' = "deleted")
    BY <1>1, <1>2 DEF ObjInv
  <1>5. \A d \in AttCalls :
          attCall'[d].op = "post" /\ attCall'[d].stage = "row" /\ metadata' = "none" => object'
    BY <1>1, <1>2 DEF ObjInv
  <1> QED
    BY <1>3, <1>4, <1>5 DEF ObjInv

LEMMA ObjContinues ==
  ASSUME Typed, ObjInv, NEW c \in AttCalls, Continues(c)
  PROVE  ObjInv'
  <1>1. /\ attCall[c] \in CallType
        /\ \/ attCall'[c] = Rest
           \/ attCall'[c] = [attCall[c] EXCEPT !.stage = "row"]
           \/ attCall'[c] = [attCall[c] EXCEPT !.stage = "tuple"]
        /\ \A d \in AttCalls \ {c} : attCall'[d] = attCall[d]
    BY StepTyped
  <1>2. /\ attCall'[c].op \in {"none", attCall[c].op}
        /\ attCall'[c].op = "none" \/ attCall'[c].stage \in {"row", "tuple"}
    BY <1>1, RestIs DEF CallType
  <1>3. attCall \in [AttCalls -> CallType]
    BY DEF Typed, AttTypeOK, CallType
  <1>4. CASE PutObject(c)
    <2>1. attCall[c].op = "post" /\ object' = TRUE /\ metadata' = metadata
      BY <1>4 DEF PutObject
    <2> QED
      BY <1>1, <1>2, <2>1 DEF ObjInv, RowHasObject
  <1>5. CASE PostMetadata(c)
    <2>1. /\ attCall[c].op = "post" /\ attCall[c].stage = "row" /\ object' = object
          /\ unsettled' = unsettled
          /\ metadata' = IF metadata = "none" THEN "row" ELSE metadata
          /\ attCall'[c] = Rest
      BY <1>3, <1>5 DEF PostMetadata
    <2> QED
      BY <1>1, <2>1, RestIs DEF ObjInv, RowHasObject
  <1>6. CASE LinkRow(c) \/ LinkTuple(c) \/ UnlinkRow(c) \/ UnlinkTuple(c)
    <2>1. attCall[c].op \in {"link", "unlink"} /\ UNCHANGED <<object, metadata, unsettled>>
      BY <1>6 DEF LinkRow, LinkTuple, UnlinkRow, UnlinkTuple
    <2> QED
      BY <1>1, <1>2, <2>1 DEF ObjInv, RowHasObject
  <1>7. CASE DeleteObject(c)
    <2>1. attCall[c].op = "delete" /\ metadata' = metadata /\ metadata # "none"
      BY <1>7 DEF DeleteObject, ObjInv
    <2>2. attCall'[c].op = "delete" /\ attCall'[c].stage = "row"
      BY <1>3, <1>7 DEF DeleteObject, CallType
    <2> QED
      BY <1>1, <2>1, <2>2 DEF ObjInv, RowHasObject
  <1>8. CASE DeleteMetadata(c)
    <2>1. attCall[c].op = "delete" /\ metadata' = "deleted"
      BY <1>8 DEF DeleteMetadata
    <2> QED
      BY <2>1 DEF ObjInv, RowHasObject
  <1>9. CASE DeleteParents(c)
    <2>1. metadata = "deleted" /\ metadata' = "deleted"
      BY <1>9 DEF DeleteParents, ObjInv
    <2> QED
      BY <2>1 DEF ObjInv, RowHasObject
  <1>10. CASE AttFails(c)
    <2>1. /\ UNCHANGED <<object, metadata>>
          /\ attCall'[c] = Rest
          /\ "object" \in unsettled => "object" \in unsettled'
          /\ attCall[c].op = "delete" /\ attCall[c].stage # "object" => "object" \in unsettled'
      BY <1>3, <1>10 DEF AttFails
    <2> QED
      BY <1>1, <2>1, RestIs DEF ObjInv, RowHasObject
  <1> QED
    BY <1>4, <1>5, <1>6, <1>7, <1>8, <1>9, <1>10 DEF Continues

-----------------------------------------------------------------------------
(* The writers of a target.                                                  *)

LEMMA SoloBegins ==
  ASSUME Typed, Solo, NEW c \in AttCalls, NEW u \in People, NEW op \in {"post", "link", "unlink", "delete"},
         NEW stage \in AttStages, NEW t \in Parents \cup {Nobody}, AttBegins(c, u, op, stage, t)
  PROVE  Solo'
  <1>1. /\ attCall'[c] = [op |-> op, stage |-> stage, by |-> u, target |-> t]
        /\ attCall'[c] \in CallType
        /\ \A d \in AttCalls \ {c} : attCall'[d] = attCall[d]
        /\ \A x \in Touches(attCall'[c]), d \in AttCalls \ {c} : Touched(d, x) => x \in unsettled'
        /\ \A x : x \in unsettled /\ (op = "unlink" => x # t) => x \in unsettled'
    BY BeginsTyped
  <1> SUFFICES ASSUME NEW x \in Parents, x \notin unsettled', NEW d \in AttCalls, NEW e \in AttCalls,
                      x \in Touches(attCall'[d]), x \in Touches(attCall'[e])
               PROVE  d = e
    BY DEF Solo, Touched
  <1>2. CASE x \in Touches(attCall'[c])
    BY <1>1, <1>2 DEF Touched
  <1>3. CASE x \notin Touches(attCall'[c])
    <2>1. op = "unlink" => x # t
      BY <1>1, <1>3, TouchesIs
    <2>2. x \notin unsettled /\ d # c /\ e # c
      BY <1>1, <1>3, <2>1
    <2> QED
      BY <1>1, <2>2 DEF Solo, Touched
  <1> QED
    BY <1>2, <1>3

LEMMA SoloContinues ==
  ASSUME Typed, Solo, NEW c \in AttCalls, Continues(c)
  PROVE  Solo'
  <1>1. /\ \A d \in AttCalls \ {c} : attCall'[d] = attCall[d]
        /\ Touches(attCall'[c]) \subseteq Touches(attCall[c])
        /\ \A t \in Parents : t \in unsettled => t \in unsettled'
    BY StepTyped
  <1> QED
    BY <1>1 DEF Solo, Touched

-----------------------------------------------------------------------------
(* Link rows and parent tuples.                                              *)

LEMMA LinkBegins ==
  ASSUME Typed, LinkInv, NEW c \in AttCalls, NEW u \in People, NEW op \in {"post", "link", "unlink", "delete"},
         NEW stage \in AttStages, NEW t \in Parents \cup {Nobody}, AttBegins(c, u, op, stage, t)
  PROVE  LinkInv'
  <1>1. /\ attCall'[c] = [op |-> op, stage |-> stage, by |-> u, target |-> t]
        /\ attCall'[c] \in CallType
        /\ attCall[c].stage = "idle"
        /\ UNCHANGED <<object, metadata, links, parents, papers>>
        /\ \A d \in AttCalls \ {c} : attCall'[d] = attCall[d]
        /\ \A x \in Touches(attCall'[c]), d \in AttCalls \ {c} : Touched(d, x) => x \in unsettled'
        /\ \A x : x \in unsettled /\ (op = "unlink" => x # t) => x \in unsettled'
    BY BeginsTyped
  <1>2. /\ op \in {"link", "unlink"} => stage = "row"
        /\ op = "delete" => stage = "object"
    BY DEF AttBegins
  <1> SUFFICES ASSUME NEW x \in People \cup papers, x \notin unsettled'
               PROVE  /\ (\A d \in AttCalls : ~Touched(d, x)') => Even(x)'
                      /\ \A d \in AttCalls : Touched(d, x)' => SoFar(d, x)'
    BY <1>1 DEF LinkInv
  <1>3. x \in unsettled => op = "unlink" /\ x = t
    BY <1>1
  <1>4. x \notin unsettled => ~Touched(c, x)
    BY <1>1 DEF LinkInv, SoFar
  <1>5. Even(x)' = Even(x)
    BY <1>1 DEF Even
  <1>6. \A d \in AttCalls \ {c} : Touched(d, x)' = Touched(d, x) /\ SoFar(d, x)' = SoFar(d, x)
    BY <1>1, <1>5 DEF Touched, SoFar
  <1>7. CASE x \in Touches(attCall'[c])
    <2>1. \A d \in AttCalls \ {c} : ~Touched(d, x)
      BY <1>1, <1>7
    <2>2. CASE op = "unlink"
      BY <1>1, <1>2, <1>6, <1>7, <2>1, <2>2 DEF SoFar, Touched
    <2>3. CASE op # "unlink"
      <3>1. Even(x)
        BY <1>3, <1>4, <2>1, <2>3 DEF LinkInv
      <3>2. op \in {"link", "delete"}
        BY <1>1, <1>7, <2>3, TouchesIs
      <3>3. SoFar(c, x)'
        BY <1>1, <1>2, <1>5, <3>1, <3>2 DEF SoFar
      <3> QED
        BY <1>6, <1>7, <2>1, <3>3 DEF Touched
    <2> QED
      BY <2>2, <2>3
  <1>8. CASE x \notin Touches(attCall'[c])
    <2>1. x \notin unsettled
      BY <1>1, <1>3, <1>8, TouchesIs
    <2> QED
      BY <1>4, <1>5, <1>6, <1>8, <2>1 DEF LinkInv, Touched
  <1> QED
    BY <1>7, <1>8

LEMMA LinkContinues ==
  ASSUME Typed, Solo, LinkInv, NEW c \in AttCalls, Continues(c)
  PROVE  LinkInv'
  <1>1. /\ attCall[c] \in CallType
        /\ \A d \in AttCalls \ {c} : attCall'[d] = attCall[d]
        /\ Touches(attCall'[c]) \subseteq Touches(attCall[c])
        /\ papers' = papers
        /\ \A t \in Parents : t \in unsettled => t \in unsettled'
    BY StepTyped
  <1>2. attCall \in [AttCalls -> CallType] /\ papers \subseteq Papers
    BY DEF Typed, AttTypeOK, CallType
  <1> SUFFICES ASSUME NEW x \in People \cup papers, x \notin unsettled'
               PROVE  /\ (\A d \in AttCalls : ~Touched(d, x)') => Even(x)'
                      /\ \A d \in AttCalls : Touched(d, x)' => SoFar(d, x)'
    BY <1>1 DEF LinkInv
  <1>3. x \in Parents /\ x \notin unsettled
    BY <1>1, <1>2 DEF Parents
  <1>4. CASE ~Touched(c, x)
    <2>1. /\ attCall[c].op \in {"link", "unlink"} => attCall[c].target # x
          /\ attCall[c].op # "delete"
      BY <1>1, <1>3, <1>4, TouchesIs DEF Touched
    <2>2. (x \in links' <=> x \in links) /\ (x \in parents' <=> x \in parents)
      BY <2>1 DEF Continues, PutObject, PostMetadata, LinkRow, LinkTuple, UnlinkRow, UnlinkTuple,
           DeleteObject, DeleteMetadata, DeleteParents, AttFails
    <2>3. \A d \in AttCalls \ {c} : Touched(d, x)' = Touched(d, x) /\ SoFar(d, x)' = SoFar(d, x)
      BY <1>1, <2>2 DEF Touched, SoFar, Even
    <2>4. ~Touched(c, x)'
      BY <1>1, <1>4 DEF Touched
    <2> QED
      BY <1>3, <1>4, <2>2, <2>3, <2>4 DEF LinkInv, Even
  <1>5. CASE Touched(c, x)
    <2>1. \A d \in AttCalls \ {c} : ~Touched(d, x) /\ ~Touched(d, x)'
      BY <1>1, <1>3, <1>5 DEF Solo, Touched
    <2>2. SoFar(c, x)
      BY <1>3, <1>5 DEF LinkInv
    <2>3. /\ attCall[c].op \in {"link", "unlink", "delete"}
          /\ attCall[c].op \in {"link", "unlink"} => attCall[c].target = x
      BY <1>1, <1>5, TouchesIs DEF Touched, CallType
    <2>4. attCall'[c] = Rest => ~Touched(c, x)'
      BY RestIs DEF Touched
    <2>5. CASE PutObject(c) \/ PostMetadata(c)
      BY <2>3, <2>5 DEF PutObject, PostMetadata
    <2>6. CASE LinkRow(c)
      <3>1. attCall[c].op = "link" /\ attCall[c].stage = "row" /\ attCall[c].target = x /\ parents' = parents
        BY <2>3, <2>6 DEF LinkRow
      <3>2. Even(x)
        BY <2>2, <3>1 DEF SoFar
      <3>3. \/ x \in links' /\ attCall' = [attCall EXCEPT ![c].stage = "tuple"]
            \/ links' = links /\ attCall' = [attCall EXCEPT ![c] = Rest]
        BY <2>6, <3>1 DEF LinkRow
      <3>4. CASE x \in links' /\ attCall' = [attCall EXCEPT ![c].stage = "tuple"]
        <4>1. attCall'[c].stage = "tuple" /\ attCall'[c].op = "link" /\ attCall'[c].target = x
          BY <1>2, <3>1, <3>4 DEF CallType
        <4>2. Touched(c, x)' /\ SoFar(c, x)'
          BY <3>4, <4>1 DEF Touched, Touches, SoFar
        <4> QED
          BY <2>1, <4>2
      <3>5. CASE links' = links /\ attCall' = [attCall EXCEPT ![c] = Rest]
        <4>1. attCall'[c] = Rest /\ Even(x)'
          BY <1>2, <3>1, <3>2, <3>5 DEF Even
        <4> QED
          BY <2>1, <2>4, <4>1
      <3> QED
        BY <3>3, <3>4, <3>5
    <2>7. CASE LinkTuple(c)
      <3>1. attCall'[c] = Rest /\ links' = links /\ x \in parents' /\ attCall[c].stage = "tuple"
            /\ attCall[c].op = "link"
        BY <1>2, <2>3, <2>7 DEF LinkTuple
      <3> QED
        BY <2>1, <2>2, <2>4, <3>1 DEF SoFar, Even
    <2>8. CASE UnlinkRow(c)
      <3>1. attCall'[c].stage = "tuple" /\ attCall'[c].op = "unlink" /\ x \notin links'
        BY <1>2, <2>3, <2>8 DEF UnlinkRow, CallType
      <3>2. Touched(c, x)'
        BY <1>2, <1>5, <2>8 DEF UnlinkRow, Touched, Touches, CallType
      <3> QED
        BY <2>1, <3>1, <3>2 DEF SoFar
    <2>9. CASE UnlinkTuple(c)
      <3>1. attCall'[c] = Rest /\ links' = links /\ x \notin parents' /\ attCall[c].stage = "tuple"
            /\ attCall[c].op = "unlink"
        BY <1>2, <2>3, <2>9 DEF UnlinkTuple
      <3> QED
        BY <2>1, <2>2, <2>4, <3>1 DEF SoFar, Even
    <2>10. CASE DeleteObject(c)
      <3>1. /\ attCall'[c].stage = "row" /\ attCall'[c].op = "delete" /\ links' = links /\ parents' = parents
            /\ attCall[c].stage = "object"
        BY <1>2, <2>10 DEF DeleteObject, CallType
      <3>2. Touched(c, x)'
        BY <1>3, <3>1 DEF Touched, Touches
      <3>3. Even(x)
        BY <2>2, <3>1 DEF SoFar
      <3> QED
        BY <2>1, <3>1, <3>2, <3>3 DEF SoFar, Even
    <2>11. CASE DeleteMetadata(c)
      <3>1. attCall'[c].stage = "tuple" /\ attCall'[c].op = "delete" /\ x \notin links'
        BY <1>2, <2>11 DEF DeleteMetadata, CallType
      <3>2. Touched(c, x)'
        BY <1>3, <3>1 DEF Touched, Touches
      <3> QED
        BY <2>1, <3>1, <3>2 DEF SoFar
    <2>12. CASE DeleteParents(c)
      <3>1. attCall'[c] = Rest /\ links' = links /\ x \notin parents' /\ attCall[c].stage = "tuple"
            /\ attCall[c].op = "delete"
        BY <1>2, <2>12 DEF DeleteParents
      <3> QED
        BY <2>1, <2>2, <2>4, <3>1 DEF SoFar, Even
    <2>13. CASE AttFails(c)
      <3>1. attCall'[c] = Rest /\ links' = links /\ parents' = parents
        BY <1>2, <2>13 DEF AttFails
      <3>2. attCall[c].stage # "tuple" /\ attCall[c].op # "unlink"
        BY <1>5, <2>13 DEF AttFails, Touched
      <3>3. Even(x)
        BY <2>2, <3>2 DEF SoFar
      <3> QED
        BY <2>1, <2>4, <3>1, <3>3 DEF Even
    <2> QED
      BY <2>5, <2>6, <2>7, <2>8, <2>9, <2>10, <2>11, <2>12, <2>13 DEF Continues
  <1> QED
    BY <1>4, <1>5

-----------------------------------------------------------------------------
(* The rights of a delete.                                                   *)

LEMMA AimedAt ==
  ASSUME Typed, NEW c \in AttCalls
  PROVE  Touches(attCall[c]) \subseteq Parents
  <1>1. attCall[c] \in CallType
    BY DEF Typed, AttTypeOK, CallType
  <1> QED
    BY <1>1, TouchesIs DEF Typed, Aimed, CallType

LEMMA DelBegins ==
  ASSUME Typed, DelInv, NEW c \in AttCalls, NEW u \in People, NEW op \in {"post", "link", "unlink", "delete"},
         NEW stage \in AttStages, NEW t \in Parents \cup {Nobody}, AttBegins(c, u, op, stage, t)
  PROVE  DelInv'
  <1>1. /\ attCall'[c] = [op |-> op, stage |-> stage, by |-> u, target |-> t]
        /\ attCall'[c] \in CallType
        /\ UNCHANGED <<object, metadata, links, parents, papers>>
        /\ \A d \in AttCalls \ {c} : attCall'[d] = attCall[d]
        /\ \A x \in Touches(attCall'[c]), d \in AttCalls \ {c} : Touched(d, x) => x \in unsettled'
        /\ \A x : x \in unsettled /\ (op = "unlink" => x # t) => x \in unsettled'
    BY BeginsTyped
  <1>2. \A d \in AttCalls : Touches(attCall[d]) \subseteq Parents
    BY AimedAt
  <1>3. \A d \in AttCalls : attCall'[d].op = "delete" => Touches(attCall'[d]) = Parents
    BY DEF Touches
  <1>4. /\ op = "delete" => EditsAttachment(u)
        /\ op \in {"link", "unlink"} => t \in Parents
    BY DEF AttBegins
  <1>5. Touches(attCall'[c]) \subseteq Parents
    BY <1>1, <1>4, TouchesIs
  <1> SUFFICES ASSUME NEW d \in AttCalls, attCall'[d].op = "delete", Parents \cap unsettled' = {}
               PROVE  /\ Entitled(d)'
                      /\ \A e \in AttCalls \ {d} : Touches(attCall'[e]) = {}
    BY DEF DelInv
  <1>7. CASE d = c
    <2>1. op = "delete" /\ attCall'[d].by = u
      BY <1>1, <1>7
    <2>2. \A e \in AttCalls \ {c} : Touches(attCall[e]) = {}
      BY <1>1, <1>2, <1>3, <1>7 DEF Touched
    <2>3. Entitled(d)'
      BY <1>1, <1>4, <2>1 DEF Entitled, EditsAttachment
    <2> QED
      BY <1>1, <1>7, <2>2, <2>3
  <1>8. CASE d # c
    <2>1. attCall'[d] = attCall[d]
      BY <1>1, <1>8
    <2>2. Touches(attCall'[c]) = {}
      BY <1>1, <1>3, <1>5, <1>8, <2>1 DEF Touched
    <2>3. op # "unlink"
      BY <1>1, <2>2, TouchesIs
    <2>4. Parents \cap unsettled = {}
      BY <1>1, <2>3
    <2>5. Entitled(d) /\ \A e \in AttCalls \ {d} : Touches(attCall[e]) = {}
      BY <2>1, <2>4 DEF DelInv
    <2>6. Entitled(d)'
      BY <1>1, <2>1, <2>5 DEF Entitled, EditsAttachment
    <2> QED
      BY <1>1, <2>2, <2>5, <2>6
  <1> QED
    BY <1>7, <1>8

LEMMA DelContinues ==
  ASSUME Typed, DelInv, NEW c \in AttCalls, Continues(c)
  PROVE  DelInv'
  <1>1. /\ attCall[c] \in CallType
        /\ \/ attCall'[c] = Rest
           \/ attCall'[c] = [attCall[c] EXCEPT !.stage = "row"]
           \/ attCall'[c] = [attCall[c] EXCEPT !.stage = "tuple"]
        /\ \A d \in AttCalls \ {c} : attCall'[d] = attCall[d]
        /\ Touches(attCall'[c]) \subseteq Touches(attCall[c])
        /\ \A t \in Parents : t \in unsettled => t \in unsettled'
    BY StepTyped
  <1>2. attCall \in [AttCalls -> CallType] /\ parents \subseteq Parents
    BY DEF Typed, AttTypeOK, CallType
  <1> SUFFICES ASSUME NEW d \in AttCalls, attCall'[d].op = "delete", Parents \cap unsettled' = {}
               PROVE  /\ Entitled(d)'
                      /\ \A e \in AttCalls \ {d} : Touches(attCall'[e]) = {}
    BY DEF DelInv
  <1>3. attCall[d].op = "delete" /\ attCall'[d].by = attCall[d].by
    BY <1>1, RestIs DEF CallType
  <1>4. Entitled(d) /\ \A e \in AttCalls \ {d} : Touches(attCall[e]) = {}
    BY <1>1, <1>3 DEF DelInv
  <1>5. parents' = parents
    <2>1. CASE d = c
      <3>1. attCall'[c] # Rest
        BY <2>1, RestIs
      <3>2. ~(LinkTuple(c) \/ UnlinkTuple(c) \/ DeleteParents(c))
        BY <1>2, <3>1 DEF LinkTuple, UnlinkTuple, DeleteParents
      <3> QED
        BY <3>2 DEF Continues, PutObject, PostMetadata, LinkRow, UnlinkRow, DeleteObject,
             DeleteMetadata, AttFails
    <2>2. CASE d # c
      <3>1. Touches(attCall[c]) = {}
        BY <1>4, <2>2
      <3>2. attCall[c].op \notin {"link", "unlink"}
        BY <1>1, <3>1, TouchesIs
      <3>3. attCall[c].op = "delete" => parents = {}
        BY <1>1, <1>2, <3>1, TouchesIs
      <3> QED
        BY <3>2, <3>3 DEF Continues, PutObject, PostMetadata, LinkRow, LinkTuple, UnlinkRow, UnlinkTuple,
             DeleteObject, DeleteMetadata, DeleteParents, AttFails
    <2> QED
      BY <2>1, <2>2
  <1>6. Entitled(d)'
    BY <1>3, <1>4, <1>5 DEF Entitled, EditsAttachment
  <1>7. \A e \in AttCalls \ {d} : Touches(attCall'[e]) = {}
    BY <1>1, <1>4
  <1> QED
    BY <1>6, <1>7

-----------------------------------------------------------------------------
(* The environment, and the invariant.                                       *)

LEMMA UploadKeeps ==
  ASSUME AInv, Upload
  PROVE  AInv'
  <1>1. object' = TRUE /\ UNCHANGED <<metadata, links, parents, papers, attCall, attBegun, unsettled>>
    BY DEF Upload
  <1>2. Typed' /\ Solo'
    BY <1>1 DEF AInv, Typed, AttTypeOK, Aimed, Solo, Touched
  <1>3. ObjInv'
    BY <1>1 DEF AInv, ObjInv, RowHasObject
  <1>4. LinkInv'
    BY <1>1 DEF AInv, LinkInv, Touched, Even, SoFar
  <1>5. DelInv'
    BY <1>1 DEF AInv, DelInv, Entitled, EditsAttachment
  <1> QED
    BY <1>2, <1>3, <1>4, <1>5 DEF AInv

LEMMA PaperGoneKeeps ==
  ASSUME AInv, NEW n \in Papers, PaperGone(n)
  PROVE  AInv'
  <1>1. /\ papers' = papers \ {n} /\ links' = links \ {n}
        /\ UNCHANGED <<object, metadata, parents, attCall, attBegun, unsettled>>
    BY DEF PaperGone
  <1>2. Typed' /\ Solo'
    BY <1>1 DEF AInv, Typed, AttTypeOK, Aimed, Solo, Touched
  <1>3. ObjInv'
    BY <1>1 DEF AInv, ObjInv, RowHasObject
  <1>4. LinkInv'
    <2>1. \A x \in People \cup papers' : x \in People \cup papers /\ (x \in links' <=> x \in links)
      BY <1>1, TargetsDistinct
    <2>2. \A x \in People \cup papers' : Even(x)' = Even(x)
      BY <1>1, <2>1 DEF Even
    <2>3. \A x \in People \cup papers', c \in AttCalls :
             Touched(c, x)' = Touched(c, x) /\ SoFar(c, x)' = SoFar(c, x)
      BY <1>1, <2>1, <2>2 DEF Touched, SoFar
    <2> QED
      BY <1>1, <2>1, <2>2, <2>3 DEF AInv, LinkInv
  <1>5. DelInv'
    BY <1>1 DEF AInv, DelInv, Entitled, EditsAttachment
  <1> QED
    BY <1>2, <1>3, <1>4, <1>5 DEF AInv

LEMMA AttStep == AInv /\ [AttNext]_attVars => AInv'
  <1> SUFFICES ASSUME AInv, [AttNext]_attVars PROVE AInv'
    OBVIOUS
  <1>1. ASSUME NEW c \in AttCalls, NEW u \in People, NEW op \in {"post", "link", "unlink", "delete"},
               NEW stage \in AttStages, NEW t \in Parents \cup {Nobody}, AttBegins(c, u, op, stage, t)
        PROVE  AInv'
    <2>1. Typed /\ ObjInv /\ Solo /\ LinkInv /\ DelInv
      BY DEF AInv
    <2>2. Typed'
      BY <1>1, <2>1, BeginsTyped
    <2>3. ObjInv' /\ Solo'
      BY <1>1, <2>1, ObjBegins, SoloBegins
    <2>4. LinkInv' /\ DelInv'
      BY <1>1, <2>1, LinkBegins, DelBegins
    <2> QED
      BY <2>2, <2>3, <2>4 DEF AInv
  <1>2. ASSUME NEW c \in AttCalls, Continues(c)
        PROVE  AInv'
    BY <1>2, StepTyped, ObjContinues, SoloContinues, LinkContinues, DelContinues DEF AInv
  <1>3. CASE UNCHANGED attVars
    BY <1>3 DEF attVars, AInv, Typed, AttTypeOK, Aimed, ObjInv, RowHasObject, Solo, LinkInv, DelInv,
         Touched, Even, SoFar, Entitled, EditsAttachment
  <1>4. CASE AttNext
    BY <1>1, <1>2, <1>4, NextIs, UploadKeeps, PaperGoneKeeps
  <1> QED
    BY <1>3, <1>4

LEMMA AttAlways == AttSpec => []AInv
  BY InvInit, AttStep, PTL DEF AttSpec

(* The stores and requests of attachments have their types, and a request    *)
(* that links or unlinks has a target (attachment_facade.py).                *)
THEOREM AttTypeCorrect == AttSpec => []AttTypeOK
  <1>1. AInv => AttTypeOK
    BY DEF AInv, Typed
  <1> QED
    BY <1>1, AttAlways, PTL

(* A metadata row has its object, whatever overlaps and fails                *)
(* (attachment_facade.py, post_attachment and delete_attachment), but for a  *)
(* delete under way or cut between its stores.                               *)
THEOREM RowAlwaysHasObject == AttSpec => []RowHasObject
  <1>1. AInv => RowHasObject
    BY DEF AInv, ObjInv
  <1> QED
    BY <1>1, AttAlways, PTL

(* A target nobody is writing, whose last writer was neither overlapped nor  *)
(* cut, is linked exactly when it has its parent tuple                       *)
(* (attachment_facade.py, link_attachment and unlink_attachment).            *)
THEOREM LinksAlwaysRights == AttSpec => []LinksAreRights
  <1>1. AInv => LinksAreRights
    BY DEF AInv, LinkInv, LinksAreRights, Touched, Even
  <1> QED
    BY <1>1, AttAlways, PTL

(* A delete that others leave alone keeps the rights it runs under to its    *)
(* last statement (attachment_facade.py, delete_attachment).                 *)
THEOREM DeleteAlwaysRepeatable == AttSpec => []DeleteCanBeRepeated
  <1>1. AInv => DeleteCanBeRepeated
    BY DEF AInv, DelInv, Entitled, DeleteCanBeRepeated
  <1> QED
    BY <1>1, AttAlways, PTL

(***************************************************************************)
(* Shelves: where the rows of a shelf and their mirror agree, for all      *)
(* books and requests, however they overlap and wherever they are cut      *)
(* short.                                                                  *)
(***************************************************************************)

CallRecord == [op : ShelfOps, stage : ShelfStages, want : SUBSET Books, prior : SUBSET Books,
               out : SUBSET Books, in : SUBSET Books, added : SUBSET Books, alone : BOOLEAN]

\* The stages of each kind of request, and what it carries in them.
CallShape(r) ==
    /\ r.stage = "idle" <=> r.op = "none"
    /\ r.op \in {"insert", "delete"} => r.stage \in {"rows", "mirror"}
    /\ r.op = "set" => r.stage \in {"prior", "read", "rows", "edges"}
    /\ r.op \in {"add", "remove"} =>
          /\ r.stage \in {"rows", "edges"}
          /\ \E b \in Books : r.want = {b}
          /\ r.added \subseteq r.want /\ r.prior \subseteq r.want
          /\ r.stage = "rows" => r.added = {} /\ r.prior = {}
    /\ r.stage \in {"prior", "read"} => r.added = {} /\ r.in = {} /\ r.out = {}
    /\ r.stage = "prior" => r.prior = {}
    /\ r.op = "delete" /\ r.stage = "mirror" => shelf = "deleted"
    /\ r.op = "insert" /\ r.stage = "rows" => shelf = "none"
    /\ shelf = "none" => r.op \in {"none", "insert"} /\ r.stage # "mirror"

Shapes ==
    /\ \A c \in ShelfCalls : CallShape(shelfCall[c])
    /\ \A c, d \in ShelfCalls :
          shelfCall[c].op = "insert" /\ shelfCall[d].op = "insert" /\ shelf = "none" => c = d
    /\ shelf = "none" => onShelf = {} /\ edges = {}

\* The request knows what becomes of b: nothing went wrong there, or it is the
\* one that puts it right.
Knows(r, b) == b \in Handles(r) /\ (b \notin askew \/ (r.op \in {"add", "remove"} /\ r.alone))

Sole ==
    \A c, d \in ShelfCalls, b \in Books :
        Knows(shelfCall[c], b) /\ b \in Handles(shelfCall[d]) => c = d

Agree(b) == b \in edges <=> b \in onShelf

\* The edges still to write are those of the rows written.
Owes(r, b) ==
    r.stage = "edges" => /\ b \in r.added => b \in onShelf /\ b \notin r.prior
                         /\ b \in r.prior => b \notin onShelf

\* A book at which nothing went wrong agrees until its row is written, and again
\* from when its edge is.
Underway(r, b) ==
    /\ r.stage \in {"prior", "read"} => Agree(b)
    /\ r.stage = "read" => (b \in r.prior <=> b \in onShelf /\ b \notin r.want)
    /\ r.stage = "rows" /\ r.op # "set" => Agree(b)
    /\ r.stage = "rows" /\ r.op = "set" =>
          /\ b \in r.out => b \in onShelf /\ b \in r.prior /\ b \notin r.in
          /\ b \in r.in => b \notin onShelf /\ b \notin r.prior
          /\ b \in r.added => b \in onShelf /\ b \notin r.prior /\ b \notin r.in
          /\ b \in r.prior => b \in r.out \/ b \notin onShelf
          /\ b \notin r.prior \cup r.in \cup r.added => Agree(b)
    /\ r.stage = "edges" /\ b \notin r.prior \cup r.added => Agree(b)

InHand ==
    shelf = "row" =>
        \A c \in ShelfCalls, b \in alive :
            /\ Knows(shelfCall[c], b) => Owes(shelfCall[c], b)
            /\ b \in Handles(shelfCall[c]) /\ b \notin askew => Underway(shelfCall[c], b)

SInv == ShelfTypeOK /\ Shapes /\ Sole /\ InHand /\ EdgesFollowRows

LEMMA Idle ==
  /\ NoShelfCall \in CallRecord /\ Handles(NoShelfCall) = {}
  /\ NoShelfCall.op = "none" /\ NoShelfCall.stage = "idle"
  /\ CallShape(NoShelfCall)
  BY DEF NoShelfCall, CallRecord, Handles, ShelfOps, ShelfStages, CallShape

LEMMA Facts ==
  ASSUME SInv, NEW c \in ShelfCalls
  PROVE  /\ shelfCall[c] \in CallRecord /\ CallShape(shelfCall[c])
         /\ shelfCall \in [ShelfCalls -> CallRecord]
         /\ owned \in BOOLEAN /\ onShelf \subseteq alive /\ alive \subseteq Books
         /\ edges \subseteq Books /\ askew \subseteq Books
         /\ Handles(shelfCall[c]) \subseteq Books
  BY DEF SInv, ShelfTypeOK, Shapes, CallRecord, Handles, ShelfOps

LEMMA ShelfStart == ShelfInit => SInv
  <1> SUFFICES ASSUME ShelfInit PROVE SInv
    OBVIOUS
  <1>1. \A c \in ShelfCalls : shelfCall[c] = NoShelfCall
    BY DEF ShelfInit
  <1>2. ShelfTypeOK
    <2>1. shelfCall \in [ShelfCalls -> CallRecord]
      BY Idle DEF ShelfInit
    <2>2. shelfBegun \in 0..MaxShelfCalls
      BY MaxShelfCallsNat DEF ShelfInit
    <2>3. owned \in BOOLEAN
      BY Zenon DEF ShelfInit
    <2>4. /\ shelf = "none" /\ onShelf = {} /\ alive = Books /\ edges = {} /\ askew = {}
      BY DEF ShelfInit
    <2> QED
      BY <2>1, <2>2, <2>3, <2>4 DEF ShelfTypeOK, CallRecord
  <1>3. Shapes /\ Sole
    BY <1>1, Idle DEF ShelfInit, Shapes, Sole, Knows
  <1>4. InHand /\ EdgesFollowRows
    BY DEF ShelfInit, InHand, EdgesFollowRows
  <1> QED
    BY <1>2, <1>3, <1>4 DEF SInv

\* A step of the request c at books it handles: what it owes afterwards is all
\* there is to show.
LEMMA CallSteps ==
  ASSUME SInv, NEW c \in ShelfCalls, NEW r \in CallRecord,
         shelfCall' = [shelfCall EXCEPT ![c] = r],
         \/ r = NoShelfCall
         \/ r.op = shelfCall[c].op /\ r.alone = shelfCall[c].alone /\ r.want = shelfCall[c].want,
         UNCHANGED <<shelf, alive, shelfBegun>>, owned' \in BOOLEAN,
         onShelf' \subseteq alive, edges' \subseteq Books, askew' \subseteq Books,
         CallShape(r), shelf = "none" => onShelf' = {} /\ edges' = {},
         \A b \in Books \ Handles(shelfCall[c]) :
            /\ b \in onShelf' <=> b \in onShelf
            /\ b \in edges' <=> b \in edges
            /\ b \in askew' <=> b \in askew,
         \A b \in Books : b \notin askew' => b \notin askew \/ Knows(shelfCall[c], b),
         shelf = "row" => \A b \in alive \cap Handles(shelfCall[c]) :
            /\ r = NoShelfCall /\ b \notin askew' => Agree(b)'
            /\ r # NoShelfCall => /\ Knows(shelfCall[c], b) \/ b \notin askew' => Owes(r, b)'
                                  /\ b \notin askew' => Underway(r, b)'
  PROVE  SInv'
  <1>1. /\ shelfCall \in [ShelfCalls -> CallRecord] /\ shelfCall' \in [ShelfCalls -> CallRecord]
        /\ shelfCall'[c] = r /\ \A d \in ShelfCalls \ {c} : shelfCall'[d] = shelfCall[d]
        /\ alive \subseteq Books
    BY DEF SInv, ShelfTypeOK, CallRecord
  <1>2. ShelfTypeOK'
    BY <1>1 DEF SInv, ShelfTypeOK, CallRecord
  <1>3. Handles(r) = {} \/ Handles(r) = Handles(shelfCall[c])
    BY Idle DEF Handles
  <1>4. \A d \in ShelfCalls : Handles(shelfCall'[d]) \subseteq Handles(shelfCall[d])
    BY <1>1, <1>3
  <1>5. Shapes'
    <2>1. \A d \in ShelfCalls : CallShape(shelfCall[d])'
      BY <1>1 DEF SInv, Shapes, CallShape
    <2>2. \A d \in ShelfCalls : shelfCall'[d].op = "insert" => shelfCall[d].op = "insert"
      BY <1>1, Idle
    <2> QED
      BY <2>1, <2>2 DEF SInv, Shapes
  <1>6. \A d \in ShelfCalls, b \in Books :
           b \in Handles(shelfCall'[d]) /\ b \notin askew' => Knows(shelfCall[d], b)
    <2> SUFFICES ASSUME NEW d \in ShelfCalls, NEW b \in Books, b \in Handles(shelfCall[d]),
                        b \notin askew', b \in askew
                 PROVE  Knows(shelfCall[d], b)
      BY <1>4 DEF Knows
    <2> QED
      BY DEF SInv, Sole
  <1>7. \A d \in ShelfCalls, b \in Books : Knows(shelfCall[d], b)' => Knows(shelfCall[d], b)
    <2> SUFFICES ASSUME NEW d \in ShelfCalls, NEW b \in Books, Knows(shelfCall[d], b)'
                 PROVE  Knows(shelfCall[d], b)
      OBVIOUS
    <2>1. b \in Handles(shelfCall'[d]) /\ b \in Handles(shelfCall[d])
      BY <1>4 DEF Knows, Handles
    <2>2. CASE b \notin askew'
      BY <1>6, <2>1, <2>2
    <2>3. CASE b \in askew'
      <3>1. shelfCall'[d].op \in {"add", "remove"} /\ shelfCall'[d].alone
        BY <2>3 DEF Knows
      <3>2. shelfCall[d].op \in {"add", "remove"} /\ shelfCall[d].alone
        BY <3>1, <1>1, Idle
      <3> QED
        BY <2>1, <3>2 DEF Knows
    <2> QED
      BY <2>2, <2>3
  <1>8. Sole'
    BY <1>4, <1>7 DEF SInv, Sole, Knows, Handles
  <1>9. InHand'
    <2> SUFFICES ASSUME shelf = "row", NEW d \in ShelfCalls, NEW b \in alive,
                        Knows(shelfCall[d], b)' \/ (b \in Handles(shelfCall'[d]) /\ b \notin askew')
                 PROVE  /\ Owes(shelfCall[d], b)'
                        /\ b \notin askew' => Underway(shelfCall[d], b)'
      BY DEF InHand, Knows, Handles
    <2>1. Knows(shelfCall[d], b) /\ b \in Books /\ b \in Handles(shelfCall'[d])
      BY <1>1, <1>6, <1>7 DEF Knows, Handles
    <2>2. CASE d = c
      <3>1. r # NoShelfCall /\ b \in Handles(shelfCall[c])
        BY <1>1, <1>4, <2>1, <2>2, Idle
      <3>2. Owes(r, b)' /\ (b \notin askew' => Underway(r, b)')
        BY <2>1, <2>2, <3>1
      <3> QED
        BY <1>1, <2>2, <3>2 DEF Owes, Underway, Agree
    <2>3. CASE d # c
      <3>1. b \notin Handles(shelfCall[c])
        BY <2>1, <2>3 DEF SInv, Sole
      <3>2. /\ b \in onShelf' <=> b \in onShelf
            /\ b \in edges' <=> b \in edges
            /\ b \in askew' <=> b \in askew
        BY <2>1, <3>1
      <3>3. Owes(shelfCall[d], b) /\ (b \notin askew => Underway(shelfCall[d], b))
        BY <2>1 DEF SInv, InHand, Knows
      <3> QED
        BY <1>1, <2>3, <3>2, <3>3 DEF Owes, Underway, Agree
    <2> QED
      BY <2>2, <2>3
  <1>10. EdgesFollowRows'
    <2> SUFFICES ASSUME shelf = "row", NEW b \in alive, b \notin askew',
                        \A d \in ShelfCalls : b \notin Handles(shelfCall'[d])
                 PROVE  Agree(b)'
      BY DEF EdgesFollowRows, Agree, Handles
    <2>1. CASE b \in Handles(shelfCall[c])
      <3>1. Handles(r) = {}
        BY <1>1, <1>3, <2>1
      <3>2. r = NoShelfCall
        BY <1>3, <2>1, <3>1 DEF Handles
      <3> QED
        BY <2>1, <3>2
    <2>2. CASE b \notin Handles(shelfCall[c])
      <3>1. \A d \in ShelfCalls : b \notin Handles(shelfCall[d])
        BY <1>1, <2>2
      <3> QED
        BY <1>1, <2>2, <3>1 DEF SInv, EdgesFollowRows, Agree
    <2> QED
      BY <2>1, <2>2
  <1> QED
    BY <1>2, <1>5, <1>8, <1>9, <1>10 DEF SInv

\* What InHand says of one request.
LEMMA Held ==
  ASSUME SInv, NEW c \in ShelfCalls, NEW b \in alive, shelf = "row", b \in Handles(shelfCall[c])
  PROVE  /\ Knows(shelfCall[c], b) => Owes(shelfCall[c], b)
         /\ b \notin askew => Knows(shelfCall[c], b) /\ Underway(shelfCall[c], b)
  BY DEF SInv, InHand, Knows

LEMMA ReadPriorKeeps == ASSUME SInv, NEW c \in ShelfCalls, ReadPrior(c) PROVE SInv'
  <1> DEFINE old == shelfCall[c]
             new == [old EXCEPT !.stage = "read", !.prior = onShelf \ old.want]
  <1>1. old \in CallRecord /\ CallShape(old) /\ old.stage = "prior" /\ old.op = "set"
    BY Facts DEF ReadPrior, CallShape, CallRecord, ShelfOps
  <1>2. /\ new \in CallRecord /\ new.op = old.op /\ new.alone = old.alone /\ new.want = old.want
        /\ new.stage = "read" /\ new.prior = onShelf \ old.want
        /\ new.added = old.added /\ new.in = old.in /\ new.out = old.out
    BY <1>1, Facts DEF CallRecord, ShelfStages
  <1>3. /\ shelfCall' = [shelfCall EXCEPT ![c] = new]
        /\ UNCHANGED <<shelf, owned, alive, onShelf, edges, shelfBegun, askew>>
    BY Facts DEF ReadPrior, CallRecord
  <1> HIDE DEF new
  <1>rec. PICK r \in CallRecord : r = new
    BY <1>2
  <1>4. CallShape(r) /\ r # NoShelfCall /\ shelf # "none"
    BY <1>1, <1>2, <1>rec, Idle DEF CallShape
  <1>5. shelf = "row" => \A b \in alive \cap Handles(old) :
            Owes(r, b)' /\ (b \notin askew => Underway(r, b)')
    BY <1>1, <1>2, <1>rec, <1>3, Held DEF Owes, Underway, Agree
  <1> QED
    BY <1>2, <1>rec, <1>3, <1>4, <1>5, Facts, CallSteps

LEMMA ReadShelfKeeps == ASSUME SInv, NEW c \in ShelfCalls, ReadShelf(c) PROVE SInv'
  <1> DEFINE old == shelfCall[c]
             new == [old EXCEPT !.stage = "rows", !.out = onShelf \ old.want,
                              !.in = old.want \ onShelf]
  <1>1. old \in CallRecord /\ CallShape(old) /\ old.stage = "read" /\ old.op = "set"
    BY Facts DEF ReadShelf, CallShape, CallRecord, ShelfOps
  <1>2. /\ new \in CallRecord /\ new.op = old.op /\ new.alone = old.alone /\ new.want = old.want
        /\ new.stage = "rows" /\ new.prior = old.prior /\ new.added = old.added
        /\ new.in = old.want \ onShelf /\ new.out = onShelf \ old.want
    BY <1>1, Facts DEF CallRecord, ShelfStages
  <1>3. /\ shelfCall' = [shelfCall EXCEPT ![c] = new]
        /\ UNCHANGED <<shelf, owned, alive, onShelf, edges, shelfBegun, askew>>
    BY Facts DEF ReadShelf, CallRecord
  <1> HIDE DEF new
  <1>rec. PICK r \in CallRecord : r = new
    BY <1>2
  <1>4. CallShape(r) /\ r # NoShelfCall /\ shelf # "none"
    BY <1>1, <1>2, <1>rec, Idle DEF CallShape
  <1>5. shelf = "row" => \A b \in alive \cap Handles(old) :
            Owes(r, b)' /\ (b \notin askew => Underway(r, b)')
    <2> SUFFICES ASSUME shelf = "row", NEW b \in alive \cap Handles(old)
                 PROVE  Owes(r, b)' /\ (b \notin askew => Underway(r, b)')
      OBVIOUS
    <2>1. old.added = {}
      BY <1>1 DEF CallShape
    <2>2. b \notin askew => Agree(b) /\ (b \in old.prior <=> b \in onShelf /\ b \notin old.want)
      BY <1>1, Held DEF Underway
    <2> QED
      BY <1>1, <1>2, <1>rec, <1>3, <2>1, <2>2 DEF Owes, Underway, Agree
  <1> QED
    BY <1>2, <1>rec, <1>3, <1>4, <1>5, Facts, CallSteps

LEMMA DropRowKeeps ==
  ASSUME SInv, NEW c \in ShelfCalls, NEW x \in Books, DropRow(c, x) PROVE SInv'
  <1> DEFINE old == shelfCall[c]
             new == [old EXCEPT !.out = old.out \ {x}]
  <1>1. /\ old \in CallRecord /\ CallShape(old) /\ old.stage = "rows" /\ old.op = "set"
        /\ x \in old.out
    BY Facts DEF DropRow
  <1>2. /\ new \in CallRecord /\ new.op = old.op /\ new.alone = old.alone /\ new.want = old.want
        /\ new.stage = old.stage /\ new.prior = old.prior /\ new.added = old.added
        /\ new.in = old.in /\ new.out = old.out \ {x}
    BY <1>1, Facts DEF CallRecord
  <1>3. /\ shelfCall' = [shelfCall EXCEPT ![c] = new] /\ onShelf' = onShelf \ {x}
        /\ UNCHANGED <<shelf, owned, alive, edges, shelfBegun, askew>>
    BY Facts DEF DropRow, CallRecord
  <1> HIDE DEF new
  <1>rec. PICK r \in CallRecord : r = new
    BY <1>2
  <1>4. CallShape(r) /\ r # NoShelfCall /\ shelf # "none" /\ Handles(old) = Books
    BY <1>1, <1>2, <1>rec, Idle DEF CallShape, Handles
  <1>5. shelf = "row" => \A b \in alive \cap Handles(old) :
            Owes(r, b)' /\ (b \notin askew => Underway(r, b)')
    <2> SUFFICES ASSUME shelf = "row", NEW b \in alive \cap Handles(old)
                 PROVE  Owes(r, b)' /\ (b \notin askew => Underway(r, b)')
      OBVIOUS
    <2>1. b \notin askew => Underway(old, b)
      BY Held
    <2> QED
      BY <1>1, <1>2, <1>rec, <1>3, <2>1 DEF Owes, Underway, Agree
  <1> QED
    BY <1>2, <1>rec, <1>3, <1>4, <1>5, Facts, CallSteps

\* Behind the reads, a request that raises leaves its books askew.
LEMMA RaisesKeep ==
  ASSUME SInv, NEW c \in ShelfCalls, ShelfRaises(c), shelfCall[c].stage # "idle" PROVE SInv'
  <1>1. /\ shelfCall' = [shelfCall EXCEPT ![c] = NoShelfCall]
        /\ UNCHANGED <<shelf, owned, alive, onShelf, edges, shelfBegun>>
        /\ askew \subseteq askew' /\ askew' \subseteq askew \cup Handles(shelfCall[c])
        /\ shelfCall[c].stage \notin {"prior", "read"} => Handles(shelfCall[c]) \subseteq askew'
    BY DEF ShelfRaises
  <1>2. shelf = "row" => \A b \in alive \cap Handles(shelfCall[c]) : b \notin askew' => Agree(b)'
    BY <1>1, Held DEF Underway, Agree
  <1>3. shelf = "none" => onShelf = {} /\ edges = {}
    BY DEF SInv, Shapes
  <1> QED
    BY <1>1, <1>2, <1>3, Facts, Idle, CallSteps

LEMMA AddRowKeeps ==
  ASSUME SInv, NEW c \in ShelfCalls, NEW x \in Books, AddRow(c, x) PROVE SInv'
  <1> DEFINE old == shelfCall[c]
             new == [old EXCEPT !.in = old.in \ {x}, !.added = old.added \cup {x}]
  <1>1. /\ old \in CallRecord /\ CallShape(old) /\ old.stage = "rows" /\ old.op = "set"
        /\ x \in old.in /\ old.out = {}
    BY Facts DEF AddRow
  <1>2. /\ new \in CallRecord /\ new.op = old.op /\ new.alone = old.alone /\ new.want = old.want
        /\ new.stage = old.stage /\ new.prior = old.prior /\ new.added = old.added \cup {x}
        /\ new.in = old.in \ {x} /\ new.out = old.out
    BY <1>1, Facts DEF CallRecord
  <1>3. CASE shelf = "row" /\ x \in alive
    <2>1. /\ shelfCall' = [shelfCall EXCEPT ![c] = new] /\ onShelf' = onShelf \cup {x}
          /\ UNCHANGED <<shelf, owned, alive, edges, shelfBegun, askew>>
      BY <1>3, Facts DEF AddRow, CallRecord
    <2> HIDE DEF new
    <2>rec. PICK r \in CallRecord : r = new
      BY <1>2
    <2>2. CallShape(r) /\ r # NoShelfCall /\ shelf # "none" /\ Handles(old) = Books
      BY <1>1, <1>2, <2>rec, Idle DEF CallShape, Handles
    <2>3. \A b \in alive \cap Handles(old) :
              Owes(r, b)' /\ (b \notin askew => Underway(r, b)')
      <3> TAKE b \in alive \cap Handles(old)
      <3>1. b \notin askew => Underway(old, b)
        BY <1>3, Held
      <3> QED
        BY <1>1, <1>2, <2>rec, <2>1, <3>1 DEF Owes, Underway, Agree
    <2> QED
      BY <1>2, <2>rec, <1>3, <2>1, <2>2, <2>3, Facts, CallSteps
  <1>4. CASE ~(shelf = "row" /\ x \in alive)
    BY <1>1, <1>4, RaisesKeep DEF AddRow
  <1> QED
    BY <1>3, <1>4

LEMMA RowsDoneKeeps == ASSUME SInv, NEW c \in ShelfCalls, RowsDone(c) PROVE SInv'
  <1> DEFINE old == shelfCall[c]
             new == [old EXCEPT !.stage = "edges"]
  <1>1. /\ old \in CallRecord /\ CallShape(old) /\ old.stage = "rows" /\ old.op = "set"
        /\ old.in = {} /\ old.out = {}
    BY Facts DEF RowsDone
  <1>2. /\ new \in CallRecord /\ new.op = old.op /\ new.alone = old.alone /\ new.want = old.want
        /\ new.stage = "edges" /\ new.prior = old.prior /\ new.added = old.added
    BY <1>1, Facts DEF CallRecord, ShelfStages
  <1>3. /\ shelfCall' = [shelfCall EXCEPT ![c] = new]
        /\ UNCHANGED <<shelf, owned, alive, onShelf, edges, shelfBegun, askew>>
    BY Facts DEF RowsDone, CallRecord
  <1> HIDE DEF new
  <1>rec. PICK r \in CallRecord : r = new
    BY <1>2
  <1>4. CallShape(r) /\ r # NoShelfCall /\ shelf # "none"
    BY <1>1, <1>2, <1>rec, Idle DEF CallShape
  <1>5. shelf = "row" => \A b \in alive \cap Handles(old) :
            /\ Knows(old, b) \/ b \notin askew => Owes(r, b)'
            /\ b \notin askew => Underway(r, b)'
    <2> SUFFICES ASSUME shelf = "row", NEW b \in alive \cap Handles(old), b \notin askew
                 PROVE  Owes(r, b)' /\ Underway(r, b)'
      BY <1>1 DEF Knows
    <2>1. Underway(old, b)
      BY Held
    <2> QED
      BY <1>1, <1>2, <1>rec, <1>3, <2>1 DEF Owes, Underway, Agree
  <1> QED
    BY <1>2, <1>rec, <1>3, <1>4, <1>5, Facts, CallSteps

LEMMA EdgesDoneKeeps == ASSUME SInv, NEW c \in ShelfCalls, EdgesDone(c) PROVE SInv'
  <1>1. /\ shelfCall[c].stage = "edges" /\ shelfCall[c].added = {} /\ shelfCall[c].prior = {}
        /\ shelfCall' = [shelfCall EXCEPT ![c] = NoShelfCall]
        /\ UNCHANGED <<shelf, owned, alive, onShelf, edges, shelfBegun, askew>>
    BY DEF EdgesDone
  <1>2. shelf = "row" => \A b \in alive \cap Handles(shelfCall[c]) : b \notin askew' => Agree(b)'
    BY <1>1, Held DEF Underway, Agree
  <1>3. shelf = "none" => onShelf = {} /\ edges = {}
    BY DEF SInv, Shapes
  <1> QED
    BY <1>1, <1>2, <1>3, Facts, Idle, CallSteps

LEMMA MirrorKeeps ==
  ASSUME SInv, NEW c \in ShelfCalls, NEW written \in BOOLEAN, MirrorShelf(c, written)
  PROVE  SInv'
  <1>1. /\ shelfCall[c].stage = "mirror"
        /\ shelfCall' = [shelfCall EXCEPT ![c] = NoShelfCall]
        /\ UNCHANGED <<shelf, alive, onShelf, edges, shelfBegun, askew>>
        /\ owned' \in BOOLEAN
    BY Facts DEF MirrorShelf
  <1>2. Handles(shelfCall[c]) = {} \/ shelf = "deleted"
    BY <1>1, Facts DEF CallShape, CallRecord, ShelfOps, Handles
  <1>3. shelf = "none" => onShelf = {} /\ edges = {}
    BY DEF SInv, Shapes
  <1> QED
    BY <1>1, <1>2, <1>3, Facts, Idle, CallSteps

LEMMA BookRowKeeps ==
  ASSUME SInv, NEW c \in ShelfCalls, NEW x \in Books, BookRow(c, x) PROVE SInv'
  <1> DEFINE old == shelfCall[c]
             adds == [old EXCEPT !.stage = "edges", !.added = {x}]
             drops == [old EXCEPT !.stage = "edges", !.prior = {x}]
  <1>1. /\ old \in CallRecord /\ CallShape(old) /\ old.stage = "rows" /\ old.want = {x}
        /\ old.op \in {"add", "remove"}
    BY Facts DEF BookRow
  <1>2. old.added = {} /\ old.prior = {} /\ Handles(old) = {x} /\ shelf # "none"
    BY <1>1 DEF CallShape, Handles
  <1>3. CASE old.op = "add" /\ shelf = "row" /\ x \in alive
    <2>1. /\ adds \in CallRecord /\ adds.op = old.op /\ adds.alone = old.alone
          /\ adds.want = old.want /\ adds.stage = "edges" /\ adds.prior = {} /\ adds.added = {x}
      BY <1>1, <1>2 DEF CallRecord, ShelfStages
    <2>2. /\ shelfCall' = [shelfCall EXCEPT ![c] = adds] /\ onShelf' = onShelf \cup {x}
          /\ UNCHANGED <<shelf, owned, alive, edges, shelfBegun, askew>>
      BY <1>3, Facts DEF BookRow, CallRecord
    <2> HIDE DEF adds
    <2>3. PICK r \in CallRecord : r = adds
      BY <2>1
    <2>4. CallShape(r) /\ r # NoShelfCall
      BY <1>1, <1>2, <2>1, <2>3, Idle DEF CallShape
    <2>5. \A b \in alive \cap Handles(old) : Owes(r, b)' /\ Underway(r, b)'
      BY <1>2, <2>1, <2>2, <2>3 DEF Owes, Underway, Agree
    <2> QED
      BY <1>2, <1>3, <2>1, <2>2, <2>3, <2>4, <2>5, Facts, CallSteps
  <1>4. CASE old.op = "add" /\ ~(shelf = "row" /\ x \in alive)
    BY <1>1, <1>4, RaisesKeep DEF BookRow
  <1>5. CASE old.op = "remove"
    <2>1. /\ drops \in CallRecord /\ drops.op = old.op /\ drops.alone = old.alone
          /\ drops.want = old.want /\ drops.stage = "edges" /\ drops.prior = {x}
          /\ drops.added = {}
      BY <1>1, <1>2 DEF CallRecord, ShelfStages
    <2>2. /\ shelfCall' = [shelfCall EXCEPT ![c] = drops] /\ onShelf' = onShelf \ {x}
          /\ UNCHANGED <<shelf, owned, alive, edges, shelfBegun, askew>>
      BY <1>5, Facts DEF BookRow, CallRecord
    <2> HIDE DEF drops
    <2>3. PICK r \in CallRecord : r = drops
      BY <2>1
    <2>4. CallShape(r) /\ r # NoShelfCall
      BY <1>1, <1>2, <2>1, <2>3, Idle DEF CallShape
    <2>5. \A b \in alive \cap Handles(old) : Owes(r, b)' /\ Underway(r, b)'
      BY <1>2, <2>1, <2>2, <2>3 DEF Owes, Underway, Agree
    <2> QED
      BY <1>2, <2>1, <2>2, <2>3, <2>4, <2>5, Facts, CallSteps
  <1> QED
    BY <1>1, <1>3, <1>4, <1>5

\* A request with edges to write, and what it may make agree again.
LEMMA AtEdges ==
  ASSUME SInv, NEW c \in ShelfCalls, NEW x \in Books, shelfCall[c].stage = "edges",
         x \in shelfCall[c].added \cup shelfCall[c].prior
  PROVE  /\ shelf # "none" /\ x \in Handles(shelfCall[c])
         /\ x \notin Settled(c, x) => Knows(shelfCall[c], x)
         /\ Settled(c, x) \subseteq askew
         /\ \A b \in Books \ {x} : b \in Settled(c, x) <=> b \in askew
  <1>1. x \in Handles(shelfCall[c]) /\ shelf # "none"
    BY Facts DEF CallShape, Handles, CallRecord, ShelfOps
  <1> QED
    BY <1>1 DEF Settled, Knows

LEMMA AddEdgeKeeps ==
  ASSUME SInv, NEW c \in ShelfCalls, NEW x \in Books, NEW written \in BOOLEAN,
         AddEdge(c, x, written)
  PROVE  SInv'
  <1> DEFINE old == shelfCall[c]
             new == [old EXCEPT !.added = old.added \ {x}]
  <1>1. old \in CallRecord /\ CallShape(old) /\ old.stage = "edges" /\ x \in old.added
    BY Facts DEF AddEdge
  <1>2. /\ new \in CallRecord /\ new.op = old.op /\ new.alone = old.alone /\ new.want = old.want
        /\ new.stage = old.stage /\ new.prior = old.prior /\ new.added = old.added \ {x}
    BY <1>1 DEF CallRecord
  <1>3. /\ shelfCall' = [shelfCall EXCEPT ![c] = new]
        /\ UNCHANGED <<shelf, owned, alive, onShelf, shelfBegun>>
        /\ IF written THEN edges' = edges \cup {x} /\ askew' = Settled(c, x)
                      ELSE edges' = edges /\ askew' = askew \cup {x}
    BY Facts DEF AddEdge, CallRecord
  <1> HIDE DEF new
  <1>4. PICK r \in CallRecord : r = new
    BY <1>2
  <1>5. CallShape(r) /\ r # NoShelfCall
    BY <1>1, <1>2, <1>4, Idle DEF CallShape
  <1>6. /\ shelf # "none" /\ x \in Handles(old) /\ askew' \subseteq Books /\ edges' \subseteq Books
        /\ x \notin askew' => written /\ Knows(old, x)
        /\ \A b \in Books \ {x} : (b \in askew' <=> b \in askew) /\ (b \in edges' <=> b \in edges)
    BY <1>1, <1>3, AtEdges, Facts
  <1>7. shelf = "row" => \A b \in alive \cap Handles(old) :
            /\ Knows(old, b) \/ b \notin askew' => Owes(r, b)'
            /\ b \notin askew' => Underway(r, b)'
    <2> SUFFICES ASSUME shelf = "row", NEW b \in alive \cap Handles(old),
                        Knows(old, b) \/ b \notin askew'
                 PROVE  Owes(r, b)' /\ (b \notin askew' => Underway(r, b)')
      OBVIOUS
    <2>1. b \in Books /\ Knows(old, b)
      BY <1>6, Facts DEF Knows
    <2>2. Owes(old, b) /\ (b \notin askew => Underway(old, b))
      BY <2>1, Held
    <2>3. Owes(r, b)'
      BY <1>2, <1>3, <1>4, <2>2 DEF Owes
    <2>4. CASE b = x
      <3>1. x \in onShelf /\ x \notin old.prior
        BY <1>1, <2>2, <2>4 DEF Owes
      <3>2. x \notin askew' => x \in edges'
        BY <1>3, <1>6
      <3> QED
        BY <1>1, <1>2, <1>3, <1>4, <2>3, <2>4, <3>1, <3>2 DEF Underway, Agree
    <2>5. CASE b # x
      <3>1. b \notin askew' => Underway(old, b)
        BY <1>6, <2>1, <2>2, <2>5
      <3>2. b \in edges' <=> b \in edges
        BY <1>6, <2>1, <2>5
      <3> QED
        BY <1>1, <1>2, <1>3, <1>4, <2>3, <2>5, <3>1, <3>2 DEF Underway, Agree
    <2> QED
      BY <2>4, <2>5
  <1>8. \A b \in Books : b \notin askew' => b \notin askew \/ Knows(old, b)
    BY <1>6
  <1> QED
    BY <1>2, <1>3, <1>4, <1>5, <1>6, <1>7, <1>8, Facts, CallSteps

LEMMA DropEdgeKeeps ==
  ASSUME SInv, NEW c \in ShelfCalls, NEW x \in Books, NEW written \in BOOLEAN,
         DropEdge(c, x, written)
  PROVE  SInv'
  <1> DEFINE old == shelfCall[c]
             new == [old EXCEPT !.prior = old.prior \ {x}]
  <1>1. /\ old \in CallRecord /\ CallShape(old) /\ old.stage = "edges" /\ old.added = {}
        /\ x \in old.prior
    BY Facts DEF DropEdge
  <1>2. /\ new \in CallRecord /\ new.op = old.op /\ new.alone = old.alone /\ new.want = old.want
        /\ new.stage = old.stage /\ new.prior = old.prior \ {x} /\ new.added = old.added
    BY <1>1 DEF CallRecord
  <1>3. /\ shelfCall' = [shelfCall EXCEPT ![c] = new]
        /\ UNCHANGED <<shelf, owned, alive, onShelf, shelfBegun>>
        /\ IF written THEN edges' = edges \ {x} /\ askew' = Settled(c, x)
                      ELSE edges' = edges /\ askew' = askew \cup {x}
    BY Facts DEF DropEdge, CallRecord
  <1> HIDE DEF new
  <1>4. PICK r \in CallRecord : r = new
    BY <1>2
  <1>5. CallShape(r) /\ r # NoShelfCall
    BY <1>1, <1>2, <1>4, Idle DEF CallShape
  <1>6. /\ shelf # "none" /\ x \in Handles(old) /\ askew' \subseteq Books /\ edges' \subseteq Books
        /\ x \notin askew' => written /\ Knows(old, x)
        /\ \A b \in Books \ {x} : (b \in askew' <=> b \in askew) /\ (b \in edges' <=> b \in edges)
    BY <1>1, <1>3, AtEdges, Facts
  <1>7. shelf = "row" => \A b \in alive \cap Handles(old) :
            /\ Knows(old, b) \/ b \notin askew' => Owes(r, b)'
            /\ b \notin askew' => Underway(r, b)'
    <2> SUFFICES ASSUME shelf = "row", NEW b \in alive \cap Handles(old),
                        Knows(old, b) \/ b \notin askew'
                 PROVE  Owes(r, b)' /\ (b \notin askew' => Underway(r, b)')
      OBVIOUS
    <2>1. b \in Books /\ Knows(old, b)
      BY <1>6, Facts DEF Knows
    <2>2. Owes(old, b) /\ (b \notin askew => Underway(old, b))
      BY <2>1, Held
    <2>3. Owes(r, b)'
      BY <1>2, <1>3, <1>4, <2>2 DEF Owes
    <2>4. CASE b = x
      <3>1. x \notin onShelf
        BY <1>1, <2>2, <2>4 DEF Owes
      <3>2. x \notin askew' => x \notin edges'
        BY <1>3, <1>6
      <3> QED
        BY <1>1, <1>2, <1>3, <1>4, <2>3, <2>4, <3>1, <3>2 DEF Underway, Agree
    <2>5. CASE b # x
      <3>1. b \notin askew' => Underway(old, b)
        BY <1>6, <2>1, <2>2, <2>5
      <3>2. b \in edges' <=> b \in edges
        BY <1>6, <2>1, <2>5
      <3> QED
        BY <1>1, <1>2, <1>3, <1>4, <2>3, <2>5, <3>1, <3>2 DEF Underway, Agree
    <2> QED
      BY <2>4, <2>5
  <1>8. \A b \in Books : b \notin askew' => b \notin askew \/ Knows(old, b)
    BY <1>6
  <1> QED
    BY <1>2, <1>3, <1>4, <1>5, <1>6, <1>7, <1>8, Facts, CallSteps

\* A request that begins meets nobody at its books, or they are askew from then
\* on and neither request can put them right.
LEMMA ShelfBegins ==
  ASSUME SInv, NEW c \in ShelfCalls, NEW op \in {"insert", "set", "add", "remove", "delete"},
         NEW stage \in {"prior", "rows"}, NEW want \in SUBSET Books,
         ShelfBegin(c, op, stage, want), stage = "prior" <=> op = "set",
         op = "insert" <=> shelf = "none",
         op = "insert" => \A d \in ShelfCalls : shelfCall[d].op # "insert",
         op \in {"add", "remove"} => \E b \in Books : want = {b}
  PROVE  SInv'
  <1> DEFINE begun == [NoShelfCall EXCEPT !.op = op, !.stage = stage, !.want = want]
             meets(d) == Handles(shelfCall[d]) \cap Handles(begun) # {}
             free == \A e \in ShelfCalls \ {c} : ~meets(e)
  <1>1. /\ begun \in CallRecord /\ begun.op = op /\ begun.stage = stage /\ begun.want = want
        /\ begun.prior = {} /\ begun.out = {} /\ begun.in = {} /\ begun.added = {}
    BY DEF NoShelfCall, CallRecord, ShelfOps, ShelfStages
  <1>2. /\ shelfCall' = [d \in ShelfCalls |-> IF d = c THEN [begun EXCEPT !.alone = free]
                          ELSE [shelfCall[d] EXCEPT !.alone = shelfCall[d].alone /\ ~meets(d)]]
        /\ askew' = askew \cup (Handles(begun) \cap HandledByOthers(c))
        /\ shelfBegun' = shelfBegun + 1 /\ shelfBegun < MaxShelfCalls
        /\ shelfCall[c].stage = "idle"
        /\ UNCHANGED <<shelf, owned, alive, onShelf, edges>>
    BY Facts DEF ShelfBegin, CallRecord
  <1>3. /\ shelfCall' \in [ShelfCalls -> CallRecord]
        /\ shelfCall'[c].op = op /\ shelfCall'[c].stage = stage /\ shelfCall'[c].want = want
        /\ shelfCall'[c].prior = {} /\ shelfCall'[c].out = {} /\ shelfCall'[c].in = {}
        /\ shelfCall'[c].added = {}
        /\ shelfCall'[c].alone => free
    <2>1. [begun EXCEPT !.alone = free] \in CallRecord
      BY <1>1 DEF CallRecord
    <2>2. \A d \in ShelfCalls :
             [shelfCall[d] EXCEPT !.alone = shelfCall[d].alone /\ ~meets(d)] \in CallRecord
      BY Facts DEF CallRecord
    <2> QED
      BY <1>1, <1>2, <2>1, <2>2 DEF CallRecord
  <1>4. \A d \in ShelfCalls \ {c} :
           /\ shelfCall'[d].op = shelfCall[d].op /\ shelfCall'[d].stage = shelfCall[d].stage
           /\ shelfCall'[d].want = shelfCall[d].want /\ shelfCall'[d].prior = shelfCall[d].prior
           /\ shelfCall'[d].out = shelfCall[d].out /\ shelfCall'[d].in = shelfCall[d].in
           /\ shelfCall'[d].added = shelfCall[d].added
           /\ shelfCall'[d].alone => shelfCall[d].alone /\ ~meets(d)
    BY <1>2, Facts DEF CallRecord
  <1>5. /\ Handles(shelfCall'[c]) = Handles(begun) /\ Handles(shelfCall[c]) = {}
        /\ \A d \in ShelfCalls \ {c} : Handles(shelfCall'[d]) = Handles(shelfCall[d])
    <2>1. shelfCall[c].op = "none"
      BY <1>2, Facts DEF CallShape
    <2> QED
      BY <1>1, <1>3, <1>4, <2>1 DEF Handles
  <1>6. \A b \in Books : b \in Handles(begun) /\ b \notin askew' =>
           \A d \in ShelfCalls \ {c} : b \notin Handles(shelfCall[d])
    BY <1>2 DEF HandledByOthers
  <1> HIDE DEF begun
  <1>7. ShelfTypeOK'
    <2>1. askew' \subseteq Books
      BY <1>2, Facts DEF HandledByOthers
    <2>2. shelfBegun' \in 0..MaxShelfCalls
      BY <1>2, MaxShelfCallsNat DEF SInv, ShelfTypeOK
    <2> QED
      BY <1>2, <1>3, <2>1, <2>2 DEF SInv, ShelfTypeOK, CallRecord
  <1>8. Shapes'
    <2>1. CallShape(shelfCall[c])'
      BY <1>2, <1>3 DEF CallShape
    <2>2. \A d \in ShelfCalls \ {c} : CallShape(shelfCall[d])'
      <3> SUFFICES ASSUME NEW d \in ShelfCalls \ {c} PROVE CallShape(shelfCall[d])'
        OBVIOUS
      <3>1. CallShape(shelfCall[d])
        BY DEF SInv, Shapes
      <3> QED
        BY <1>2, <1>4, <3>1 DEF CallShape
    <2>3. \A d \in ShelfCalls : CallShape(shelfCall[d])'
      BY <2>1, <2>2
    <2>4. \A d, e \in ShelfCalls :
             shelfCall'[d].op = "insert" /\ shelfCall'[e].op = "insert" /\ shelf = "none" => d = e
      BY <1>3, <1>4
    <2>5. shelf = "none" => onShelf = {} /\ edges = {}
      BY DEF SInv, Shapes
    <2> QED
      BY <1>2, <2>3, <2>4, <2>5 DEF Shapes
  <1>9. \A d \in ShelfCalls \ {c}, b \in Books : Knows(shelfCall[d], b)' => Knows(shelfCall[d], b)
    BY <1>2, <1>4, <1>5 DEF Knows, Handles
  <1>10. Sole'
    <2> SUFFICES ASSUME NEW d \in ShelfCalls, NEW e \in ShelfCalls, NEW b \in Books,
                        Knows(shelfCall[d], b)', b \in Handles(shelfCall'[e]), d # e
                 PROVE  FALSE
      BY DEF Sole, Handles
    <2>1. /\ b \in Handles(shelfCall'[d])
          /\ b \notin askew' \/ shelfCall'[d].alone
      BY DEF Knows, Handles
    <2>2. CASE d = c
      BY <1>3, <1>5, <1>6, <2>1, <2>2
    <2>3. CASE e = c
      BY <1>4, <1>5, <1>6, <2>1, <2>3
    <2>4. CASE d # c /\ e # c
      BY <1>5, <1>9, <2>4 DEF SInv, Sole
    <2> QED
      BY <2>2, <2>3, <2>4
  <1>11. InHand'
    <2> SUFFICES ASSUME shelf = "row", NEW d \in ShelfCalls, NEW b \in alive,
                        b \in Handles(shelfCall'[d])
                 PROVE  /\ Knows(shelfCall[d], b)' => Owes(shelfCall[d], b)'
                        /\ b \notin askew' => Underway(shelfCall[d], b)'
      BY <1>2 DEF InHand, Knows, Handles
    <2>1. b \in Books /\ (b \notin askew' => b \notin askew)
      BY <1>2, Facts
    <2>2. CASE d = c
      <3>1. b \notin askew' => Agree(b)
        BY <1>5, <1>6, <2>1, <2>2 DEF SInv, EdgesFollowRows, Agree
      <3> QED
        BY <1>2, <1>3, <2>2, <3>1 DEF Owes, Underway, Agree
    <2>3. CASE d # c
      <3>1. /\ Knows(shelfCall[d], b)' => Owes(shelfCall[d], b)
            /\ b \notin askew' => Underway(shelfCall[d], b)
        BY <1>5, <1>9, <2>1, <2>3, Held
      <3> QED
        BY <1>2, <1>4, <2>3, <3>1 DEF Owes, Underway, Agree
    <2> QED
      BY <2>2, <2>3
  <1>12. EdgesFollowRows'
    <2> SUFFICES ASSUME shelf = "row", NEW b \in alive, b \notin askew,
                        \A d \in ShelfCalls : b \notin Handles(shelfCall'[d])
                 PROVE  Agree(b)
      BY <1>2 DEF EdgesFollowRows, Agree, Handles
    <2>1. \A d \in ShelfCalls : b \notin Handles(shelfCall[d])
      BY <1>5
    <2> QED
      BY <2>1 DEF SInv, EdgesFollowRows, Agree
  <1> QED
    BY <1>7, <1>8, <1>10, <1>11, <1>12 DEF SInv

LEMMA BeginKeeps ==
  ASSUME SInv, NEW c \in ShelfCalls,
         \/ BeginInsertShelf(c) \/ BeginDeleteShelf(c)
         \/ \E want \in SUBSET Books : BeginSetBooks(c, want)
         \/ \E b \in Books : BeginAddBook(c, b) \/ BeginRemoveBook(c, b)
  PROVE  SInv'
  <1>1. CASE BeginInsertShelf(c)
    BY <1>1, ShelfBegins DEF BeginInsertShelf
  <1>2. CASE BeginDeleteShelf(c)
    BY <1>2, ShelfBegins DEF BeginDeleteShelf
  <1>3. ASSUME NEW want \in SUBSET Books, BeginSetBooks(c, want) PROVE SInv'
    BY <1>3, ShelfBegins DEF BeginSetBooks
  <1>4. ASSUME NEW b \in Books, BeginAddBook(c, b) PROVE SInv'
    BY <1>4, ShelfBegins DEF BeginAddBook
  <1>5. ASSUME NEW b \in Books, BeginRemoveBook(c, b) PROVE SInv'
    BY <1>5, ShelfBegins DEF BeginRemoveBook
  <1> QED
    BY <1>1, <1>2, <1>3, <1>4, <1>5

LEMMA InsertShelfKeeps == ASSUME SInv, NEW c \in ShelfCalls, InsertShelfRow(c) PROVE SInv'
  <1> DEFINE new == [shelfCall[c] EXCEPT !.stage = "mirror"]
  <1>1. /\ shelf = "none" /\ shelfCall[c].op = "insert" /\ onShelf = {} /\ edges = {}
        /\ \A d \in ShelfCalls : shelfCall[d].op = "none" \/ d = c
    BY Facts DEF SInv, Shapes, CallShape, InsertShelfRow
  <1>2. new \in CallRecord /\ new.op = "insert" /\ new.stage = "mirror"
    BY <1>1, Facts DEF CallRecord, ShelfStages
  <1>3. /\ shelf' = "row" /\ shelfCall' = [shelfCall EXCEPT ![c] = new]
        /\ UNCHANGED <<owned, alive, onShelf, edges, shelfBegun, askew>>
    BY Facts DEF InsertShelfRow, CallRecord
  <1> HIDE DEF new
  <1>4. /\ shelfCall' \in [ShelfCalls -> CallRecord] /\ shelfCall'[c] = new
        /\ \A d \in ShelfCalls \ {c} : shelfCall'[d] = shelfCall[d]
    BY <1>2, <1>3, Facts
  <1>5. \A d \in ShelfCalls : Handles(shelfCall'[d]) = {}
    BY <1>1, <1>2, <1>4 DEF Handles
  <1>6. ShelfTypeOK'
    BY <1>3, <1>4 DEF SInv, ShelfTypeOK, CallRecord
  <1>7. Shapes'
    <2>1. CallShape(shelfCall[c])'
      BY <1>2, <1>3, <1>4 DEF CallShape
    <2>2. \A d \in ShelfCalls \ {c} : CallShape(shelfCall[d])'
      BY <1>1, <1>3, <1>4 DEF SInv, Shapes, CallShape
    <2> QED
      BY <1>3, <2>1, <2>2 DEF Shapes
  <1>8. Sole' /\ InHand'
    BY <1>5 DEF Sole, InHand, Knows, Handles
  <1>9. EdgesFollowRows'
    BY <1>1, <1>3 DEF EdgesFollowRows
  <1> QED
    BY <1>6, <1>7, <1>8, <1>9 DEF SInv

LEMMA DeleteShelfKeeps == ASSUME SInv, NEW c \in ShelfCalls, DeleteShelfRow(c) PROVE SInv'
  <1> DEFINE new == IF shelf = "row" THEN [shelfCall[c] EXCEPT !.stage = "mirror"] ELSE NoShelfCall
  <1>1. /\ shelfCall[c].op = "delete" /\ shelf # "none"
        /\ \A d \in ShelfCalls : ~(shelfCall[d].op = "insert" /\ shelfCall[d].stage = "rows")
    BY Facts DEF SInv, Shapes, CallShape, DeleteShelfRow
  <1>2. /\ new \in CallRecord
        /\ \/ new = NoShelfCall
           \/ /\ new.op = "delete" /\ new.stage = "mirror" /\ new.alone = shelfCall[c].alone
    BY <1>1, Facts, Idle DEF CallRecord, ShelfStages
  <1>3. /\ shelf' = "deleted" /\ shelfCall' = [shelfCall EXCEPT ![c] = new] /\ onShelf' = {}
        /\ UNCHANGED <<owned, alive, edges, shelfBegun, askew>>
    BY Facts DEF DeleteShelfRow, CallRecord
  <1> HIDE DEF new
  <1>4. /\ shelfCall' \in [ShelfCalls -> CallRecord] /\ shelfCall'[c] = new
        /\ \A d \in ShelfCalls \ {c} : shelfCall'[d] = shelfCall[d]
    BY <1>2, <1>3, Facts
  <1>5. ShelfTypeOK'
    BY <1>3, <1>4 DEF SInv, ShelfTypeOK, CallRecord
  <1>6. Shapes'
    <2>1. CallShape(shelfCall[c])'
      BY <1>2, <1>3, <1>4, Idle DEF CallShape
    <2>2. \A d \in ShelfCalls \ {c} : CallShape(shelfCall[d])'
      BY <1>1, <1>3, <1>4 DEF SInv, Shapes, CallShape
    <2> QED
      BY <1>3, <2>1, <2>2 DEF Shapes
  <1>7. \A d \in ShelfCalls : Handles(shelfCall'[d]) \subseteq Handles(shelfCall[d])
    BY <1>1, <1>2, <1>4, Idle DEF Handles
  <1>8. \A d \in ShelfCalls, b \in Books : Knows(shelfCall[d], b)' => Knows(shelfCall[d], b)
    <2>1. \A d \in ShelfCalls : shelfCall'[d].op \in {"add", "remove"} => shelfCall'[d] = shelfCall[d]
      BY <1>2, <1>4, Idle
    <2> QED
      BY <1>3, <1>7, <2>1 DEF Knows, Handles
  <1>9. Sole'
    BY <1>7, <1>8 DEF SInv, Sole, Handles
  <1> QED
    BY <1>3, <1>5, <1>6, <1>9 DEF SInv, InHand, EdgesFollowRows

LEMMA BookGoneKeeps == ASSUME SInv, NEW x \in Books, BookGone(x) PROVE SInv'
  <1>1. /\ alive' = alive \ {x} /\ onShelf' = onShelf \ {x}
        /\ UNCHANGED <<shelf, owned, edges, shelfCall, shelfBegun, askew>>
    BY DEF BookGone
  <1>2. ShelfTypeOK'
    BY <1>1 DEF SInv, ShelfTypeOK
  <1>3. Shapes' /\ Sole'
    BY <1>1 DEF SInv, Shapes, Sole, CallShape, Knows, Handles
  <1>4. InHand'
    <2> SUFFICES ASSUME shelf = "row", NEW c \in ShelfCalls, NEW b \in alive, b # x
                 PROVE  /\ Knows(shelfCall[c], b) => Owes(shelfCall[c], b)'
                        /\ b \in Handles(shelfCall[c]) /\ b \notin askew =>
                              Underway(shelfCall[c], b)'
      BY <1>1 DEF InHand, Knows, Handles
    <2>1. /\ Knows(shelfCall[c], b) => Owes(shelfCall[c], b)
          /\ b \in Handles(shelfCall[c]) /\ b \notin askew => Underway(shelfCall[c], b)
      BY DEF SInv, InHand
    <2> QED
      BY <1>1, <2>1 DEF Owes, Underway, Agree
  <1>5. EdgesFollowRows'
    BY <1>1 DEF SInv, EdgesFollowRows, Handles
  <1> QED
    BY <1>2, <1>3, <1>4, <1>5 DEF SInv

LEMMA ShelfSteps == SInv /\ [ShelfNext]_shelfVars => SInv'
  <1> SUFFICES ASSUME SInv, [ShelfNext]_shelfVars PROVE SInv'
    OBVIOUS
  <1>1. ASSUME NEW c \in ShelfCalls,
               \/ BeginInsertShelf(c) \/ BeginDeleteShelf(c)
               \/ \E want \in SUBSET Books : BeginSetBooks(c, want)
               \/ \E b \in Books : BeginAddBook(c, b) \/ BeginRemoveBook(c, b)
        PROVE  SInv'
    BY <1>1, BeginKeeps
  <1>2. ASSUME NEW c \in ShelfCalls, InsertShelfRow(c) \/ DeleteShelfRow(c) PROVE SInv'
    BY <1>2, InsertShelfKeeps, DeleteShelfKeeps
  <1>3. ASSUME NEW c \in ShelfCalls, ReadPrior(c) \/ ReadShelf(c) PROVE SInv'
    BY <1>3, ReadPriorKeeps, ReadShelfKeeps
  <1>4. ASSUME NEW c \in ShelfCalls, RowsDone(c) \/ EdgesDone(c) PROVE SInv'
    BY <1>4, RowsDoneKeeps, EdgesDoneKeeps
  <1>5. ASSUME NEW c \in ShelfCalls, ShelfFails(c) PROVE SInv'
    BY <1>5, RaisesKeep DEF ShelfFails
  <1>6. ASSUME NEW c \in ShelfCalls, NEW written \in BOOLEAN, MirrorShelf(c, written) PROVE SInv'
    BY <1>6, MirrorKeeps
  <1>7. ASSUME NEW c \in ShelfCalls, NEW b \in Books,
               DropRow(c, b) \/ AddRow(c, b) \/ BookRow(c, b)
        PROVE  SInv'
    BY <1>7, DropRowKeeps, AddRowKeeps, BookRowKeeps
  <1>8. ASSUME NEW c \in ShelfCalls, NEW b \in Books, NEW written \in BOOLEAN,
               AddEdge(c, b, written) \/ DropEdge(c, b, written)
        PROVE  SInv'
    BY <1>8, AddEdgeKeeps, DropEdgeKeeps
  <1>9. ASSUME NEW b \in Books, BookGone(b) PROVE SInv'
    BY <1>9, BookGoneKeeps
  <1>10. CASE UNCHANGED shelfVars
    BY <1>10 DEF shelfVars, SInv, ShelfTypeOK, Shapes, CallShape, Sole, Knows, Handles, InHand,
                 Owes, Underway, Agree, EdgesFollowRows
  <1> QED
    BY <1>1, <1>2, <1>3, <1>4, <1>5, <1>6, <1>7, <1>8, <1>9, <1>10 DEF ShelfNext

LEMMA ShelfAlways == ShelfSpec => []SInv
  BY ShelfStart, ShelfSteps, PTL DEF ShelfSpec

(* Shelf, books and requests keep their types (shelf/postgres.py,            *)
(* spicedb_decorator.py).                                                    *)
THEOREM ShelfTyped == ShelfSpec => []ShelfTypeOK
  <1>1. SInv => ShelfTypeOK
    BY DEF SInv
  <1> QED
    BY <1>1, ShelfAlways, PTL

(* The mirror agrees with the rows of a standing shelf at every book nobody  *)
(* is working at and at which no edge was lost, overlapped or cut short      *)
(* (SpicedbShelfRepoDecorator), for every number of books and requests; one  *)
(* undisturbed add or remove of a book makes it agree again.                 *)
THEOREM MirrorAlwaysAgrees == ShelfSpec => []EdgesFollowRows
  <1>1. SInv => EdgesFollowRows
    BY DEF SInv
  <1> QED
    BY <1>1, ShelfAlways, PTL

(***************************************************************************)
(* The import of a book, for every export: ImportComplete, by an invariant *)
(* about the notes each pass has already been through.                     *)
(***************************************************************************)

\* The uploaded file a reference is about, as a set.
Shown(r) == Meant(r) \cap uploaded
\* A reference that has a key has the right one; one to a file has it from the start.
Sound(t) == /\ t.key # Literal => {t.key} = Shown(t.ref)
            /\ t.ref.how = "file" => {t.key} \ {Literal} = Shown(t.ref)
Resolved(t) == t.ref.how # "page" => {t.key} \ {Literal} = Shown(t.ref)

PageAt(k) == export.pages[imported[k].page]
\* Notes are made from the pages stage on.
MadeInTime ==
    /\ importStage = "files" => uploaded = {} /\ chapterDirs = {}
    /\ importStage \in {"files", "book", "chapters"} => imported = <<>>
\* Each page lies where it should, and each chapter counts what lies in it.
Placed == \A k \in DOMAIN imported :
              imported[k].dir = IF PageAt(k).chapter \in chapterDirs THEN PageAt(k).chapter
                                ELSE BookDir
DirNotes(c) == {k \in DOMAIN imported : imported[k].dir = c}
Counted == \A c \in ChapterIds(export) : tally[c] = Cardinality(DirNotes(c))
\* The first pass remembers the note of each page, unless two pages have one id.
Remembered ==
    ~Clash => \A k \in DOMAIN imported : firstPass[PageAt(k).id] = k
InTurn == importStage = "pages" =>
              /\ Len(imported) < pos
              /\ \A k \in DOMAIN imported : imported[k].page < pos
TextsSound == ~Clash => \A k \in DOMAIN imported : \A t \in imported[k].text : Sound(t)
\* The passes that follow: linking, by page, and rewriting, by note.
LinkedBy(k) == \/ importStage = "links" /\ imported[k].page < pos
               \/ importStage \in {"rewrite", "done"}
RewrittenBy(k) == (importStage = "rewrite" /\ k < pos) \/ importStage = "done"
Linked(k) == \A t \in imported[k].text : t.ref.how # "page" => Shown(t.ref) \subseteq imported[k].links
NotesLinked ==
    ~Clash => \A k \in DOMAIN imported : imported[k].whole /\ LinkedBy(k) => Linked(k)
NotesRewritten ==
    ~Clash => \A k \in DOMAIN imported : imported[k].whole /\ RewrittenBy(k) =>
                  \A t \in imported[k].text : Resolved(t)
Position == pos \in Nat /\ (importStage # "files" => pos >= 1)

ImportInv ==
    /\ ImportTypeOK /\ Position /\ MadeInTime /\ Placed /\ Counted /\ Remembered
    /\ InTurn /\ TextsSound /\ NotesLinked /\ NotesRewritten

-----------------------------------------------------------------------------
(* What an export is.                                                        *)

\* The pages are numbered from 1.
LEMMA PagesNumbered ==
    ASSUME export \in Exports
    PROVE  /\ export.pages \in Seq(PagesOf(export)) /\ Len(export.pages) \in Nat
           /\ DOMAIN export.pages = 1..Len(export.pages)
           /\ export.chapters \in Seq(Nat \ {0}) /\ Literal \notin export.files
           /\ BookDir \notin ChapterIds(export)
           /\ \A p \in PagesOf(export) : \A r \in p.refs :
                 r \in RefsOf(export)
                 /\ r.how \in {"file", "image", "attachment", "page"}
BY ExportsAssumption DEF RefsOf

\* Where no ids clash, two pages have two ids.
LEMMA IdsDiffer ==
    ASSUME export \in Exports, ~Clash,
           NEW a \in DOMAIN export.pages, NEW b \in DOMAIN export.pages,
           export.pages[a].id = export.pages[b].id
    PROVE  a = b
<1> DEFINE n == Len(export.pages)
           f == [k \in 1..n |-> export.pages[k].id]
<1>1. n \in Nat /\ DOMAIN export.pages = 1..n
  BY PagesNumbered
<1>2. IsFiniteSet(1..n) /\ Cardinality(1..n) = n
  BY <1>1, FS_Interval
<1>3. f \in Surjection(1..n, Ids(export))
  <2>1. f \in [1..n -> Ids(export)]
    BY <1>1 DEF Ids, PagesOf
  <2>2. \A id \in Ids(export) : \E k \in 1..n : f[k] = id
    BY <1>1 DEF Ids, PagesOf
  <2> QED BY <2>1, <2>2 DEF Surjection
<1>4. Cardinality(Ids(export)) = n
  BY DEF Clash
<1>5. f \in Injection(1..n, Ids(export))
  BY <1>2, <1>3, <1>4, FS_Surjection
<1>6. f[a] = f[b]
  BY <1>1
<1> QED BY <1>1, <1>5, <1>6 DEF Injection, IsInjective

\* An id that has a key stands for that one file, in both indices.
LEMMA Keyed ==
    ASSUME export \in Exports, NEW kind \in {"image", "attachment"}, NEW id, HasKey(kind, id)
    PROVE  /\ KeyOf(kind, id) \in uploaded
           /\ \A r : r.how = kind /\ r.to = id => Shown(r) = {KeyOf(kind, id)}
           /\ \E x \in Declared(export, kind) : x.id = id
<1>1. PICK y \in Known(kind) : y.id = id /\ y.file = KeyOf(kind, id)
  BY DEF HasKey, KeyOf
<1>2. y \in Declared(export, kind) /\ y.id # 0 /\ y.file \in uploaded
  BY <1>1 DEF Known
<1>3. ASSUME NEW r, r.how = kind, r.to = id
      PROVE  Shown(r) = {y.file}
  <2>1. Shown(r) = {x.file : x \in {z \in Declared(export, kind) : z.id = id /\ z.id # 0}}
                      \cap uploaded
    BY <1>3 DEF Shown, Meant
  <2>2. \A z \in Declared(export, kind) : z.id = id => z.file = y.file
    BY <1>1, <1>2, ExportsConsistent
  <2> QED BY <1>1, <1>2, <2>1, <2>2
<1> QED BY <1>1, <1>2, <1>3

\* One without a key shows nothing.
LEMMA Unkeyed ==
    ASSUME NEW kind \in {"image", "attachment"}, NEW r, r.how = kind, ~HasKey(kind, r.to)
    PROVE  Shown(r) = {}
BY DEF Shown, Meant, HasKey, Known

\* Where no ids clash, the flat index says what the index of the kind says.
LEMMA FlatIsExact ==
    ASSUME export \in Exports, ~Clash, NEW r, r.how \in {"image", "attachment"},
           HasKey(r.how, r.to)
    PROVE  InFlat(r.to) /\ {Flat(r.to)} = Shown(r)
<1>1. Shown(r) = {KeyOf(r.how, r.to)}
  BY Keyed
<1>2. CASE r.how = "attachment"
  BY <1>1, <1>2 DEF InFlat, Flat
<1>3. CASE r.how = "image"
  <2>1. \E x \in Declared(export, "image") : x.id = r.to
    BY <1>3, Keyed
  <2>2. ~HasKey("attachment", r.to)
    BY <2>1 DEF Clash, HasKey, Known
  <2> QED BY <1>1, <1>3, <2>2 DEF InFlat, Flat
<1> QED BY <1>2, <1>3

\* The flat index has keys of uploaded files only.
LEMMA FlatUploaded ==
    ASSUME export \in Exports, NEW id, InFlat(id)
    PROVE  Flat(id) \in uploaded
BY Keyed DEF InFlat, Flat

-----------------------------------------------------------------------------
(* What the passes make of a text.                                           *)

\* A key in a text is that of an uploaded file.
LEMMA ConvertedTyped ==
    ASSUME export \in Exports, NEW p \in PagesOf(export)
    PROVE  Converted(p) \subseteq TextOf
<1> SUFFICES ASSUME NEW r \in p.refs,
                    NEW t, t \in Converted(p), t.ref = r
             PROVE  t \in TextOf
  BY DEF Converted, Ref
<1> QED BY FlatUploaded DEF Converted, Ref, TextOf, RefsOf

LEMMA RewrittenTyped ==
    ASSUME export \in Exports, NEW passage \in SUBSET TextOf
    PROVE  Rewritten(passage) \subseteq TextOf
<1> SUFFICES ASSUME NEW t \in passage, t.ref.how \in {"image", "attachment"},
                    HasKey(t.ref.how, t.ref.to)
             PROVE  Ref(t.ref, KeyOf(t.ref.how, t.ref.to)) \in TextOf
  BY DEF Rewritten
<1> QED BY Keyed DEF Ref, TextOf

LEMMA ReferencedUploaded ==
    ASSUME export \in Exports, NEW p, NEW passage \in SUBSET TextOf
    PROVE  Referenced(p, passage) \subseteq uploaded
BY FlatUploaded DEF Referenced, TextOf

\* The conversion puts a key only where it is the right one.
LEMMA ConvertedSound ==
    ASSUME export \in Exports, uploaded \subseteq export.files, ~Clash,
           NEW p \in PagesOf(export), NEW t \in Converted(p)
    PROVE  Sound(t)
<1> DEFINE own == {i.id : i \in {x \in p.images : x.id # 0 /\ InFlat(x.id)}}
           Key(r) == IF r.how = "file" /\ r.to \in uploaded THEN r.to
                     ELSE IF r.how \in {"image", "attachment"} /\ r.inline /\ r.to \in own
                          THEN Flat(r.to) ELSE Literal
<1>1. PICK r \in p.refs : t = Ref(r, Key(r))
  BY DEF Converted
<1>2. t.ref = r /\ t.key = Key(r) /\ r \in RefsOf(export) /\ Literal \notin uploaded
  BY <1>1, PagesNumbered DEF Ref
<1> HIDE DEF own
<1>3. CASE r.how = "file"
  <2>1. Shown(r) = {r.to} \cap uploaded
    BY <1>3 DEF Shown, Meant
  <2> QED BY <1>2, <1>3, <2>1 DEF Sound
<1>4. CASE r.how \in {"image", "attachment"} /\ r.inline /\ r.to \in own
  <2>1. PICK x \in p.images : x.id = r.to /\ InFlat(x.id)
    BY <1>4 DEF own
  <2>2. x \in Declared(export, "image")
    BY DEF Declared
  <2>3. r.how = "image"
    BY <1>4, <2>1, <2>2 DEF Clash
  <2>4. ~HasKey("attachment", r.to)
    BY <2>1, <2>2 DEF Clash, HasKey, Known
  <2>5. HasKey(r.how, r.to)
    BY <2>1, <2>3, <2>4 DEF InFlat
  <2>6. {Flat(r.to)} = Shown(r)
    BY <2>3, <2>5, FlatIsExact
  <2> QED BY <1>2, <1>4, <2>3, <2>6 DEF Sound
<1>5. CASE r.how # "file" /\ ~(r.how \in {"image", "attachment"} /\ r.inline /\ r.to \in own)
  BY <1>2, <1>5 DEF Sound
<1> QED BY <1>3, <1>4, <1>5

\* The rewriting leaves no reference to an uploaded file without its key.
LEMMA RewrittenSettled ==
    ASSUME export \in Exports, uploaded \subseteq export.files, ~Clash,
           NEW passage \in SUBSET TextOf, \A t \in passage : Sound(t), NEW t \in Rewritten(passage)
    PROVE  Sound(t) /\ Resolved(t) /\ \E u \in passage : u.ref = t.ref
<1> DEFINE New(u) == u.key = Literal /\ u.ref.how \in {"image", "attachment"}
                     /\ HasKey(u.ref.how, u.ref.to)
<1>1. PICK u \in passage : t = IF New(u) THEN Ref(u.ref, KeyOf(u.ref.how, u.ref.to)) ELSE u
  BY DEF Rewritten
<1>2. Sound(u) /\ u.ref \in RefsOf(export) /\ u.key \in uploaded \cup {Literal}
      /\ u.ref.how \in {"file", "image", "attachment", "page"} /\ Literal \notin uploaded
  BY PagesNumbered DEF TextOf, RefsOf
<1>3. CASE New(u)
  <2>1. t.ref = u.ref /\ t.key = KeyOf(u.ref.how, u.ref.to)
    BY <1>1, <1>3 DEF Ref
  <2>2. {t.key} = Shown(t.ref) /\ t.key \in uploaded
    BY <1>3, <2>1, Keyed
  <2> QED BY <1>2, <1>3, <2>1, <2>2 DEF Sound, Resolved
<1>4. CASE ~New(u)
  <2>1. t = u
    BY <1>1, <1>4
  <2>2. CASE u.key # Literal
    BY <1>2, <2>1, <2>2 DEF Sound, Resolved
  <2>3. CASE u.key = Literal /\ u.ref.how \in {"image", "attachment"}
    <3>1. Shown(u.ref) = {}
      BY <1>4, <2>3, Unkeyed
    <3> QED BY <1>2, <2>1, <2>3, <3>1 DEF Sound, Resolved
  <2>4. CASE u.ref.how \in {"file", "page"}
    BY <1>2, <2>1, <2>4 DEF Sound, Resolved
  <2> QED BY <1>2, <2>1, <2>2, <2>3, <2>4
<1> QED BY <1>3, <1>4

\* A text that the rewriting leaves alone needs none.
LEMMA SettledAlready ==
    ASSUME export \in Exports, uploaded \subseteq export.files, ~Clash,
           NEW passage \in SUBSET TextOf, \A t \in passage : Sound(t), Rewritten(passage) = passage
    PROVE  \A t \in passage : Resolved(t)
BY RewrittenSettled

\* The links cover what the text will show.
LEMMA ReferencedCovers ==
    ASSUME export \in Exports, uploaded \subseteq export.files, ~Clash,
           NEW p, NEW passage \in SUBSET TextOf, NEW t \in passage, Sound(t), t.ref.how # "page"
    PROVE  Shown(t.ref) \subseteq Referenced(p, passage)
<1>1. t.ref \in RefsOf(export) /\ t.ref.how \in {"file", "image", "attachment"}
  BY PagesNumbered DEF TextOf, RefsOf
<1>2. CASE t.key # Literal
  BY <1>2 DEF Sound, Referenced
<1>3. CASE t.key = Literal /\ t.ref.how = "file"
  BY <1>3 DEF Sound
<1>4. CASE t.key = Literal /\ t.ref.how \in {"image", "attachment"}
  <2>1. CASE HasKey(t.ref.how, t.ref.to)
    <3>1. InFlat(t.ref.to) /\ {Flat(t.ref.to)} = Shown(t.ref)
      BY <1>4, <2>1, FlatIsExact
    <3> QED BY <1>4, <3>1 DEF Referenced
  <2>2. CASE ~HasKey(t.ref.how, t.ref.to)
    BY <1>4, <2>2, Unkeyed
  <2> QED BY <2>1, <2>2
<1> QED BY <1>1, <1>2, <1>3, <1>4

-----------------------------------------------------------------------------
(* The steps.                                                                *)

\* What depends on the export and the uploads alone.
LEMMA SameMeaning ==
    ASSUME UNCHANGED <<export, uploaded>>
    PROVE  /\ Clash' = Clash /\ TextOf' = TextOf
           /\ \A t : Sound(t)' = Sound(t) /\ Resolved(t)' = Resolved(t)
           /\ \A r : Shown(r)' = Shown(r)
BY DEF Clash, TextOf, Sound, Resolved, Shown, Meant, Declared, PagesOf, Ids, RefsOf

\* What depends on the notes, the chapters and the first pass.
LEMMA SameNotes ==
    ASSUME ImportInv, UNCHANGED <<export, uploaded, chapterDirs, tally, imported, firstPass>>
    PROVE  /\ Placed' /\ Counted' /\ Remembered' /\ TextsSound'
           /\ export' \in Exports /\ uploaded' \subseteq export'.files
           /\ chapterDirs' \subseteq ChapterIds(export')
           /\ (tally \in [ChapterIds(export) -> 0..Len(export.pages)])'
           /\ (firstPass \in [Ids(export) -> 0..Len(imported)])'
           /\ (imported \in Seq(NoteOf))'
           /\ \A k : Linked(k)' = Linked(k)
<1>1. Placed' /\ Counted'
  <2>1. Placed'
    BY DEF ImportInv, Placed, PageAt
  <2>2. \A c : DirNotes(c)' = DirNotes(c)
    BY DEF DirNotes
  <2>3. ChapterIds(export)' = ChapterIds(export)
    BY DEF ChapterIds
  <2> QED BY <2>1, <2>2, <2>3 DEF ImportInv, Counted
<1>2. Remembered' /\ TextsSound'
  BY SameMeaning DEF ImportInv, Remembered, TextsSound, PageAt
<1>3. /\ export' \in Exports /\ uploaded' \subseteq export'.files
      /\ chapterDirs' \subseteq ChapterIds(export')
      /\ (tally \in [ChapterIds(export) -> 0..Len(export.pages)])'
      /\ (firstPass \in [Ids(export) -> 0..Len(imported)])'
  BY DEF ImportInv, ImportTypeOK, ChapterIds, Ids, PagesOf
<1>4. (imported \in Seq(NoteOf))'
  BY SameMeaning DEF ImportInv, ImportTypeOK, NoteOf
<1>5. \A k : Linked(k)' = Linked(k)
  BY SameMeaning DEF Linked
<1> QED BY <1>1, <1>2, <1>3, <1>4, <1>5

\* A note of the import, field by field.
LEMMA NoteTyped ==
    ASSUME ImportInv
    PROVE  /\ Len(imported) \in Nat /\ DOMAIN imported = 1..Len(imported)
           /\ \A k \in DOMAIN imported :
                /\ imported[k] \in NoteOf
                /\ imported[k].page \in DOMAIN export.pages
                /\ PageAt(k) \in PagesOf(export)
                /\ imported[k].dir \in chapterDirs \cup {BookDir}
                /\ imported[k].text \in SUBSET TextOf
                /\ imported[k].links \in SUBSET uploaded
                /\ imported[k].whole \in BOOLEAN
<1>1. imported \in Seq(NoteOf)
  BY DEF ImportInv, ImportTypeOK
<1>2. \A k \in DOMAIN imported : imported[k] \in NoteOf
  BY <1>1
<1> QED BY <1>1, <1>2 DEF NoteOf, PageAt, PagesOf

\* From one stage to the next nothing else changes.
LEMMA StageStep ==
    ASSUME ImportInv, NEW stage, Goto(stage),
           UNCHANGED <<export, uploaded, chapterDirs, tally, imported, firstPass>>,
           stage \in {"chapters", "pages", "links", "rewrite", "done", "aborted"},
           stage \in {"chapters", "pages"} => imported = <<>>,
           stage \in {"rewrite", "done"} => \A k \in DOMAIN imported : LinkedBy(k),
           stage = "done" => \A k \in DOMAIN imported : RewrittenBy(k)
    PROVE  ImportInv'
<1>1. importStage' = stage /\ pos' = 1
  BY DEF Goto
<1>2. ImportTypeOK'
  BY <1>1, SameNotes DEF ImportTypeOK
<1>3. Position' /\ MadeInTime'
  BY <1>1 DEF Position, MadeInTime
<1>4. InTurn'
  BY <1>1 DEF InTurn
<1>5. NotesLinked'
  <2> SUFFICES ASSUME ~Clash, NEW k \in DOMAIN imported, imported[k].whole, LinkedBy(k)'
               PROVE  Linked(k)
    BY SameMeaning, SameNotes DEF NotesLinked
  <2>1. stage # "links"
    <3>1. imported[k].page \in DOMAIN export.pages
      BY NoteTyped
    <3> QED BY <1>1, <3>1, PagesNumbered DEF LinkedBy, ImportInv, ImportTypeOK
  <2>2. LinkedBy(k)
    BY <1>1, <2>1 DEF LinkedBy
  <2> QED BY <2>2 DEF ImportInv, NotesLinked
<1>6. NotesRewritten'
  <2> SUFFICES ASSUME ~Clash, NEW k \in DOMAIN imported, imported[k].whole, RewrittenBy(k)',
                      NEW t \in imported[k].text
               PROVE  Resolved(t)
    BY SameMeaning DEF NotesRewritten, RewrittenBy
  <2>1. stage = "done"
    BY <1>1 DEF RewrittenBy, ImportInv, ImportTypeOK
  <2> QED BY <2>1 DEF ImportInv, NotesRewritten
<1> QED BY <1>2, <1>3, <1>4, <1>5, <1>6, SameNotes DEF ImportInv

LEMMA ImportStarts == ASSUME ImportInit PROVE ImportInv
<1>1. ImportTypeOK
  BY PagesNumbered DEF ImportInit, ImportTypeOK
<1>2. Counted
  <2>1. \A c : DirNotes(c) = {}
    BY DEF ImportInit, DirNotes
  <2> QED BY <2>1, FS_EmptySet DEF ImportInit, Counted
<1> QED BY <1>1, <1>2 DEF ImportInit, ImportInv, Position, MadeInTime, Placed, Remembered,
                  InTurn, TextsSound, NotesLinked, NotesRewritten


LEMMA ImportUploadKeeps == ASSUME ImportInv, UploadFiles PROVE ImportInv'
<1> USE DEF ImportInv
<1>1. imported = <<>> /\ imported' = <<>>
  BY DEF UploadFiles, MadeInTime
<1>2. ImportTypeOK'
  BY <1>1 DEF UploadFiles, ImportTypeOK, Goto, ChapterIds, Ids, PagesOf
<1>3. Position' /\ MadeInTime'
  BY <1>1 DEF UploadFiles, Goto, Position, MadeInTime
<1>4. Counted'
  <2>1. \A c : DirNotes(c)' = DirNotes(c)
    BY DEF UploadFiles, DirNotes
  <2>2. ChapterIds(export)' = ChapterIds(export) /\ UNCHANGED tally
    BY DEF UploadFiles, ChapterIds
  <2> QED BY <2>1, <2>2 DEF Counted
<1>5. Placed' /\ Remembered' /\ InTurn' /\ TextsSound' /\ NotesLinked' /\ NotesRewritten'
  BY <1>1 DEF Placed, Remembered, InTurn, TextsSound, NotesLinked, NotesRewritten, UploadFiles, Goto
<1> QED BY <1>2, <1>3, <1>4, <1>5

LEMMA ChapterKeeps == ASSUME ImportInv, CreateChapterDirectory PROVE ImportInv'
<1> USE DEF ImportInv
<1>1. imported = <<>> /\ imported' = <<>>
  BY DEF CreateChapterDirectory, MadeInTime
<1>2. CASE pos > Len(export.chapters)
  <2>1. Goto("pages")
        /\ UNCHANGED <<export, uploaded, chapterDirs, tally, imported, firstPass>>
    BY <1>2 DEF CreateChapterDirectory
  <2> QED BY <1>1, <2>1, StageStep
<1>3. CASE ~(pos > Len(export.chapters))
  <2>1. /\ chapterDirs' \in {chapterDirs, chapterDirs \cup {export.chapters[pos]}}
        /\ pos' = pos + 1 /\ importStage' = importStage /\ importStage = "chapters"
        /\ UNCHANGED <<export, uploaded, tally, imported, firstPass>>
    BY <1>3 DEF CreateChapterDirectory
  <2>2. export.chapters[pos] \in ChapterIds(export)
    <3>1. export.chapters \in Seq(Nat \ {0})
      BY PagesNumbered DEF ImportTypeOK
    <3> QED BY <1>3, <2>1, <3>1 DEF ChapterIds, Position
  <2>3. ImportTypeOK'
    BY <1>1, <2>1, <2>2 DEF ImportTypeOK, ChapterIds, Ids, PagesOf
  <2>4. Position' /\ MadeInTime'
    BY <1>1, <2>1 DEF Position, MadeInTime
  <2>5. Counted'
    <3>1. \A c : DirNotes(c)' = DirNotes(c)
      BY <2>1 DEF DirNotes
    <3>2. ChapterIds(export)' = ChapterIds(export)
      BY <2>1 DEF ChapterIds
    <3> QED BY <2>1, <3>1, <3>2 DEF Counted
  <2>6. Placed' /\ Remembered' /\ InTurn' /\ TextsSound' /\ NotesLinked' /\ NotesRewritten'
    BY <1>1, <2>1 DEF Placed, Remembered, InTurn, TextsSound, NotesLinked, NotesRewritten
  <2> QED BY <2>3, <2>4, <2>5, <2>6
<1> QED BY <1>2, <1>3

\* The note of a page, put after the others.
LEMMA NoteAdded ==
    ASSUME ImportInv, ImportPage, NEW n \in NoteOf, n.page = pos, n.text = Converted(Page),
           n.dir = (IF Page.chapter \in chapterDirs THEN Page.chapter ELSE BookDir),
           imported' = Append(imported, n),
           firstPass' = [firstPass EXCEPT ![Page.id] = Len(imported) + 1],
           tally' = IF n.dir = BookDir THEN tally ELSE [tally EXCEPT ![n.dir] = @ + 1]
    PROVE  ImportInv'
<1> USE DEF ImportInv
<1>0. PICK new \in Nat \ {0} : new = Len(imported) + 1 /\ Len(imported) \in Nat
  BY NoteTyped
<1>1. /\ importStage = "pages" /\ importStage' = "pages" /\ pos' = pos + 1 /\ pos \in Nat
      /\ pos \in DOMAIN export.pages /\ pos \in 1..Len(export.pages)
      /\ UNCHANGED <<export, uploaded, chapterDirs>> /\ Len(export.pages) \in Nat
      /\ export \in Exports /\ chapterDirs \subseteq ChapterIds(export)
      /\ uploaded \subseteq export.files /\ BookDir \notin ChapterIds(export)
  BY PagesNumbered DEF ImportPage, Position, ImportTypeOK
<1>2. /\ Len(imported) \in Nat /\ DOMAIN imported = 1..Len(imported)
      /\ DOMAIN imported' = 1..new /\ Len(imported') = new
      /\ \A k \in DOMAIN imported : k \in 1..new /\ k # new /\ imported'[k] = imported[k]
      /\ imported'[new] = n
      /\ \A k \in 1..new : k # new => k \in DOMAIN imported
      /\ imported \in Seq(NoteOf) /\ imported' \in Seq(NoteOf)
  BY <1>0 DEF ImportTypeOK
<1>3. ChapterIds(export)' = ChapterIds(export) /\ Ids(export)' = Ids(export)
      /\ NoteOf' = NoteOf /\ Clash' = Clash
  <2>1. Clash' = Clash /\ TextOf' = TextOf
    BY <1>1, SameMeaning
  <2>2. ChapterIds(export)' = ChapterIds(export) /\ Ids(export)' = Ids(export)
    BY <1>1 DEF ChapterIds, Ids, PagesOf
  <2> QED BY <1>1, <2>1, <2>2 DEF NoteOf
<1>4. /\ \A k \in DOMAIN imported : PageAt(k)' = PageAt(k)
      /\ PageAt(new)' = Page
  BY <1>1, <1>2 DEF PageAt, Page
<1>5. \A c : DirNotes(c)' = IF n.dir = c THEN DirNotes(c) \cup {new} ELSE DirNotes(c)
  BY <1>2 DEF DirNotes
<1>6. \A c : IsFiniteSet(DirNotes(c)) /\ Cardinality(DirNotes(c)) <= Len(imported)
             /\ Cardinality(DirNotes(c)) \in Nat /\ new \notin DirNotes(c)
  <2>1. IsFiniteSet(1..Len(imported)) /\ Cardinality(1..Len(imported)) = Len(imported)
    <3>1. PICK m \in Nat : m = Len(imported)
      BY <1>0
    <3>2. IsFiniteSet(1..m) /\ Cardinality(1..m) = m
      BY FS_Interval
    <3> QED BY <3>1, <3>2
  <2>2. \A c : DirNotes(c) \in SUBSET (1..Len(imported))
    BY <1>2 DEF DirNotes
  <2>3. \A c : IsFiniteSet(DirNotes(c)) /\ Cardinality(DirNotes(c)) <= Len(imported)
    BY <2>1, <2>2, FS_Subset
  <2>4. \A c : Cardinality(DirNotes(c)) \in Nat
    BY <2>3, FS_CardinalityType
  <2>5. new \notin 1..Len(imported)
    BY <1>2
  <2> QED BY <2>2, <2>3, <2>4, <2>5
<1>7. n.dir = BookDir \/ n.dir \in ChapterIds(export)
  BY <1>1
<1>8. \A c \in ChapterIds(export) :
         /\ tally[c] \in Nat /\ tally[c] = Cardinality(DirNotes(c))
         /\ tally'[c] = IF n.dir = c THEN tally[c] + 1 ELSE tally[c]
  BY <1>1, <1>6, <1>7 DEF ImportTypeOK, Counted
<1>9. Counted'
  <2> SUFFICES ASSUME NEW c \in ChapterIds(export)
               PROVE  tally'[c] = Cardinality(DirNotes(c)')
    BY <1>3 DEF Counted
  <2>1. CASE n.dir = c
    <3>1. Cardinality(DirNotes(c) \cup {new}) = Cardinality(DirNotes(c)) + 1
      BY <1>6, FS_AddElement
    <3> QED BY <1>5, <1>8, <2>1, <3>1
  <2>2. CASE n.dir # c
    BY <1>5, <1>8, <2>2
  <2> QED BY <2>1, <2>2
<1>10. ImportTypeOK'
  <2>1. (tally \in [ChapterIds(export) -> 0..Len(export.pages)])'
    <3>1. \A c \in ChapterIds(export) : tally[c] <= Len(imported) /\ Len(imported) < pos
      BY <1>1, <1>6, <1>8 DEF InTurn
    <3>2. \A c \in ChapterIds(export) : tally'[c] \in 0..Len(export.pages)
      <4> SUFFICES ASSUME NEW c \in ChapterIds(export)
                   PROVE  tally'[c] \in 0..Len(export.pages)
        OBVIOUS
      <4> QED BY <1>1, <1>2, <1>8, <3>1
    <3>3. tally' = [c \in ChapterIds(export) |-> tally'[c]]
      BY DEF ImportTypeOK
    <3> QED BY <1>1, <1>3, <3>2, <3>3
  <2>2. (firstPass \in [Ids(export) -> 0..Len(imported)])'
    <3>1. firstPass \in [Ids(export) -> 0..new]
      BY <1>0 DEF ImportTypeOK
    <3>2. firstPass' = [firstPass EXCEPT ![Page.id] = new]
      BY <1>0
    <3>3. firstPass' \in [Ids(export) -> 0..new]
      <4>1. new \in 0..new
        OBVIOUS
      <4> QED BY <3>1, <3>2, <4>1
    <3> QED BY <1>2, <1>3, <3>3
  <2> QED BY <1>1, <1>2, <1>3, <2>1, <2>2 DEF ImportTypeOK
<1>11. Position' /\ MadeInTime'
  BY <1>1 DEF Position, MadeInTime
<1>12. Placed'
  <2> SUFFICES ASSUME NEW k \in 1..new
               PROVE  imported'[k].dir = IF PageAt(k)'.chapter \in chapterDirs
                                         THEN PageAt(k)'.chapter ELSE BookDir
    BY <1>1, <1>2 DEF Placed
  <2>1. CASE k = new
    BY <1>2, <1>4, <2>1
  <2>2. CASE k # new
    BY <1>2, <1>4, <2>2 DEF Placed
  <2> QED BY <2>1, <2>2
<1>13. Remembered'
  <2> SUFFICES ASSUME ~Clash, NEW k \in 1..new
               PROVE  firstPass'[PageAt(k)'.id] = k
    BY <1>2, <1>3 DEF Remembered
  <2>1. Page.id \in Ids(export) /\ Page = export.pages[pos]
    BY <1>1 DEF Page, Ids, PagesOf
  <2>2. DOMAIN firstPass = Ids(export)
    BY DEF ImportTypeOK
  <2>3. CASE k = new
    BY <1>0, <1>4, <2>1, <2>2, <2>3
  <2>4. CASE k # new
    <3>1. k \in DOMAIN imported /\ PageAt(k)' = PageAt(k)
      BY <1>2, <1>4, <2>4
    <3>2. imported[k].page \in DOMAIN export.pages /\ imported[k].page # pos
      BY <1>1, <3>1, NoteTyped, PagesNumbered DEF InTurn
    <3>3. PageAt(k).id # Page.id
      BY <1>1, <2>1, <3>2, IdsDiffer DEF PageAt
    <3> QED BY <2>2, <3>1, <3>3 DEF Remembered
  <2> QED BY <2>3, <2>4
<1>14. InTurn'
  <2> SUFFICES ASSUME NEW k \in 1..new
               PROVE  imported'[k].page < pos + 1
    BY <1>1, <1>2 DEF InTurn
  <2>1. CASE k = new
    BY <1>1, <1>2, <2>1
  <2>2. CASE k # new
    <3>1. k \in DOMAIN imported /\ imported'[k] = imported[k] /\ imported[k].page < pos
      BY <1>1, <1>2, <2>2 DEF InTurn
    <3>2. imported[k].page \in Nat
      BY <3>1, NoteTyped, PagesNumbered, <1>1
    <3> QED BY <1>1, <3>1, <3>2
  <2> QED BY <2>1, <2>2
<1>15. TextsSound'
  <2> SUFFICES ASSUME ~Clash, NEW k \in 1..new, NEW t \in imported'[k].text
               PROVE  Sound(t)
    BY <1>1, <1>2, <1>3, SameMeaning DEF TextsSound
  <2>1. CASE k = new
    <3>1. t \in Converted(Page) /\ Page \in PagesOf(export)
      BY <1>1, <1>2, <2>1 DEF Page, PagesOf
    <3> QED BY <1>1, <3>1, ConvertedSound
  <2>2. CASE k # new
    BY <1>2, <2>2 DEF TextsSound
  <2> QED BY <2>1, <2>2
<1>16. NotesLinked' /\ NotesRewritten'
  BY <1>1 DEF NotesLinked, NotesRewritten, LinkedBy, RewrittenBy
<1> QED BY <1>9, <1>10, <1>11, <1>12, <1>13, <1>14, <1>15, <1>16

LEMMA PageKeeps == ASSUME ImportInv, ImportPage PROVE ImportInv'
<1> USE DEF ImportInv
<1> DEFINE n == [page |-> pos, text |-> Converted(Page), links |-> {}, whole |-> TRUE,
                 dir |-> IF Page.chapter \in chapterDirs \ {0} THEN Page.chapter ELSE BookDir]
<1>1. CASE UNCHANGED <<imported, firstPass, tally>>
  <2>1. /\ importStage = "pages" /\ importStage' = "pages" /\ pos' = pos + 1 /\ pos \in Nat
        /\ UNCHANGED <<export, uploaded, chapterDirs, tally, imported, firstPass>>
    BY <1>1 DEF ImportPage, Position
  <2>2. ImportTypeOK'
    BY <2>1, SameNotes DEF ImportTypeOK
  <2>3. Position' /\ MadeInTime'
    BY <2>1 DEF Position, MadeInTime
  <2>4. InTurn'
    <3>1. Len(imported) \in Nat /\ \A k \in DOMAIN imported : imported[k].page \in Nat
      BY NoteTyped, PagesNumbered DEF ImportTypeOK
    <3> QED BY <2>1, <3>1 DEF InTurn
  <2>5. NotesLinked' /\ NotesRewritten'
    BY <2>1 DEF NotesLinked, NotesRewritten, LinkedBy, RewrittenBy
  <2> QED BY <2>1, <2>2, <2>3, <2>4, <2>5, SameNotes
<1>2. CASE /\ imported' = Append(imported, n)
           /\ firstPass' = [firstPass EXCEPT ![Page.id] = Len(imported) + 1]
           /\ tally' = IF n.dir = BookDir THEN tally ELSE [tally EXCEPT ![n.dir] = @ + 1]
  <2>1. 0 \notin ChapterIds(export)
    BY PagesNumbered DEF ChapterIds, ImportTypeOK
  <2>2. n.dir = IF Page.chapter \in chapterDirs THEN Page.chapter ELSE BookDir
    BY <2>1 DEF ImportTypeOK
  <2>3. Page \in PagesOf(export) /\ pos \in DOMAIN export.pages
    BY DEF ImportPage, Page, PagesOf
  <2>4. n \in NoteOf
    BY <2>2, <2>3, ConvertedTyped DEF NoteOf, ImportTypeOK
  <2> HIDE DEF n
  <2>5. n.page = pos /\ n.text = Converted(Page)
    BY DEF n
  <2> QED BY <1>2, <2>2, <2>4, <2>5, NoteAdded
<1> QED BY <1>1, <1>2 DEF ImportPage

\* A note with one or two of its fields replaced, and no other.
Noted(p, d, t, l, w) == [page |-> p, dir |-> d, text |-> t, links |-> l, whole |-> w]

LEMMA NotedIs ==
    ASSUME NEW q \in NoteOf
    PROVE  q = Noted(q.page, q.dir, q.text, q.links, q.whole)
BY DEF NoteOf, Noted

LEMMA LinksWholeSet ==
    ASSUME NEW q \in NoteOf, NEW x, NEW y
    PROVE  [q EXCEPT !.links = x, !.whole = y] = Noted(q.page, q.dir, q.text, x, y)
<1>1. PICK p, d, t, l, w :
          q = [page |-> p, dir |-> d, text |-> t, links |-> l, whole |-> w]
  BY NotedIs DEF Noted
<1>2. PICK r : r = [page |-> p, dir |-> d, text |-> t, links |-> x, whole |-> w]
  OBVIOUS
<1>3. [q EXCEPT !.links = x] = r
  BY <1>1, <1>2
<1>4. [r EXCEPT !.whole = y] = [page |-> p, dir |-> d, text |-> t, links |-> x, whole |-> y]
  BY <1>2
<1>5. Noted(q.page, q.dir, q.text, x, y)
         = [page |-> p, dir |-> d, text |-> t, links |-> x, whole |-> y]
  BY <1>1 DEF Noted
<1> QED BY <1>3, <1>4, <1>5, Zenon

LEMMA TextSet ==
    ASSUME NEW q \in NoteOf, NEW x
    PROVE  [q EXCEPT !.text = x] = Noted(q.page, q.dir, x, q.links, q.whole)
<1>1. PICK p, d, t, l, w :
          q = [page |-> p, dir |-> d, text |-> t, links |-> l, whole |-> w]
  BY NotedIs DEF Noted
<1>2. [q EXCEPT !.text = x] = [page |-> p, dir |-> d, text |-> x, links |-> l, whole |-> w]
  BY <1>1
<1>3. Noted(q.page, q.dir, x, q.links, q.whole)
         = [page |-> p, dir |-> d, text |-> x, links |-> l, whole |-> w]
  BY <1>1 DEF Noted
<1> QED BY <1>2, <1>3, Zenon

LEMMA TextWholeSet ==
    ASSUME NEW q \in NoteOf, NEW x, NEW y
    PROVE  [q EXCEPT !.text = x, !.whole = y] = Noted(q.page, q.dir, x, q.links, y)
<1>1. PICK p, d, t, l, w :
          q = [page |-> p, dir |-> d, text |-> t, links |-> l, whole |-> w]
  BY NotedIs DEF Noted
<1>2. PICK r : r = [page |-> p, dir |-> d, text |-> x, links |-> l, whole |-> w]
  OBVIOUS
<1>3. [q EXCEPT !.text = x] = r
  BY <1>1, <1>2
<1>4. [r EXCEPT !.whole = y] = [page |-> p, dir |-> d, text |-> x, links |-> l, whole |-> y]
  BY <1>2
<1>5. Noted(q.page, q.dir, x, q.links, y)
         = [page |-> p, dir |-> d, text |-> x, links |-> l, whole |-> y]
  BY <1>1 DEF Noted
<1> QED BY <1>3, <1>4, <1>5, Zenon

\* One note gets another text or other links, and stays where it is.
LEMMA NoteChanged ==
    ASSUME ImportInv, NEW k \in DOMAIN imported, NEW m \in NoteOf,
           m.page = imported[k].page, m.dir = imported[k].dir,
           imported' = [imported EXCEPT ![k] = m],
           UNCHANGED <<export, uploaded, chapterDirs, tally, firstPass>>,
           importStage' = importStage, importStage \in {"links", "rewrite"},
           pos' = pos + 1, ~Clash => \A t \in m.text : Sound(t)
    PROVE  /\ ImportTypeOK' /\ Position' /\ MadeInTime' /\ Placed' /\ Counted' /\ Remembered'
           /\ InTurn' /\ TextsSound'
           /\ DOMAIN imported' = DOMAIN imported
           /\ \A j \in DOMAIN imported : imported'[j] = IF j = k THEN m ELSE imported[j]
<1> USE DEF ImportInv
<1>1. /\ DOMAIN imported' = DOMAIN imported /\ Len(imported') = Len(imported)
      /\ \A j \in DOMAIN imported : imported'[j] = IF j = k THEN m ELSE imported[j]
      /\ imported' \in Seq(NoteOf)
  BY DEF ImportTypeOK
<1>2. ChapterIds(export)' = ChapterIds(export) /\ Ids(export)' = Ids(export)
      /\ NoteOf' = NoteOf /\ Clash' = Clash
  BY SameMeaning DEF ChapterIds, Ids, PagesOf, NoteOf
<1>3. \A j \in DOMAIN imported : imported'[j].dir = imported[j].dir
                                 /\ imported'[j].page = imported[j].page
                                 /\ PageAt(j)' = PageAt(j)
  BY <1>1 DEF PageAt
<1>4. \A c : DirNotes(c)' = DirNotes(c)
  BY <1>1, <1>3 DEF DirNotes
<1>5. ImportTypeOK'
  BY <1>1, <1>2 DEF ImportTypeOK
<1>6. Position' /\ MadeInTime' /\ InTurn'
  BY DEF Position, MadeInTime, InTurn
<1>7. Placed' /\ Remembered'
  BY <1>1, <1>2, <1>3 DEF Placed, Remembered
<1>8. Counted'
  BY <1>2, <1>4 DEF Counted
<1>9. TextsSound'
  BY <1>1, <1>2, SameMeaning DEF TextsSound
<1> QED BY <1>1, <1>5, <1>6, <1>7, <1>8, <1>9

\* A pass goes by a page or a note and changes none.
LEMMA PassedBy ==
    ASSUME ImportInv, UNCHANGED <<export, uploaded, chapterDirs, tally, firstPass, imported>>,
           importStage' = importStage, importStage \in {"links", "rewrite"}, pos' = pos + 1
    PROVE  /\ ImportTypeOK' /\ Position' /\ MadeInTime' /\ Placed' /\ Counted' /\ Remembered'
           /\ InTurn' /\ TextsSound' /\ \A j : Linked(j)' = Linked(j)
<1>1. ImportTypeOK'
  BY SameNotes DEF ImportTypeOK, ImportInv
<1>2. Position' /\ MadeInTime' /\ InTurn'
  BY DEF ImportInv, Position, MadeInTime, InTurn
<1> QED BY <1>1, <1>2, SameNotes

LEMMA LinkKeeps == ASSUME ImportInv, LinkPage PROVE ImportInv'
<1> USE DEF ImportInv
<1>1. PICK k : k = firstPass[Page.id]
  OBVIOUS
<1>2. /\ importStage = "links" /\ importStage' = "links" /\ pos' = pos + 1 /\ pos \in Nat
      /\ pos \in DOMAIN export.pages /\ UNCHANGED <<export, uploaded, chapterDirs, tally, firstPass>>
      /\ k = 0 => UNCHANGED imported
      /\ export \in Exports /\ uploaded \subseteq export.files
  BY <1>1 DEF LinkPage, Position, ImportTypeOK
<1>3. k = 0 \/ k \in DOMAIN imported
  <2>1. Page.id \in Ids(export)
    BY <1>2 DEF Page, Ids, PagesOf
  <2>2. k \in 0..Len(imported)
    BY <1>1, <2>1 DEF ImportTypeOK
  <2> QED BY <2>2, NoteTyped
<1>4. NotesRewritten'
  BY <1>2 DEF NotesRewritten, RewrittenBy
\* A note that the step does not link and that was not linked is of a later page.
<1>5. ASSUME ~Clash, NEW j \in DOMAIN imported, imported[j].page < pos + 1, j # k
      PROVE  imported[j].page < pos
  <2>1. imported[j].page \in DOMAIN export.pages /\ imported[j].page \in Nat
    BY NoteTyped, PagesNumbered, <1>2
  <2>2. CASE imported[j].page = pos
    <3>1. firstPass[Page.id] = j
      BY <1>5, <2>2 DEF Remembered, PageAt, Page
    <3> QED BY <1>1, <1>5, <3>1
  <2> QED BY <1>2, <1>5, <2>1, <2>2
<1>6. CASE k = 0
  <2>1. UNCHANGED <<export, uploaded, chapterDirs, tally, firstPass, imported>>
    BY <1>2, <1>6
  <2>2. NotesLinked'
    <3> SUFFICES ASSUME ~Clash, NEW j \in DOMAIN imported, imported[j].whole, LinkedBy(j)'
                 PROVE  Linked(j)
      BY <1>2, <2>1, SameMeaning, PassedBy DEF NotesLinked
    <3>1. imported[j].page < pos + 1
      BY <1>2, <2>1 DEF LinkedBy
    <3>2. j # k
      BY <1>6, NoteTyped
    <3> QED BY <1>2, <1>5, <3>1, <3>2 DEF NotesLinked, LinkedBy
  <2> QED BY <1>2, <1>4, <2>1, <2>2, PassedBy
<1>7. CASE k # 0
  <2>1. PICK q \in NoteOf : q = imported[k] /\ k \in DOMAIN imported
    BY <1>3, <1>7, NoteTyped
  <2>2. PICK done \in SUBSET Referenced(Page, q.text) :
          imported' = [imported EXCEPT ![k].links = @ \cup done,
                                       ![k].whole = @ /\ done = Referenced(Page, q.text)]
    BY <1>1, <1>7, <2>1 DEF LinkPage
  <2>3. PICK m \in NoteOf :
          /\ m.page = q.page /\ m.dir = q.dir /\ m.text = q.text
          /\ m.links = q.links \cup done
          /\ m.whole = (q.whole /\ done = Referenced(Page, q.text))
          /\ imported' = [imported EXCEPT ![k] = m]
    <3>1. q.text \in SUBSET TextOf /\ q.links \in SUBSET uploaded
      BY DEF NoteOf
    <3>2. done \in SUBSET uploaded
      BY <1>2, <3>1, ReferencedUploaded
    <3> DEFINE m == Noted(q.page, q.dir, q.text, q.links \cup done,
                          q.whole /\ done = Referenced(Page, q.text))
    <3>3. m \in NoteOf
      BY <3>1, <3>2 DEF NoteOf, Noted
    <3>4. [q EXCEPT !.links = @ \cup done, !.whole = @ /\ done = Referenced(Page, q.text)] = m
      BY LinksWholeSet, Zenon
    <3>5. imported' = [imported EXCEPT ![k] = m]
      BY <2>1, <2>2, <3>4 DEF ImportTypeOK
    <3> QED BY <3>3, <3>5 DEF Noted
  <2>4. ~Clash => \A t \in m.text : Sound(t)
    BY <2>1, <2>3 DEF TextsSound
  <2>5. /\ ImportTypeOK' /\ Position' /\ MadeInTime' /\ Placed' /\ Counted' /\ Remembered'
        /\ InTurn' /\ TextsSound'
        /\ DOMAIN imported' = DOMAIN imported
        /\ \A j \in DOMAIN imported : imported'[j] = IF j = k THEN m ELSE imported[j]
    BY <1>2, <2>1, <2>3, <2>4, NoteChanged
  <2>6. NotesLinked'
    <3> SUFFICES ASSUME ~Clash, NEW j \in DOMAIN imported, imported'[j].whole, LinkedBy(j)',
                        NEW t \in imported'[j].text, t.ref.how # "page"
                 PROVE  Shown(t.ref) \subseteq imported'[j].links
      BY <1>2, <2>5, SameMeaning DEF NotesLinked, Linked
    <3>1. CASE j = k
      <4>1. imported'[j] = m /\ t \in q.text /\ q.text \in SUBSET TextOf
        BY <2>3, <2>5, <3>1 DEF NoteOf
      <4>2. Shown(t.ref) \subseteq Referenced(Page, q.text)
        BY <1>2, <2>3, <2>4, <4>1, ReferencedCovers
      <4>3. done = Referenced(Page, q.text)
        BY <2>3, <4>1
      <4> QED BY <2>3, <4>1, <4>2, <4>3
    <3>2. CASE j # k
      <4>1. imported'[j] = imported[j]
        BY <2>5, <3>2
      <4>2. imported[j].page < pos + 1
        BY <1>2, <4>1 DEF LinkedBy
      <4>3. LinkedBy(j) /\ imported[j].whole
        BY <1>2, <1>5, <3>2, <4>1, <4>2 DEF LinkedBy
      <4> QED BY <4>1, <4>3 DEF NotesLinked, Linked
    <3> QED BY <3>1, <3>2
  <2> QED BY <1>4, <2>5, <2>6
<1> QED BY <1>6, <1>7

LEMMA RewriteKeeps == ASSUME ImportInv, RewritePage PROVE ImportInv'
<1> USE DEF ImportInv
<1>1. /\ importStage = "rewrite" /\ importStage' = "rewrite" /\ pos' = pos + 1 /\ pos \in Nat
      /\ pos \in DOMAIN imported /\ UNCHANGED <<export, uploaded, chapterDirs, tally, firstPass>>
      /\ export \in Exports /\ uploaded \subseteq export.files
  BY DEF RewritePage, Position, ImportTypeOK
<1>2. PICK q \in NoteOf : q = imported[pos] /\ q.text \in SUBSET TextOf
  BY <1>1, NoteTyped DEF NoteOf
<1>3. PICK new \in SUBSET TextOf : new = Rewritten(q.text)
  BY <1>1, <1>2, RewrittenTyped
<1>4. ~Clash => \A t \in q.text : Sound(t)
  BY <1>1, <1>2 DEF TextsSound
<1>5. ~Clash => \A t \in new : Sound(t) /\ Resolved(t) /\ \E u \in q.text : u.ref = t.ref
  BY <1>1, <1>2, <1>3, <1>4, RewrittenSettled
<1>6. ~Clash => \E id \in Ids(export) : firstPass[id] = pos
  <2>1. PageAt(pos).id \in Ids(export)
    BY <1>1, NoteTyped DEF Ids
  <2> QED BY <1>1, <2>1 DEF Remembered
<1>7. CASE new = q.text \/ \A id \in Ids(export) : firstPass[id] # pos
  <2>1. UNCHANGED <<export, uploaded, chapterDirs, tally, firstPass, imported>>
    BY <1>1, <1>2, <1>3, <1>7 DEF RewritePage
  <2>2. NotesLinked'
    <3> SUFFICES ASSUME ~Clash, NEW j \in DOMAIN imported, imported[j].whole
                 PROVE  Linked(j)
      BY <1>1, <2>1, SameMeaning, PassedBy DEF NotesLinked
    <3> QED BY <1>1 DEF NotesLinked, LinkedBy
  <2>3. NotesRewritten'
    <3> SUFFICES ASSUME ~Clash, NEW j \in DOMAIN imported, imported[j].whole, j < pos + 1,
                        NEW t \in imported[j].text
                 PROVE  Resolved(t)
      BY <1>1, <2>1, SameMeaning DEF NotesRewritten, RewrittenBy
    <3>1. CASE j = pos
      <4>1. Rewritten(q.text) = q.text
        BY <1>3, <1>6, <1>7
      <4> QED BY <1>1, <1>2, <1>4, <3>1, <4>1, SettledAlready
    <3>2. CASE j # pos
      <4>1. j \in Nat
        BY NoteTyped
      <4> QED BY <1>1, <3>2, <4>1 DEF NotesRewritten, RewrittenBy
    <3> QED BY <3>1, <3>2
  <2> QED BY <1>1, <2>1, <2>2, <2>3, PassedBy
<1>8. CASE ~(new = q.text \/ \A id \in Ids(export) : firstPass[id] # pos)
  <2>1. PICK m \in NoteOf :
          /\ m.page = q.page /\ m.dir = q.dir /\ m.links = q.links /\ m.text \in {q.text, new}
          /\ m.whole => q.whole /\ m.text = new
          /\ imported' = [imported EXCEPT ![pos] = m]
    <3>1. \/ imported' = [imported EXCEPT ![pos].text = new]
          \/ \E passage \in {q.text, new} :
                imported' = [imported EXCEPT ![pos].text = passage, ![pos].whole = FALSE]
      BY <1>2, <1>3, <1>8 DEF RewritePage
    <3>2. CASE imported' = [imported EXCEPT ![pos].text = new]
      <4> DEFINE m == Noted(q.page, q.dir, new, q.links, q.whole)
      <4>1. m \in NoteOf
        BY DEF NoteOf, Noted
      <4>2. [q EXCEPT !.text = new] = m
        BY TextSet, Zenon
      <4>3. imported' = [imported EXCEPT ![pos] = m]
        BY <1>1, <1>2, <3>2, <4>2 DEF ImportTypeOK
      <4> QED BY <4>1, <4>3 DEF Noted
    <3>3. ASSUME NEW passage \in {q.text, new},
                 imported' = [imported EXCEPT ![pos].text = passage, ![pos].whole = FALSE]
          PROVE  \E m \in NoteOf :
                    /\ m.page = q.page /\ m.dir = q.dir /\ m.links = q.links
                    /\ m.text \in {q.text, new} /\ m.whole => q.whole /\ m.text = new
                    /\ imported' = [imported EXCEPT ![pos] = m]
      <4> DEFINE m == Noted(q.page, q.dir, passage, q.links, FALSE)
      <4>1. m \in NoteOf
        BY <1>2 DEF NoteOf, Noted
      <4>2. [q EXCEPT !.text = passage, !.whole = FALSE] = m
        BY TextWholeSet, Zenon
      <4>3. imported' = [imported EXCEPT ![pos] = m]
        BY <1>1, <1>2, <3>3, <4>2 DEF ImportTypeOK
      <4> QED BY <4>1, <4>3 DEF Noted
    <3> QED BY <3>1, <3>2, <3>3
  <2>2. ~Clash => \A t \in m.text : Sound(t)
    BY <1>4, <1>5, <2>1
  <2>3. /\ ImportTypeOK' /\ Position' /\ MadeInTime' /\ Placed' /\ Counted' /\ Remembered'
        /\ InTurn' /\ TextsSound'
        /\ DOMAIN imported' = DOMAIN imported
        /\ \A j \in DOMAIN imported : imported'[j] = IF j = pos THEN m ELSE imported[j]
    BY <1>1, <1>2, <2>1, <2>2, NoteChanged
  <2>4. NotesLinked'
    <3> SUFFICES ASSUME ~Clash, NEW j \in DOMAIN imported, imported'[j].whole,
                        NEW t \in imported'[j].text, t.ref.how # "page"
                 PROVE  Shown(t.ref) \subseteq imported'[j].links
      BY <1>1, <2>3, SameMeaning DEF NotesLinked, Linked
    <3>1. CASE j = pos
      <4>1. t \in new /\ q.whole /\ imported'[j].links = q.links
        BY <2>1, <2>3, <3>1
      <4>2. PICK u \in q.text : u.ref = t.ref
        BY <1>5, <4>1
      <4>3. Linked(pos)
        BY <1>1, <1>2, <4>1 DEF NotesLinked, LinkedBy
      <4> QED BY <1>2, <4>1, <4>2, <4>3 DEF Linked
    <3>2. CASE j # pos
      <4>1. imported'[j] = imported[j]
        BY <2>3, <3>2
      <4> QED BY <1>1, <4>1 DEF NotesLinked, LinkedBy, Linked
    <3> QED BY <3>1, <3>2
  <2>5. NotesRewritten'
    <3> SUFFICES ASSUME ~Clash, NEW j \in DOMAIN imported, imported'[j].whole, j < pos + 1,
                        NEW t \in imported'[j].text
                 PROVE  Resolved(t)
      BY <1>1, <2>3, SameMeaning DEF NotesRewritten, RewrittenBy
    <3>1. CASE j = pos
      BY <1>5, <2>1, <2>3, <3>1
    <3>2. CASE j # pos
      <4>1. j \in Nat /\ imported'[j] = imported[j]
        BY <2>3, <3>2, NoteTyped
      <4> QED BY <1>1, <3>2, <4>1 DEF NotesRewritten, RewrittenBy
    <3> QED BY <3>1, <3>2
  <2> QED BY <2>3, <2>4, <2>5
<1> QED BY <1>7, <1>8

LEMMA ImportKeeps == ASSUME ImportInv, [ImportNext]_importVars PROVE ImportInv'
<1>1. CASE UploadFiles
  BY <1>1, ImportUploadKeeps
<1>2. CASE CreateBookDirectory
  BY <1>2, StageStep DEF CreateBookDirectory, ImportInv, MadeInTime
<1>3. CASE CreateChapterDirectory
  BY <1>3, ChapterKeeps
<1>4. CASE ImportPage
  BY <1>4, PageKeeps
<1>5. CASE PagesDone
  BY <1>5, StageStep DEF PagesDone
<1>6. CASE LinkPage
  BY <1>6, LinkKeeps
\* All pages have been linked.
<1>7. CASE LinksDone
  <2>1. \A k \in DOMAIN imported : LinkedBy(k)
    <3> SUFFICES ASSUME NEW k \in DOMAIN imported PROVE imported[k].page < pos
      BY <1>7 DEF LinksDone, LinkedBy
    <3>1. imported[k].page \in 1..Len(export.pages) /\ Len(export.pages) \in Nat
          /\ pos \in Nat /\ pos >= 1 /\ pos \notin 1..Len(export.pages)
      BY <1>7, NoteTyped, PagesNumbered DEF LinksDone, ImportInv, ImportTypeOK, Position
    <3> QED BY <3>1
  <2> QED BY <1>7, <2>1, StageStep DEF LinksDone
<1>8. CASE RewritePage
  BY <1>8, RewriteKeeps
\* All notes have been rewritten.
<1>9. CASE ImportEnds
  <2>1. \A k \in DOMAIN imported : RewrittenBy(k) /\ LinkedBy(k)
    <3> SUFFICES ASSUME NEW k \in DOMAIN imported PROVE k < pos
      BY <1>9 DEF ImportEnds, LinkedBy, RewrittenBy
    <3>1. k \in 1..Len(imported) /\ Len(imported) \in Nat
          /\ pos \in Nat /\ pos >= 1 /\ pos \notin 1..Len(imported)
      BY <1>9, NoteTyped DEF ImportEnds, ImportInv, Position
    <3> QED BY <3>1
  <2> QED BY <1>9, <2>1, StageStep DEF ImportEnds
<1>10. CASE ImportDies
  BY <1>10, StageStep DEF ImportDies
<1>11. CASE UNCHANGED importVars
  <2>1. UNCHANGED <<export, uploaded, chapterDirs, tally, imported, firstPass, importStage, pos>>
    BY <1>11 DEF importVars
  <2>2. ImportTypeOK'
    BY <2>1, SameNotes DEF ImportTypeOK, ImportInv
  <2>3. Position' /\ MadeInTime' /\ InTurn'
    BY <2>1 DEF ImportInv, Position, MadeInTime, InTurn
  <2>4. NotesLinked' /\ NotesRewritten'
    BY <2>1, SameMeaning, SameNotes
       DEF ImportInv, NotesLinked, NotesRewritten, LinkedBy, RewrittenBy
  <2> QED BY <2>1, <2>2, <2>3, <2>4, SameNotes DEF ImportInv
<1> QED BY <1>1, <1>2, <1>3, <1>4, <1>5, <1>6, <1>7, <1>8, <1>9, <1>10, <1>11 DEF ImportNext

-----------------------------------------------------------------------------
(* The results.                                                              *)

THEOREM ImportInvariant == ImportSpec => []ImportInv
<1>1. ImportInit => ImportInv
  BY ImportStarts
<1>2. ImportInv /\ [ImportNext]_importVars => ImportInv'
  BY ImportKeeps
<1> QED BY <1>1, <1>2, PTL DEF ImportSpec

(* The types of the import: no text and no link ever names a file that was    *)
(* not uploaded, whatever the conversion and the rewriting did.              *)
THEOREM ImportTypeCorrect == ImportSpec => []ImportTypeOK
<1>1. ImportInv => ImportTypeOK
  BY DEF ImportInv
<1> QED BY <1>1, ImportInvariant, PTL

(* The result of an import tells what was done (bookstack.py, migrate): for  *)
(* every export, the chapters count the notes in their directories, and a    *)
(* note that no call failed for shows and is linked to each uploaded file it *)
(* means.                                                                    *)
THEOREM ImportTellsTheTruth == ImportSpec => []ImportComplete
<1>1. ImportInv => ImportComplete
  <2> SUFFICES ASSUME ImportInv, importStage = "done" PROVE ImportComplete
    BY DEF ImportComplete
  <2>1. \A k \in DOMAIN imported :
           LET p == export.pages[imported[k].page]
           IN imported[k].dir = IF p.chapter \in chapterDirs THEN p.chapter ELSE BookDir
    BY DEF ImportInv, Placed, PageAt
  <2>2. \A c \in chapterDirs :
           tally[c] = Cardinality({k \in DOMAIN imported : imported[k].dir = c})
    BY DEF ImportInv, Counted, DirNotes, ImportTypeOK
  <2>3. ASSUME NEW k \in DOMAIN imported, imported[k].whole, ~Clash,
               NEW t \in imported[k].text, t.ref.how # "page"
        PROVE  LET shown == Meant(t.ref) \cap uploaded
               IN shown \subseteq imported[k].links /\ {t.key} \ {Literal} = shown
    <3>1. Linked(k) /\ Resolved(t)
      BY <2>3 DEF ImportInv, NotesLinked, NotesRewritten, LinkedBy, RewrittenBy
    <3> QED BY <2>3, <3>1 DEF Linked, Resolved, Shown
  <2> QED BY <2>1, <2>2, <2>3 DEF ImportComplete
<1> QED BY <1>1, ImportInvariant, PTL
===============================================================================
