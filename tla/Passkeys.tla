------------------------------- MODULE Passkeys -------------------------------
(***************************************************************************)
(* The passkeys of a user (UserPasskeyAuthServiceImpl over                 *)
(* UserAuthPostgresRepo): registered with a count of zero, counted up after *)
(* each assertion, revoked.  The service reads the row, checks who asks,   *)
(* and hands the new value to the repository, which reads the row once     *)
(* more and writes it; requests overlap at every await.                    *)
(***************************************************************************)
EXTENDS Naturals, FiniteSets

CONSTANTS
    Keys,           \* passkeys
    Holders,        \* users
    HolderOf,       \* [Keys -> Holders]: auth.passkey.user_id
    Asks,           \* requests
    MaxAsks         \* bound: requests begun

ASSUME MaxAsksNat == MaxAsks \in Nat

VARIABLES
    passkey,        \* rows: there, count (sign_count), revoked
    ask,            \* requests: op, key and the count they have read
    asked,
    bumps,          \* ghost: counter writes of each key
    overlapped,        \* ghost: keys two of whose counter requests overlapped
    answered        \* ghost: keys whose revocation was answered

keyVars == <<passkey, ask, asked, bumps, overlapped, answered>>

NoAsk == [op |-> "none"]
Ask(op, k) == [op |-> op, key |-> k, read |-> passkey[k].count]
Of(c, op) == ask[c].op = op
Close(c) == ask' = [ask EXCEPT ![c] = NoAsk]

KeysInit ==
    /\ passkey = [k \in Keys |-> [there |-> FALSE, count |-> 0, revoked |-> FALSE]]
    /\ ask = [c \in Asks |-> NoAsk] /\ asked = 0
    /\ bumps = [k \in Keys |-> 0] /\ overlapped = {} /\ answered = {}

\* For oneself alone; the row is the whole of it.
RegisterPasskey(who, k) ==
    /\ who = HolderOf[k] /\ ~passkey[k].there
    /\ passkey' = [passkey EXCEPT ![k].there = TRUE]
    /\ UNCHANGED <<ask, asked, bumps, overlapped, answered>>

\* Both services' checks: the row is there, and it is the requester's.
BeginAsk(c, op, who, k) ==
    /\ Of(c, "none") /\ asked < MaxAsks
    /\ asked' = asked + 1
    /\ passkey[k].there /\ who = HolderOf[k]
    /\ ask' = [ask EXCEPT ![c] = Ask(op, k)]

\* A revoked passkey is counted too: nothing looks at revoked_at here.
BeginCount(c, who, k) ==
    /\ BeginAsk(c, "count", who, k)
    /\ overlapped' = overlapped \cup {l \in {k} : \E d \in Asks : Of(d, "count") /\ ask[d].key = l}
    /\ UNCHANGED <<passkey, bumps, answered>>

\* Seeded fault: the row is written as it was read, not the two columns alone.
WriteWholeRow(c) ==
    /\ Of(c, "count")
    /\ LET k == ask[c].key
       IN /\ passkey' = [passkey EXCEPT ![k].count = ask[c].read + 1, ![k].revoked = FALSE]
          /\ bumps' = [bumps EXCEPT ![k] = @ + 1]
    /\ Close(c)
    /\ UNCHANGED <<asked, overlapped, answered>>

\* update_passkey_sign_count: the value the service computed from its own read.
WriteCount(c) ==
    /\ Of(c, "count")
    /\ LET k == ask[c].key
       IN /\ passkey' = [passkey EXCEPT ![k].count = ask[c].read + 1]
          /\ bumps' = [bumps EXCEPT ![k] = @ + 1]
    /\ Close(c)
    /\ UNCHANGED <<asked, overlapped, answered>>

BeginRevoke(c, who, k) ==
    /\ BeginAsk(c, "revoke", who, k)
    /\ UNCHANGED <<passkey, bumps, overlapped, answered>>

\* The repository's own read: revoked already, it answers with the row.
CheckRevoked(c) ==
    /\ Of(c, "revoke")
    /\ IF passkey[ask[c].key].revoked
       THEN Close(c) /\ answered' = answered \cup {ask[c].key}
       ELSE ask' = [ask EXCEPT ![c].op = "stamp"] /\ UNCHANGED answered
    /\ UNCHANGED <<passkey, asked, bumps, overlapped>>

StampRevoked(c) ==
    /\ Of(c, "stamp")
    /\ passkey' = [passkey EXCEPT ![ask[c].key].revoked = TRUE]
    /\ answered' = answered \cup {ask[c].key}
    /\ Close(c)
    /\ UNCHANGED <<asked, bumps, overlapped>>

\* A database error, a client that went away, or the death of the service.
AskFails(c) ==
    /\ ~Of(c, "none")
    /\ Close(c)
    /\ UNCHANGED <<passkey, asked, bumps, overlapped, answered>>

KeysNext ==
    \/ \E who \in Holders, k \in Keys :
          \/ RegisterPasskey(who, k)
          \/ \E c \in Asks : BeginCount(c, who, k) \/ BeginRevoke(c, who, k)
    \/ \E c \in Asks : WriteCount(c) \/ CheckRevoked(c) \/ StampRevoked(c) \/ AskFails(c)

KeysSpec == KeysInit /\ [][KeysNext]_keyVars

-----------------------------------------------------------------------------
KeysTypeOK ==
    /\ \A k \in Keys : passkey[k].count \in 0..MaxAsks /\ bumps[k] \in 0..MaxAsks
    /\ \A c \in Asks : ask[c].op \in {"none", "count", "revoke", "stamp"}
    /\ overlapped \cup answered \subseteq {k \in Keys : passkey[k].there}

(* A passkey keeps what was done to it, whatever overlaps: a revocation that *)
(* was answered is not undone by a counter request under way, and the        *)
(* counter is the number of its bumps (user_auth_service.py: "Bump the sign  *)
(* counter on a passkey by one") as long as no two of these overlapped; two  *)
(* that do may count as one, never as more than they are.                    *)
PasskeyKeeps ==
    \A k \in Keys :
        /\ k \in answered => passkey[k].revoked
        /\ passkey[k].count <= bumps[k]
        /\ k \notin overlapped => passkey[k].count = bumps[k]
=============================================================================
