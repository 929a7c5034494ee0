------------------------ MODULE ShareLifecycle_proofs ------------------------
(***************************************************************************)
(* Shares, for any users, requests, times and numbers of rows, with        *)
(* failures anywhere: no access without its expiry queued, none without a  *)
(* share.  The invariant says what a request has done so far and who else  *)
(* may be at its share (StoreInv), that it removes no rows but those of    *)
(* its share (Drops), and that the due date is queued before the share     *)
(* can be used (Guard).                                                    *)
(***************************************************************************)
EXTENDS ShareLifecycle, UserActions_proofs

Busy(c) == req[c].pc # "idle"
On(c, u) == Busy(c) /\ req[c].share = u
Creating(c) == Busy(c) /\ req[c].op = "create"
Has(u) == \E p \in Relation : <<u, p>> \in tuples

Unborn == {"insertUser", "insertShare"}
FutureSteps == {"fetchPending", "dropPending", "checkDisabled", "queueEnable", "schedule", "finish"}
Swaps == {"dropReader", "dropWriter", "swapTuple"}

\* What a request may be about to do, by what it is.
OwnSteps(op) ==
    CASE op = "create" -> Unborn \cup FutureSteps \cup {"insertTuple"}
      [] op = "update" -> Swaps \cup {"updateRow"} \cup FutureSteps
      [] OTHER -> {"deleteTuples", "deleteRow", "fetchActions", "purge"}

Requests == {Idle} \cup Request

StoreTypeOK ==
    /\ users \subseteq User /\ usedIds \subseteq User /\ shared \subseteq User
    /\ until \in [User -> Expiry]
    /\ tuples \subseteq User \X Relation
    /\ updated \subseteq User /\ contended \subseteq User /\ cut \subseteq User
    /\ req \in [Caller -> Requests]

Proceeds(r) ==
    r.pc # "idle" =>
        /\ r.pc \in OwnSteps(r.op)
        /\ r.op = "create" \/ r.pc \in FutureSteps => r.expiry \in Expiry
        /\ r.op = "create" \/ r.pc \in Swaps => r.perm \in Relation

Shape == /\ \A c \in Caller : Proceeds(req[c])
         /\ \A c \in Caller : Busy(c) /\ req[c].op = "update" => req[c].share \in updated

STyped == UInv /\ StoreTypeOK /\ Shape

\* A share whose rows are not inserted yet is nobody else's.
Fresh ==
    \A c \in Caller : Creating(c) /\ req[c].pc \in Unborn =>
        /\ req[c].share \notin shared /\ ~Has(req[c].share)
        /\ \A d \in Caller \ {c} : ~On(d, req[c].share)

Used ==
    \A u \in User \ usedIds :
        /\ u \notin shared /\ ~Has(u)
        /\ \A c \in Caller : On(c, u) => req[c].op = "create" /\ req[c].pc = "insertUser"

Creates ==
    \A c \in Caller : Creating(c) =>
        /\ \A d \in Caller \ {c} : Creating(d) => req[d].share # req[c].share
        /\ req[c].share \notin updated =>
              /\ ~Has(req[c].share)
              /\ req[c].pc \notin Unborn => until[req[c].share] = req[c].expiry

Deletes ==
    \A c \in Caller : req[c].pc \in {"fetchActions", "purge"} => req[c].share \notin shared

\* A share no two requests were at: one request, and what it has done.
Alone == \A u \in User \ contended : \A c, d \in Caller : On(c, u) /\ On(d, u) => c = d

Backed ==
    \A u \in User \ contended :
        /\ Has(u) => u \in shared
        /\ \A c \in Caller : On(c, u) =>
              /\ req[c].op = "create" /\ req[c].pc \notin Unborn => u \in shared
              /\ req[c].op = "update" => u \in shared
              /\ req[c].pc \in {"deleteRow", "fetchActions", "purge"} => ~Has(u)

StoreInv == Fresh /\ Used /\ Creates /\ Deletes /\ Alone /\ Backed

Guarded(u) == \E r \in rows : r.user = u /\ r.kind = "disable" /\ r.at = until[u]
Complete(c) == Creating(c) /\ req[c].pc \in {"finish", "insertTuple"}

Drops ==
    \A c \in Caller : Busy(c) =>
        /\ \A r \in rows : r.id \in req[c].drop => r.user = req[c].share
        /\ req[c].drop \subseteq 1..made

Guard ==
    \A u \in shared \ updated :
        until[u] # Forever /\ (Has(u) \/ \E c \in Caller : Complete(c) /\ req[c].share = u) => Guarded(u)

SInv == STyped /\ StoreInv /\ Drops /\ Guard

LEMMA IdleIs == Idle.pc = "idle" /\ \A r \in Request : r # Idle /\ r.pc # "idle" /\ r.pc \in Step
  BY DEF Idle, Request, Step

LEMMA BusyIs ==
  ASSUME StoreTypeOK, NEW c \in Caller
  PROVE  /\ Busy(c) <=> req[c] \in Request
         /\ Busy(c) <=> req[c] # Idle
  BY IdleIs DEF StoreTypeOK, Requests, Busy

LEMMA HasIs ==
  ASSUME StoreTypeOK, NEW u \in User
  PROVE  TuplesOf(u) # {} <=> Has(u)
  <1>1. \A t \in tuples : t = <<t[1], t[2]>> /\ t[2] \in Relation
    BY DEF StoreTypeOK
  <1>2. ASSUME TuplesOf(u) # {} PROVE Has(u)
    <2>1. PICK t \in tuples : t[1] = u
      BY <1>2 DEF TuplesOf
    <2>2. <<u, t[2]>> \in tuples /\ t[2] \in Relation
      BY <1>1, <2>1
    <2> QED
      BY <2>2 DEF Has
  <1>3. ASSUME Has(u) PROVE TuplesOf(u) # {}
    BY <1>3 DEF Has, TuplesOf
  <1> QED
    BY <1>2, <1>3

\* A step of a request that is under way: it ends, or goes on as what it is.
Moved(c) ==
    /\ Busy(c)
    /\ req[c] \in Request
    /\ \A d \in Caller \ {c} : req'[d] = req[d]
    /\ req' \in [Caller -> Requests]
    /\ \/ req'[c] = Idle
       \/ /\ req'[c] \in Request
          /\ req'[c].op = req[c].op /\ req'[c].share = req[c].share
          /\ req'[c].expiry = req[c].expiry /\ req'[c].perm = req[c].perm

LEMMA EndMoves ==
  ASSUME StoreTypeOK, NEW c \in Caller, Busy(c), End(c)
  PROVE  Moved(c) /\ req'[c] = Idle
  BY BusyIs DEF StoreTypeOK, End, Moved, Requests

LEMMA GotoMoves ==
  ASSUME StoreTypeOK, NEW c \in Caller, Busy(c), NEW b \in Step, Goto(c, b)
  PROVE  Moved(c) /\ req'[c] = [req[c] EXCEPT !.pc = b] /\ req'[c].pc = b /\ req'[c].drop = req[c].drop
  <1>1. req[c] \in Request
    BY BusyIs
  <1>2. req' = [req EXCEPT ![c] = [req[c] EXCEPT !.pc = b]]
    BY DEF Goto
  <1>3. [req[c] EXCEPT !.pc = b] \in Request
    BY <1>1 DEF Request
  <1>4. req' \in [Caller -> Requests] /\ req'[c] = [req[c] EXCEPT !.pc = b]
        /\ \A d \in Caller \ {c} : req'[d] = req[d]
    BY <1>2, <1>3 DEF StoreTypeOK, Requests
  <1> QED
    BY <1>1, <1>3, <1>4 DEF Moved, Request

LEMMA SInit == ShareInit => SInv
  <1> SUFFICES ASSUME ShareInit PROVE SInv
    OBVIOUS
  <1>1. \A c \in Caller : req[c].pc = "idle"
    BY IdleIs DEF ShareInit
  <1>2. Forever \in Expiry
    BY RowsAssumption DEF Forever, Expiry
  <1>3. UInv
    BY StartsUInv DEF ShareInit
  <1>4. StoreTypeOK
    BY <1>2 DEF ShareInit, StoreTypeOK, Requests
  <1>5. Shape
    BY <1>1 DEF Shape, Proceeds, Busy
  <1>6. shared = {} /\ usedIds = {} /\ tuples = {}
    BY DEF ShareInit
  <1>7. Fresh /\ Used /\ Creates /\ Deletes
    BY <1>1, <1>6 DEF Fresh, Used, Creates, Deletes, Creating, Busy, On, Has
  <1>8. Alone /\ Backed /\ Drops /\ Guard
    BY <1>1, <1>6 DEF Alone, Backed, Drops, Guard, Busy, On, Has
  <1> QED
    BY <1>3, <1>4, <1>5, <1>7, <1>8 DEF SInv, STyped, StoreInv

LEMMA MovedIs ==
  ASSUME StoreTypeOK, NEW c \in Caller, Moved(c)
  PROVE  /\ \A d \in Caller : d # c => req'[d] = req[d]
         /\ \A d \in Caller : Busy(d)' =>
               /\ Busy(d) /\ req'[d].op = req[d].op /\ req'[d].share = req[d].share
               /\ req'[d].expiry = req[d].expiry /\ req'[d].perm = req[d].perm
  BY IdleIs DEF Moved, Busy

\* Where the request may be afterwards for nothing to change of what is said of it.
Beside(c) ==
    Busy(c)' =>
        /\ req[c].pc \notin Unborn /\ req'[c].pc \notin Unborn
        /\ req'[c].pc \in {"fetchActions", "purge"} => req[c].pc \in {"fetchActions", "purge"}
        /\ req'[c].pc \in {"deleteRow", "fetchActions", "purge"} =>
              req[c].pc \in {"deleteRow", "fetchActions", "purge"}

LEMMA QuietSteps ==
  ASSUME STyped, StoreInv, NEW c \in Caller, Moved(c), Proceeds(req'[c]), Beside(c),
         UNCHANGED <<usedIds, shared, until, tuples, updated, contended>>
  PROVE  Shape' /\ StoreInv'
  <1>1. /\ \A d \in Caller : d # c => req'[d] = req[d]
        /\ \A d \in Caller : Busy(d)' =>
               /\ Busy(d) /\ req'[d].op = req[d].op /\ req'[d].share = req[d].share
               /\ req'[d].expiry = req[d].expiry
    BY MovedIs DEF STyped
  <1>2. \A u \in User : Has(u)' <=> Has(u)
    BY DEF Has
  <1>3. \A d \in Caller : Busy(d)' =>
           /\ req[d].pc \in Unborn <=> req'[d].pc \in Unborn
           /\ req'[d].pc = "insertUser" <=> req[d].pc = "insertUser"
           /\ req'[d].pc \in {"fetchActions", "purge"} => req[d].pc \in {"fetchActions", "purge"}
           /\ req'[d].pc \in {"deleteRow", "fetchActions", "purge"} =>
                 req[d].pc \in {"deleteRow", "fetchActions", "purge"}
    BY <1>1 DEF Beside, Unborn
  <1>4. Shape'
    BY <1>1 DEF STyped, Shape, Proceeds, Busy
  <1>5. \A d \in Caller : Busy(d) => req[d].share \in User
    BY BusyIs DEF STyped, Request
  <1>6. Fresh' /\ Creates'
    BY <1>1, <1>2, <1>3, <1>5 DEF StoreInv, Fresh, Creates, Creating, On
  <1>7. Used'
    BY <1>1, <1>2, <1>3 DEF StoreInv, Used, On
  <1>8. Deletes'
    BY <1>1, <1>3 DEF StoreInv, Deletes, Busy
  <1>9. Alone'
    BY <1>1 DEF StoreInv, Alone, On
  <1>10. Backed'
    BY <1>1, <1>2, <1>3 DEF StoreInv, Backed, On
  <1> QED
    BY <1>4, <1>6, <1>7, <1>8, <1>9, <1>10 DEF StoreInv

\* Every row stays, marked perhaps, and none is new.
RowsStay ==
    /\ \A r \in rows : \E s \in rows' : s.id = r.id /\ s.user = r.user /\ s.kind = r.kind /\ s.at = r.at
    /\ \A s \in rows' : \E r \in rows : r.id = s.id /\ r.user = s.user

\* A request that adds no row and takes up none to remove, and makes no share
\* usable, keeps Drops and Guard.
LEMMA RowsAlone ==
  ASSUME STyped, Drops, Guard, NEW c \in Caller, Moved(c), RowsStay, made' = made,
         Busy(c)' => req'[c].drop \subseteq req[c].drop,
         Complete(c)' => Complete(c),
         shared' \subseteq shared, updated' = updated, until' = until,
         \A u \in User : Has(u)' => Has(u)
  PROVE  Drops' /\ Guard'
  <1>1. /\ \A d \in Caller : d # c => req'[d] = req[d]
        /\ \A d \in Caller : Busy(d)' =>
               /\ Busy(d) /\ req'[d].op = req[d].op /\ req'[d].share = req[d].share
               /\ req'[d].expiry = req[d].expiry
    BY MovedIs DEF STyped
  <1>2. \A d \in Caller : Busy(d)' => req'[d].drop \subseteq req[d].drop
    BY <1>1
  <1>3. Drops'
    BY <1>1, <1>2 DEF Drops, RowsStay
  <1>4. \A d \in Caller : Complete(d)' => Complete(d) /\ req'[d].share = req[d].share
    BY <1>1 DEF Complete, Creating, Busy
  <1>5. \A u \in User : Guarded(u) => Guarded(u)'
    BY DEF Guarded, RowsStay
  <1>6. shared \subseteq User
    BY DEF STyped, StoreTypeOK
  <1>7. Guard'
    BY <1>4, <1>5, <1>6 DEF Guard
  <1> QED
    BY <1>3, <1>7

LEMMA UserUnchanged ==
  ASSUME UInv, UNCHANGED userActionVars
  PROVE  UInv' /\ rows' = rows /\ made' = made /\ now' = now /\ RowsStay
  <1>1. UInv'
    BY UserActionsStep
  <1>2. rows' = rows /\ made' = made /\ now' = now
    BY DEF userActionVars
  <1> QED
    BY <1>1, <1>2 DEF RowsStay

LEMMA StoreTyped ==
  ASSUME StoreTypeOK, NEW c \in Caller, Moved(c), users' \subseteq User, cut' \subseteq User,
         UNCHANGED <<usedIds, shared, until, tuples, updated, contended>>
  PROVE  StoreTypeOK'
  BY DEF StoreTypeOK, Moved, Requests, Request

\* Only the request moves, or ends.
LEMMA StepKeeps ==
  ASSUME SInv, NEW c \in Caller, Moved(c), Proceeds(req'[c]), Beside(c),
         UNCHANGED <<userActionVars, usedIds, shared, until, tuples, updated, contended>>,
         users' \subseteq User, cut' \subseteq User,
         Busy(c)' => req'[c].drop \subseteq req[c].drop,
         Complete(c)' => Complete(c)
  PROVE  SInv'
  <1>1. UInv' /\ made' = made /\ RowsStay
    BY UserUnchanged DEF SInv, STyped
  <1>2. StoreTypeOK'
    BY StoreTyped DEF SInv, STyped
  <1>3. Shape' /\ StoreInv'
    BY QuietSteps DEF SInv
  <1>4. Drops' /\ Guard'
    BY <1>1, RowsAlone DEF SInv, Has
  <1> QED
    BY <1>1, <1>2, <1>3, <1>4 DEF SInv, STyped

LEMMA EndKeeps ==
  ASSUME SInv, NEW c \in Caller, Busy(c), End(c), users' \subseteq User, cut' \subseteq User,
         UNCHANGED <<userActionVars, usedIds, shared, until, tuples, updated, contended>>
  PROVE  SInv'
  <1>1. Moved(c) /\ req'[c] = Idle
    BY EndMoves DEF SInv, STyped
  <1>2. ~Busy(c)' /\ Proceeds(req'[c])
    BY <1>1, IdleIs DEF Busy, Proceeds
  <1> QED
    BY <1>1, <1>2, StepKeeps DEF Beside, Complete, Creating

LEMMA GotoKeeps ==
  ASSUME SInv, NEW c \in Caller, Busy(c), NEW b \in Step, Goto(c, b),
         UNCHANGED <<userActionVars, storeVars>>,
         b \in OwnSteps(req[c].op), b \notin Swaps,
         b \in FutureSteps => req[c].expiry \in Expiry,
         req[c].pc \notin Unborn, b \notin Unborn \cup {"deleteRow", "fetchActions", "purge"},
         b \in {"finish", "insertTuple"} => req[c].pc \in {"finish", "insertTuple"}
  PROVE  SInv'
  <1>1. /\ Moved(c) /\ req'[c] = [req[c] EXCEPT !.pc = b]
        /\ req'[c].pc = b /\ req'[c].drop = req[c].drop
    BY GotoMoves DEF SInv, STyped
  <1>2. /\ req'[c].op = req[c].op /\ req'[c].expiry = req[c].expiry /\ req'[c].perm = req[c].perm
    BY <1>1, MovedIs, IdleIs DEF SInv, STyped, Moved, Busy, Step
  <1>3. UNCHANGED <<users, usedIds, shared, until, tuples, updated, contended, cut>>
    BY DEF storeVars
  <1>4. Proceeds(req'[c])
    BY <1>1, <1>2 DEF SInv, STyped, Shape, Proceeds, Busy
  <1>5. Beside(c) /\ (Complete(c)' => Complete(c))
    BY <1>1, <1>2 DEF Beside, Complete, Creating, Busy
  <1>6. users' \subseteq User /\ cut' \subseteq User
    BY <1>3 DEF SInv, STyped, StoreTypeOK
  <1> QED
    BY <1>1, <1>3, <1>4, <1>5, <1>6, StepKeeps

LEMMA AtBusy ==
  ASSUME NEW c, NEW a, At(c, a), a # "idle"
  PROVE  Busy(c) /\ req[c].pc = a
  BY DEF At, Busy

LEMMA FailKeeps ==
  ASSUME SInv, NEW c \in Caller, Fail(c)
  PROVE  SInv'
  <1>1. Busy(c) /\ req[c].share \in User
    BY BusyIs DEF Fail, SInv, STyped, Request
  <1>2. users' \subseteq User /\ cut' \subseteq User
    BY <1>1 DEF Fail, SInv, STyped, StoreTypeOK
  <1> QED
    BY <1>1, <1>2, EndKeeps DEF Fail

LEMMA UpdateRowKeeps ==
  ASSUME SInv, NEW c \in Caller, UpdateRow(c)
  PROVE  SInv'
  <1>1. Busy(c) /\ req[c].pc = "updateRow"
    BY AtBusy DEF UpdateRow
  <1>2. req[c] \in Request /\ req[c].op = "update" /\ req[c].share \in updated
    <2>1. req[c] \in Request
      BY <1>1, BusyIs DEF SInv, STyped
    <2>2. "updateRow" \in OwnSteps(req[c].op)
      BY <1>1 DEF SInv, STyped, Shape, Proceeds, Busy
    <2>3. req[c].op = "update"
      BY <2>2 DEF OwnSteps, Unborn, FutureSteps
    <2> QED
      BY <1>1, <2>1, <2>3 DEF SInv, STyped, Shape
  <1>3. users' \subseteq User /\ cut' \subseteq User
    BY DEF UpdateRow, SInv, STyped, StoreTypeOK
  <1>4. CASE until' = until /\ End(c)
    BY <1>1, <1>3, <1>4, EndKeeps DEF UpdateRow
  <1>5. CASE /\ req[c].expiry # KeepExpiry
             /\ until' = [until EXCEPT ![req[c].share] = req[c].expiry]
             /\ Goto(c, "fetchPending")
    <2>1. /\ Moved(c) /\ req'[c] = [req[c] EXCEPT !.pc = "fetchPending"]
          /\ req'[c].pc = "fetchPending" /\ req'[c].drop = req[c].drop
      BY <1>1, <1>5, GotoMoves DEF SInv, STyped, Step
    <2>2. UNCHANGED <<userActionVars, users, usedIds, shared, tuples, updated, contended, cut>>
      BY DEF UpdateRow
    <2>3. UInv' /\ made' = made /\ RowsStay
      BY <2>2, UserUnchanged DEF SInv, STyped
    <2>4. req[c].expiry \in Expiry /\ until' \in [User -> Expiry]
          /\ \A u \in User : u # req[c].share => until'[u] = until[u]
      BY <1>2, <1>5 DEF Request, SInv, STyped, StoreTypeOK
    <2>5. StoreTypeOK'
      BY <2>1, <2>2, <2>4 DEF SInv, STyped, StoreTypeOK, Moved
    <2>6. /\ \A d \in Caller : d # c => req'[d] = req[d]
          /\ \A d \in Caller : Busy(d)' =>
               /\ Busy(d) /\ req'[d].op = req[d].op /\ req'[d].share = req[d].share
               /\ req'[d].expiry = req[d].expiry /\ req'[d].perm = req[d].perm
      BY <2>1, MovedIs DEF SInv, STyped
    <2>7. Busy(c)'
      BY <2>1 DEF Busy
    <2>8. Shape'
      <3>1. Proceeds(req'[c])
        BY <1>2, <2>1, <2>4, <2>6, <2>7 DEF Proceeds, OwnSteps, FutureSteps, Swaps
      <3> QED
        BY <2>2, <2>6, <3>1 DEF SInv, STyped, Shape, Busy, Proceeds
    <2>9. \A u \in User : Has(u)' <=> Has(u)
      BY <2>2 DEF Has
    <2>10. \A d \in Caller : Busy(d) => req[d].share \in User
      BY BusyIs DEF SInv, STyped, Request
    <2>11. \A d \in Caller : Creating(d)' => d # c /\ Creating(d)
      BY <1>2, <2>6 DEF Creating
    <2>12. /\ Fresh' /\ Used'
           /\ Deletes' /\ Alone'
           /\ Backed'
      <3>1. Fresh'
        BY <2>2, <2>6, <2>9, <2>10, <2>11 DEF SInv, StoreInv, Fresh, Creating, On
      <3>2. Used'
        BY <1>1, <2>2, <2>6, <2>9 DEF SInv, StoreInv, Used, On
      <3>3. Deletes'
        BY <2>1, <2>2, <2>6 DEF SInv, StoreInv, Deletes
      <3>4. Alone'
        BY <2>2, <2>6 DEF SInv, StoreInv, Alone, On
      <3>5. Backed'
        <4>1. \A d \in Caller, u \in User : On(d, u)' =>
                /\ On(d, u) /\ req'[d].op = req[d].op
                /\ req[d].op = "create" => req'[d].pc = req[d].pc
                /\ req'[d].pc \in {"deleteRow", "fetchActions", "purge"} => req'[d].pc = req[d].pc
          BY <1>2, <2>1, <2>6 DEF On
        <4>2. shared' = shared /\ contended' = contended
          BY <2>2
        <4> QED
          BY <2>9, <4>1, <4>2 DEF SInv, StoreInv, Backed
      <3> QED
        BY <3>1, <3>2, <3>3, <3>4, <3>5
    <2>13. Creates'
      <3> SUFFICES ASSUME NEW d \in Caller, Creating(d)'
                   PROVE  /\ \A e \in Caller \ {d} : Creating(e)' => req'[e].share # req'[d].share
                          /\ req'[d].share \notin updated' =>
                                /\ ~Has(req[d].share)'
                                /\ req'[d].pc \notin Unborn => until'[req'[d].share] = req'[d].expiry
        BY DEF Creates
      <3>1. d # c /\ Creating(d) /\ req'[d] = req[d] /\ req[d].share \in User
        BY <2>6, <2>10, <2>11 DEF Creating
      <3>2. req[d].share \notin updated => req[d].share # req[c].share
        BY <1>2
      <3> QED
        BY <2>2, <2>4, <2>6, <2>9, <2>11, <3>1, <3>2 DEF SInv, StoreInv, Creates
    <2>14. Drops'
      <3>1. \A d \in Caller : Busy(d)' => req'[d].drop = req[d].drop
        BY <2>1, <2>6
      <3> QED
        BY <2>3, <2>6, <3>1 DEF SInv, Drops, RowsStay
    <2>15. Guard'
      <3>1. \A d \in Caller : Complete(d)' => Complete(d) /\ req'[d].share = req[d].share
        BY <2>6, <2>11 DEF Complete
      <3>2. \A u \in User \ updated : until'[u] = until[u] /\ (Guarded(u) => Guarded(u)')
        BY <1>2, <2>3, <2>4 DEF Guarded, RowsStay
      <3> QED
        BY <2>2, <2>5, <2>9, <3>1, <3>2 DEF SInv, Guard, StoreTypeOK
    <2> QED
      BY <2>3, <2>5, <2>8, <2>12, <2>13, <2>14, <2>15 DEF SInv, STyped, StoreInv
  <1> QED
    BY <1>4, <1>5 DEF UpdateRow

\* A step of a request that touches the stores for its own share v only.
Confined(c) ==
    /\ UNCHANGED <<userActionVars, updated, contended>>
    /\ req[c].share \in usedIds' /\ usedIds \subseteq usedIds'
    /\ \A u \in User : u # req[c].share =>
          /\ u \in usedIds' => u \in usedIds
          /\ Has(u)' => Has(u)
          /\ u \in shared' <=> u \in shared
          /\ until'[u] = until[u]
    /\ Busy(c)' => req'[c].drop = req[c].drop

\* What it has to make sure of about v.
Leaves(c, v) ==
    /\ Busy(c)' /\ req'[c].pc \in Unborn =>
          req[c].pc \in Unborn /\ v \notin shared' /\ ~Has(v)'
    /\ Has(v)' => Has(v) \/ v \in updated \/ (Creating(c) /\ ~Busy(c)')
    /\ until'[v] = until[v] \/ (Creating(c) /\ req[c].pc \in Unborn /\ until'[v] = req[c].expiry)
    /\ Creating(c) /\ Busy(c)' /\ req[c].pc \in Unborn /\ req'[c].pc \notin Unborn => until'[v] = req[c].expiry
    /\ v \in shared' => v \in shared \/ (Creating(c) /\ req[c].pc \in Unborn)
    /\ Busy(c)' /\ req'[c].pc \in {"fetchActions", "purge"} => v \notin shared'
    /\ v \notin contended =>
          /\ Has(v)' => v \in shared'
          /\ Busy(c)' =>
               /\ req[c].op = "create" /\ req'[c].pc \notin Unborn => v \in shared'
               /\ req[c].op = "update" => v \in shared'
               /\ req'[c].pc \in {"deleteRow", "fetchActions", "purge"} => ~Has(v)'
    /\ Complete(c)' => Complete(c)
    /\ Has(v)' => Has(v) \/ v \in updated \/ Complete(c)

LEMMA ConfinedKeeps ==
  ASSUME STyped, StoreInv, NEW c \in Caller, Moved(c), Proceeds(req'[c]),
         NEW v \in User, v = req[c].share, Confined(c), Leaves(c, v)
  PROVE  Shape' /\ StoreInv'
  <1>1. /\ \A d \in Caller : d # c => req'[d] = req[d]
        /\ \A d \in Caller : Busy(d)' =>
               /\ Busy(d) /\ req'[d].op = req[d].op /\ req'[d].share = req[d].share
               /\ req'[d].expiry = req[d].expiry
    BY MovedIs DEF STyped
  <1>2. updated' = updated /\ contended' = contended
    BY DEF Confined
  <1>3. \A d \in Caller : Busy(d) => req[d].share \in User
    BY BusyIs DEF STyped, Request
  <1>4. v \in User /\ Busy(c)
    BY <1>3 DEF Moved
  <1>5. \A u \in User : u # v =>
          /\ u \in usedIds' => u \in usedIds
          /\ Has(u)' => Has(u)
          /\ u \in shared' <=> u \in shared
          /\ until'[u] = until[u]
    BY DEF Confined
  <1>6. Shape'
    BY <1>1, <1>2 DEF STyped, Shape, Proceeds, Busy
  <1>7. Fresh'
    <2> SUFFICES ASSUME NEW d \in Caller, Creating(d)', req'[d].pc \in Unborn
                 PROVE  /\ req'[d].share \notin shared'
                        /\ ~Has(req[d].share)'
                        /\ \A e \in Caller \ {d} : ~On(e, req[d].share)'
      BY <1>1 DEF Fresh, Creating, On
    <2>1. /\ Creating(d) /\ req'[d].share = req[d].share
          /\ \A e \in Caller : On(e, req[d].share)' => On(e, req[d].share)
      BY <1>1 DEF Creating, On
    <2>2. req[d].pc \in Unborn
      <3>1. CASE d = c
        BY <2>1, <3>1 DEF Leaves, Creating
      <3>2. CASE d # c
        BY <1>1, <3>2
      <3> QED
        BY <3>1, <3>2
    <2>3. /\ req[d].share \notin shared /\ ~Has(req[d].share)
          /\ \A e \in Caller \ {d} : ~On(e, req[d].share)
      BY <2>1, <2>2 DEF StoreInv, Fresh
    <2>4. CASE d = c
      <3>1. Busy(c)'
        BY <2>4 DEF Creating
      <3>2. v \notin shared' /\ ~Has(v)'
        BY <3>1, <2>4 DEF Leaves
      <3> QED
        BY <2>1, <2>3, <2>4, <3>2
    <2>5. CASE d # c
      <3>1. req[d].share # v
        BY <1>4, <2>3, <2>5 DEF On
      <3>2. req[d].share \in User
        BY <1>3, <2>1 DEF Creating
      <3> QED
        BY <1>5, <2>1, <2>3, <3>1, <3>2
    <2> QED
      BY <2>4, <2>5
  <1>8. Used'
    <2> SUFFICES ASSUME NEW u \in User, u \notin usedIds'
                 PROVE  /\ u \notin shared' /\ ~Has(u)'
                        /\ \A d \in Caller : On(d, u)' => req'[d].op = "create" /\ req'[d].pc = "insertUser"
      BY DEF Used
    <2>1. u # v /\ u \notin usedIds
      BY DEF Confined
    <2>2. \A d \in Caller : On(d, u)' => d # c /\ On(d, u) /\ req'[d] = req[d]
      BY <1>1, <2>1 DEF On
    <2> QED
      BY <1>5, <2>1, <2>2 DEF StoreInv, Used
  <1>9. Creates'
    <2> SUFFICES ASSUME NEW d \in Caller, Creating(d)', NEW w \in User, w = req[d].share
                 PROVE  /\ \A e \in Caller \ {d} : Creating(e)' => req'[e].share # req'[d].share
                        /\ w \notin updated =>
                              /\ ~Has(w)'
                              /\ req'[d].pc \notin Unborn => until'[w] = req[d].expiry
      BY <1>1, <1>2, <1>3 DEF Creates, Creating
    <2>1. /\ Creating(d) /\ req'[d].share = req[d].share /\ req[d].share \in User
          /\ \A e \in Caller : Creating(e)' => Creating(e) /\ req'[e].share = req[e].share
      BY <1>1, <1>3 DEF Creating
    <2>2. \A e \in Caller \ {d} : Creating(e)' => req'[e].share # req'[d].share
      BY <2>1 DEF StoreInv, Creates
    <2>3. ASSUME w \notin updated
          PROVE  /\ ~Has(w)'
                 /\ req'[d].pc \notin Unborn => until'[w] = req[d].expiry
      <3>1. /\ ~Has(w)
            /\ req[d].pc \notin Unborn => until[w] = req[d].expiry
        BY <2>1, <2>3 DEF StoreInv, Creates
      <3>2. CASE w # v
        <4>1. d # c
          BY <3>2
        <4> QED
          BY <1>1, <1>5, <2>1, <3>1, <3>2, <4>1
      <3>3. CASE w = v /\ d = c
        <4>1. Busy(c)' /\ Creating(c)
          BY <2>1, <3>3 DEF Creating
        <4>2. ~Has(v)'
          BY <2>3, <3>1, <3>3, <4>1 DEF Leaves
        <4>3. req'[c].pc \notin Unborn => until'[v] = req[c].expiry
          BY <3>1, <3>3, <4>1 DEF Leaves
        <4> QED
          BY <3>3, <4>2, <4>3
      <3>4. CASE w = v /\ d # c
        <4>1. ~Creating(c)
          BY <2>1, <3>4 DEF StoreInv, Creates
        <4>2. ~Has(v)' /\ until'[v] = until[v]
          BY <2>3, <3>1, <3>4, <4>1 DEF Leaves
        <4> QED
          BY <1>1, <3>1, <3>4, <4>2
      <3> QED
        BY <3>2, <3>3, <3>4
    <2> QED
      BY <2>2, <2>3
  <1>10. Deletes'
    <2> SUFFICES ASSUME NEW d \in Caller, req'[d].pc \in {"fetchActions", "purge"}
                 PROVE  req'[d].share \notin shared'
      BY DEF Deletes
    <2>1. Busy(d)' /\ Busy(d) /\ req'[d].share = req[d].share /\ req[d].share \in User
      BY <1>1, <1>3 DEF Busy
    <2>2. CASE d = c
      BY <2>1, <2>2 DEF Leaves
    <2>3. CASE d # c
      <3>1. req[d].share \notin shared
        BY <1>1, <2>3 DEF StoreInv, Deletes
      <3>2. On(d, req[d].share)
        BY <2>1 DEF On
      <3>3. req[d].share = v => ~(Creating(c) /\ req[c].pc \in Unborn)
        BY <2>3, <3>2 DEF StoreInv, Fresh
      <3> QED
        BY <1>5, <2>1, <3>1, <3>3 DEF Leaves
    <2> QED
      BY <2>2, <2>3
  <1>11. Alone'
    BY <1>1, <1>2 DEF StoreInv, Alone, On
  <1>12. Backed'
    <2> SUFFICES ASSUME NEW u \in User, u \notin contended
                 PROVE  /\ Has(u)' => u \in shared'
                        /\ \A d \in Caller : On(d, u)' =>
                              /\ req'[d].op = "create" /\ req'[d].pc \notin Unborn => u \in shared'
                              /\ req'[d].op = "update" => u \in shared'
                              /\ req'[d].pc \in {"deleteRow", "fetchActions", "purge"} => ~Has(u)'
      BY <1>2 DEF Backed
    <2>1. \A d \in Caller : On(d, u)' => On(d, u) /\ req'[d].op = req[d].op /\ Busy(d)'
      BY <1>1 DEF On
    <2>2. CASE u # v
      <3>1. \A d \in Caller : On(d, u)' => req'[d] = req[d]
        BY <1>1, <2>1, <2>2 DEF On
      <3> QED
        BY <1>5, <2>1, <2>2, <3>1 DEF StoreInv, Backed
    <2>3. CASE u = v
      <3>1. \A d \in Caller : On(d, u)' => d = c
        BY <1>4, <2>1, <2>3 DEF StoreInv, Alone, On
      <3> QED
        BY <2>1, <2>3, <3>1 DEF Leaves
    <2> QED
      BY <2>2, <2>3
  <1> QED
    BY <1>6, <1>7, <1>8, <1>9, <1>10, <1>11, <1>12 DEF StoreInv

LEMMA ConfinedRows ==
  ASSUME SInv, NEW c \in Caller, Moved(c), StoreTypeOK',
         NEW v \in User, v = req[c].share, Confined(c), Leaves(c, v)
  PROVE  Drops' /\ Guard'
  <1>1. /\ \A d \in Caller : d # c => req'[d] = req[d]
        /\ \A d \in Caller : Busy(d)' =>
               /\ Busy(d) /\ req'[d].op = req[d].op /\ req'[d].share = req[d].share
    BY MovedIs DEF SInv, STyped
  <1>2. rows' = rows /\ made' = made /\ updated' = updated
    BY UserUnchanged DEF Confined, SInv, STyped
  <1>3. \A d \in Caller : Busy(d)' => req'[d].drop = req[d].drop
    BY <1>1 DEF Confined
  <1>4. Drops'
    BY <1>1, <1>2, <1>3 DEF SInv, Drops
  <1>5. \A d \in Caller : Complete(d)' => Complete(d) /\ req'[d].share = req[d].share
    BY <1>1 DEF Complete, Creating, Busy, Leaves
  <1>6. Guard'
    <2> SUFFICES ASSUME NEW u \in User, u \in shared', u \notin updated, until'[u] # Forever,
                        Has(u)' \/ \E d \in Caller : Complete(d)' /\ req'[d].share = u
                 PROVE  Guarded(u)'
      <3>1. shared' \subseteq User
        BY DEF StoreTypeOK
      <3> QED
        BY <1>2, <3>1 DEF Guard
    <2>1. ASSUME u \in shared, until'[u] = until[u],
                 Has(u) \/ \E d \in Caller : Complete(d) /\ req[d].share = u
          PROVE  Guarded(u)'
      <3>1. Guarded(u)
        BY <2>1 DEF SInv, Guard
      <3> QED
        BY <1>2, <2>1, <3>1 DEF Guarded
    <2>2. CASE u # v
      <3>1. u \in shared /\ until'[u] = until[u] /\ (Has(u)' => Has(u))
        BY <2>2 DEF Confined
      <3> QED
        BY <1>5, <2>1, <3>1
    <2>3. CASE u = v
      <3>1. Has(v)' => Has(v) \/ Complete(c)
        BY <2>3 DEF Leaves
      <3>2. Has(v) \/ \E d \in Caller : Complete(d) /\ req[d].share = v
        BY <1>5, <2>3, <3>1
      <3>3. ~(Creating(c) /\ req[c].pc \in Unborn)
        <4> SUFFICES ASSUME Creating(c), req[c].pc \in Unborn PROVE FALSE
          OBVIOUS
        <4>1. ~Has(v) /\ \A d \in Caller \ {c} : ~On(d, v)
          BY DEF SInv, StoreInv, Fresh
        <4>2. ~Complete(c)
          BY DEF Complete, Unborn
        <4> QED
          BY <3>2, <4>1, <4>2 DEF Complete, Creating, On
      <3> QED
        BY <2>1, <2>3, <3>2, <3>3 DEF Leaves
    <2> QED
      BY <2>2, <2>3
  <1> QED
    BY <1>4, <1>6

LEMMA ConfinedStep ==
  ASSUME SInv, NEW c \in Caller, Moved(c), Proceeds(req'[c]), StoreTypeOK',
         NEW v \in User, v = req[c].share, Confined(c), Leaves(c, v)
  PROVE  SInv'
  <1>1. UInv'
    BY UserUnchanged DEF Confined, SInv, STyped
  <1>2. Shape' /\ StoreInv'
    BY ConfinedKeeps DEF SInv
  <1>3. Drops' /\ Guard'
    BY ConfinedRows
  <1> QED
    BY <1>1, <1>2, <1>3 DEF SInv, STyped

\* What every request step starts from.
LEMMA RequestIs ==
  ASSUME SInv, NEW c \in Caller, NEW a \in Step, At(c, a)
  PROVE  /\ Busy(c) /\ req[c].pc = a /\ req[c] \in Request /\ req[c].share \in User
         /\ a \in OwnSteps(req[c].op)
         /\ req[c].op = "create" \/ a \in FutureSteps => req[c].expiry \in Expiry
         /\ req[c].op = "create" \/ a \in Swaps => req[c].perm \in Relation
         /\ req[c].share \notin usedIds =>
              a = "insertUser" /\ req[c].share \notin shared /\ ~Has(req[c].share)
         /\ req[c].share \notin contended /\ Has(req[c].share) => req[c].share \in shared
  <1>1. Busy(c) /\ req[c].pc = a
    BY AtBusy DEF Step
  <1>2. req[c] \in Request /\ req[c].share \in User
    BY <1>1, BusyIs DEF SInv, STyped, Request
  <1>3. Proceeds(req[c])
    BY DEF SInv, STyped, Shape
  <1>4. On(c, req[c].share)
    BY <1>1 DEF On
  <1>5. req[c].share \notin usedIds =>
              a = "insertUser" /\ req[c].share \notin shared /\ ~Has(req[c].share)
    BY <1>1, <1>2, <1>4 DEF SInv, StoreInv, Used
  <1>6. req[c].share \notin contended /\ Has(req[c].share) => req[c].share \in shared
    BY <1>2 DEF SInv, StoreInv, Backed
  <1> QED
    BY <1>1, <1>2, <1>3, <1>5, <1>6 DEF Proceeds, Busy

LEMMA InsertUserKeeps ==
  ASSUME SInv, NEW c \in Caller, InsertUser(c)
  PROVE  SInv'
  <1> PICK v \in User : v = req[c].share
    BY RequestIs DEF InsertUser, Step
  <1>1. /\ Busy(c) /\ req[c].pc = "insertUser" /\ req[c].op = "create"
        /\ req[c].expiry \in Expiry /\ req[c].perm \in Relation
    BY RequestIs DEF InsertUser, Step, OwnSteps, Unborn, FutureSteps, Swaps
  <1>2. /\ Moved(c) /\ req'[c].pc = "insertShare" /\ req'[c].drop = req[c].drop
        /\ req'[c] = [req[c] EXCEPT !.pc = "insertShare"]
    BY <1>1, GotoMoves DEF InsertUser, SInv, STyped, Step
  <1>3. /\ req'[c].op = "create" /\ req'[c].share = v
        /\ req'[c].expiry = req[c].expiry /\ req'[c].perm = req[c].perm /\ Busy(c)'
    BY <1>1, <1>2, IdleIs DEF Moved, Busy
  <1>4. UNCHANGED <<userActionVars, shared, until, tuples, updated, contended, cut>>
        /\ usedIds' = usedIds \cup {v} /\ users' = users \cup {v}
    BY DEF InsertUser
  <1>5. StoreTypeOK'
    BY <1>2, <1>4 DEF SInv, STyped, StoreTypeOK, Moved
  <1>6. Proceeds(req'[c])
    BY <1>1, <1>2, <1>3 DEF Proceeds, OwnSteps, Unborn
  <1>7. Confined(c)
    BY <1>2, <1>4 DEF Confined, Has
  <1>8. v \notin shared /\ ~Has(v)
    BY <1>1 DEF SInv, StoreInv, Fresh, Creating, Unborn
  <1>9. Leaves(c, v)
    BY <1>1, <1>2, <1>3, <1>4, <1>8 DEF Leaves, Has, Unborn, Complete
  <1> QED
    BY <1>2, <1>5, <1>6, <1>7, <1>9, ConfinedStep

LEMMA InsertShareKeeps ==
  ASSUME SInv, NEW c \in Caller, InsertShare(c)
  PROVE  SInv'
  <1> PICK v \in User : v = req[c].share
    BY RequestIs DEF InsertShare, Step
  <1>1. /\ Busy(c) /\ req[c].pc = "insertShare" /\ req[c].op = "create" /\ v \in usedIds
        /\ req[c].expiry \in Expiry /\ req[c].perm \in Relation
    BY RequestIs DEF InsertShare, Step, OwnSteps, Unborn, FutureSteps, Swaps
  <1>2. /\ Moved(c) /\ req'[c].pc = "fetchPending" /\ req'[c].drop = req[c].drop
        /\ req'[c] = [req[c] EXCEPT !.pc = "fetchPending"]
    BY <1>1, GotoMoves DEF InsertShare, SInv, STyped, Step
  <1>3. /\ req'[c].op = "create" /\ req'[c].share = v
        /\ req'[c].expiry = req[c].expiry /\ req'[c].perm = req[c].perm /\ Busy(c)'
    BY <1>1, <1>2, IdleIs DEF Moved, Busy
  <1>4. /\ UNCHANGED <<userActionVars, users, usedIds, tuples, updated, contended, cut>>
        /\ shared' = shared \cup {v} /\ until' = [until EXCEPT ![v] = req[c].expiry]
    BY DEF InsertShare
  <1>5. /\ until' \in [User -> Expiry] /\ until'[v] = req[c].expiry
        /\ \A u \in User : u # v => until'[u] = until[u]
    BY <1>1, <1>4 DEF SInv, STyped, StoreTypeOK
  <1>6. StoreTypeOK'
    BY <1>2, <1>4, <1>5 DEF SInv, STyped, StoreTypeOK, Moved
  <1>7. Proceeds(req'[c])
    BY <1>1, <1>2, <1>3 DEF Proceeds, OwnSteps, FutureSteps
  <1>8. Confined(c)
    BY <1>1, <1>2, <1>4, <1>5 DEF Confined, Has
  <1>9. v \notin shared /\ ~Has(v) /\ Creating(c)
    BY <1>1 DEF SInv, StoreInv, Fresh, Creating, Unborn
  <1>10. Leaves(c, v)
    BY <1>1, <1>2, <1>3, <1>4, <1>5, <1>9 DEF Leaves, Has, Unborn, Complete
  <1> QED
    BY <1>2, <1>6, <1>7, <1>8, <1>10, ConfinedStep

LEMMA InsertTupleKeeps ==
  ASSUME SInv, NEW c \in Caller, InsertTuple(c)
  PROVE  SInv'
  <1> PICK v \in User : v = req[c].share
    BY RequestIs DEF InsertTuple, Step
  <1>1. /\ Busy(c) /\ req[c].pc = "insertTuple" /\ req[c].op = "create" /\ v \in usedIds
        /\ req[c].perm \in Relation
    BY RequestIs DEF InsertTuple, Step, OwnSteps, Unborn, FutureSteps, Swaps
  <1>2. Moved(c) /\ req'[c] = Idle /\ ~Busy(c)'
    BY <1>1, EndMoves, IdleIs DEF InsertTuple, SInv, STyped, Busy
  <1>3. /\ UNCHANGED <<userActionVars, users, usedIds, shared, until, updated, contended, cut>>
        /\ tuples' = tuples \cup {<<v, req[c].perm>>}
    BY DEF InsertTuple
  <1>4. StoreTypeOK'
    BY <1>1, <1>2, <1>3 DEF SInv, STyped, StoreTypeOK, Moved
  <1>5. Proceeds(req'[c])
    BY <1>2, IdleIs DEF Proceeds
  <1>6. \A u \in User : u # v => (Has(u)' <=> Has(u))
    BY <1>3 DEF Has
  <1>7. Confined(c)
    BY <1>1, <1>2, <1>3, <1>6 DEF Confined
  <1>8. v \notin contended => v \in shared
    BY <1>1 DEF SInv, StoreInv, Backed, On, Unborn
  <1>9. Creating(c) /\ Complete(c)
    BY <1>1 DEF Creating, Complete
  <1>10. Leaves(c, v)
    BY <1>2, <1>3, <1>8, <1>9 DEF Leaves, Complete, Creating
  <1> QED
    BY <1>2, <1>4, <1>5, <1>7, <1>10, ConfinedStep

LEMMA SwapTupleKeeps ==
  ASSUME SInv, NEW c \in Caller, SwapTuple(c)
  PROVE  SInv'
  <1>1. PICK a \in Swaps, b \in (Swaps \ {"dropReader"}) \cup {"updateRow"} : At(c, a) /\ Goto(c, b)
    BY DEF SwapTuple, Swaps
  <1> PICK v \in User : v = req[c].share
    BY <1>1, RequestIs DEF Step, Swaps
  <1>2. /\ Busy(c) /\ req[c].pc = a /\ req[c].op = "update" /\ v \in usedIds
        /\ req[c].perm \in Relation
    BY <1>1, RequestIs DEF Step, OwnSteps, Unborn, FutureSteps, Swaps
  <1>3. v \in updated
    BY <1>2 DEF SInv, STyped, Shape
  <1>4. b \in Step /\ b \notin FutureSteps
    BY DEF Step, Swaps, FutureSteps
  <1>5. /\ Moved(c) /\ req'[c].pc = b /\ req'[c].drop = req[c].drop
        /\ req'[c] = [req[c] EXCEPT !.pc = b]
    BY <1>1, <1>2, <1>4, GotoMoves DEF SInv, STyped
  <1>6. /\ req'[c].op = "update" /\ req'[c].share = v
        /\ req'[c].expiry = req[c].expiry /\ req'[c].perm = req[c].perm /\ Busy(c)'
    BY <1>2, <1>4, <1>5, IdleIs DEF Moved, Busy, Step
  <1>7. /\ UNCHANGED <<userActionVars, users, usedIds, shared, until, updated, contended, cut>>
        /\ tuples' \subseteq tuples \cup {<<v, req[c].perm>>}
        /\ \A u \in User : u # v => (Has(u)' <=> Has(u))
    BY DEF SwapTuple, Has
  <1>8. StoreTypeOK'
    BY <1>2, <1>5, <1>7 DEF SInv, STyped, StoreTypeOK, Moved
  <1>9. Proceeds(req'[c])
    BY <1>2, <1>4, <1>5, <1>6 DEF Proceeds, OwnSteps
  <1>10. Confined(c)
    BY <1>2, <1>5, <1>7 DEF Confined
  <1>11. v \notin contended => v \in shared
    BY <1>2 DEF SInv, StoreInv, Backed, On
  <1>12. Leaves(c, v)
    BY <1>2, <1>3, <1>5, <1>6, <1>7, <1>11 DEF Leaves, Complete, Creating, Unborn, Swaps
  <1> QED
    BY <1>5, <1>8, <1>9, <1>10, <1>12, ConfinedStep

LEMMA DeleteTuplesKeeps ==
  ASSUME SInv, NEW c \in Caller, DeleteTuples(c)
  PROVE  SInv'
  <1> PICK v \in User : v = req[c].share
    BY RequestIs DEF DeleteTuples, Step
  <1>1. /\ Busy(c) /\ req[c].pc = "deleteTuples" /\ v \in usedIds
        /\ req[c].op \notin {"create", "update"}
    BY RequestIs DEF DeleteTuples, Step, OwnSteps, Unborn, FutureSteps, Swaps
  <1>2. /\ Moved(c) /\ req'[c].pc = "deleteRow" /\ req'[c].drop = req[c].drop
        /\ req'[c] = [req[c] EXCEPT !.pc = "deleteRow"]
    BY <1>1, GotoMoves DEF DeleteTuples, SInv, STyped, Step
  <1>3. req'[c].op = req[c].op /\ req'[c].share = v /\ Busy(c)'
    BY <1>1, <1>2, IdleIs DEF Moved, Busy
  <1>4. /\ UNCHANGED <<userActionVars, users, usedIds, shared, until, updated, contended, cut>>
        /\ tuples' = tuples \ TuplesOf(v)
    BY DEF DeleteTuples
  <1>5. ~Has(v)' /\ \A u \in User : Has(u)' => Has(u)
    BY <1>4 DEF Has, TuplesOf
  <1>6. StoreTypeOK'
    BY <1>2, <1>4 DEF SInv, STyped, StoreTypeOK, Moved
  <1>7. Proceeds(req'[c])
    BY <1>1, <1>2, <1>3 DEF Proceeds, OwnSteps, FutureSteps, Swaps
  <1>8. Confined(c)
    BY <1>1, <1>2, <1>4, <1>5 DEF Confined
  <1>9. Leaves(c, v)
    BY <1>1, <1>2, <1>3, <1>4, <1>5 DEF Leaves, Complete, Creating, Unborn
  <1> QED
    BY <1>2, <1>6, <1>7, <1>8, <1>9, ConfinedStep

LEMMA DeleteRowKeeps ==
  ASSUME SInv, NEW c \in Caller, DeleteRow(c)
  PROVE  SInv'
  <1> PICK v \in User : v = req[c].share
    BY RequestIs DEF DeleteRow, Step
  <1>1. /\ Busy(c) /\ req[c].pc = "deleteRow" /\ v \in usedIds
        /\ req[c].op \notin {"create", "update"}
    BY RequestIs DEF DeleteRow, Step, OwnSteps, Unborn, FutureSteps, Swaps
  <1>2. /\ UNCHANGED <<userActionVars, users, usedIds, until, tuples, updated, contended, cut>>
        /\ shared' = shared \ {v}
    BY DEF DeleteRow
  <1>3. \A u \in User : Has(u)' <=> Has(u)
    BY <1>2 DEF Has
  <1>4. v \notin contended => ~Has(v)
    BY <1>1 DEF SInv, StoreInv, Backed, On
  <1>5. CASE End(c)
    <2>1. Moved(c) /\ req'[c] = Idle /\ ~Busy(c)'
      BY <1>1, <1>5, EndMoves, IdleIs DEF SInv, STyped, Busy
    <2>2. Proceeds(req'[c])
      BY <2>1, IdleIs DEF Proceeds
    <2>3. StoreTypeOK'
      BY <1>2, <2>1 DEF SInv, STyped, StoreTypeOK, Moved
    <2>4. Confined(c)
      BY <1>1, <1>2, <1>3, <2>1 DEF Confined
    <2>5. Leaves(c, v)
      BY <1>1, <1>2, <1>3, <1>4, <2>1 DEF Leaves, Complete, Creating
    <2> QED
      BY <2>1, <2>2, <2>3, <2>4, <2>5, ConfinedStep
  <1>6. CASE Goto(c, "fetchActions")
    <2>1. /\ Moved(c) /\ req'[c].pc = "fetchActions" /\ req'[c].drop = req[c].drop
          /\ req'[c] = [req[c] EXCEPT !.pc = "fetchActions"]
      BY <1>1, <1>6, GotoMoves DEF SInv, STyped, Step
    <2>2. req'[c].op = req[c].op /\ req'[c].share = v /\ Busy(c)'
      BY <1>1, <2>1, IdleIs DEF Moved, Busy
    <2>3. Proceeds(req'[c])
      BY <1>1, <2>1, <2>2 DEF Proceeds, OwnSteps, FutureSteps, Swaps
    <2>4. StoreTypeOK'
      BY <1>2, <2>1 DEF SInv, STyped, StoreTypeOK, Moved
    <2>5. Confined(c)
      BY <1>1, <1>2, <1>3, <2>1 DEF Confined
    <2>6. Leaves(c, v)
      BY <1>1, <1>2, <1>3, <1>4, <2>1, <2>2 DEF Leaves, Complete, Creating, Unborn
    <2> QED
      BY <2>1, <2>3, <2>4, <2>5, <2>6, ConfinedStep
  <1> QED
    BY <1>5, <1>6 DEF DeleteRow

LEMMA RemoveOneKeeps ==
  ASSUME SInv, NEW c \in Caller, Busy(c), req[c].pc \in {"dropPending", "purge"},
         NEW i \in req[c].drop, RemoveRow(i), req' = [req EXCEPT ![c].drop = @ \ {i}],
         UNCHANGED <<now, wake, up, made, pushes, loopVars>>, UNCHANGED storeVars
  PROVE  SInv'
  <1> PICK v \in User : v = req[c].share
    BY BusyIs DEF SInv, STyped, Request
  <1>1. req[c] \in Request /\ Proceeds(req[c])
    BY BusyIs DEF SInv, STyped, Shape
  <1>2. /\ req' \in [Caller -> Requests] /\ req'[c] \in Request
        /\ req'[c] = [req[c] EXCEPT !.drop = @ \ {i}]
        /\ \A d \in Caller \ {c} : req'[d] = req[d]
    <2>1. [req[c] EXCEPT !.drop = @ \ {i}] \in Request
      BY <1>1 DEF Request
    <2> QED
      BY <2>1 DEF SInv, STyped, StoreTypeOK, Requests
  <1>3. /\ req'[c].pc = req[c].pc /\ req'[c].op = req[c].op /\ req'[c].share = req[c].share
        /\ req'[c].expiry = req[c].expiry /\ req'[c].perm = req[c].perm
        /\ req'[c].drop = req[c].drop \ {i}
    BY <1>1, <1>2 DEF Request
  <1>4. Moved(c)
    BY <1>1, <1>2, <1>3 DEF Moved
  <1>5. UNCHANGED <<users, usedIds, shared, until, tuples, updated, contended, cut>>
    BY DEF storeVars
  <1>6. rows' = {r \in rows : r.id # i}
    BY DEF RemoveRow
  <1>7. UInv'
    BY <1>6, FewerRowsKeep DEF SInv, STyped
  <1>8. StoreTypeOK'
    BY <1>4, <1>5, StoreTyped DEF SInv, STyped, StoreTypeOK
  <1>9. Proceeds(req'[c]) /\ Beside(c)
    BY <1>1, <1>3 DEF Proceeds, Beside, Unborn
  <1>10. Shape' /\ StoreInv'
    BY <1>4, <1>5, <1>9, QuietSteps DEF SInv
  <1>11. Drops'
    BY <1>2, <1>3, <1>6 DEF SInv, Drops, Busy
  <1>12. ~Complete(c) /\ ~Complete(c)'
    BY <1>3 DEF Complete
  <1>13. Guard'
    <2> SUFFICES ASSUME NEW u \in User, u \in shared, u \notin updated, until[u] # Forever,
                        Has(u) \/ \E d \in Caller : Complete(d) /\ req[d].share = u
                 PROVE  \E r \in rows : r.id # i /\ r.user = u /\ r.kind = "disable" /\ r.at = until[u]
      <3>1. shared \subseteq User
        BY DEF SInv, STyped, StoreTypeOK
      <3>2. \A d \in Caller : Complete(d)' => Complete(d) /\ req'[d].share = req[d].share
        BY <1>2, <1>12 DEF Complete, Creating, Busy
      <3> QED
        BY <1>5, <1>6, <3>1, <3>2 DEF Guard, Guarded, Has
    <2>1. PICK r \in rows : r.user = u /\ r.kind = "disable" /\ r.at = until[u]
      BY DEF SInv, Guard, Guarded
    <2>2. u # v
      <3> SUFFICES ASSUME u = v PROVE FALSE
        OBVIOUS
      <3>1. req[c].pc = "dropPending"
        BY DEF SInv, StoreInv, Deletes
      <3>2. req[c].op = "create"
        BY <1>1, <3>1 DEF SInv, STyped, Shape, Proceeds, OwnSteps, Request
      <3>3. Creating(c)
        BY <3>2 DEF Creating
      <3>4. ~Has(v)
        BY <3>3 DEF SInv, StoreInv, Creates
      <3>5. \A d \in Caller : Complete(d) => req[d].share # v
        BY <1>12, <3>3 DEF SInv, StoreInv, Creates, Complete
      <3> QED
        BY <3>4, <3>5
    <2>3. r.id # i
      BY <2>1, <2>2 DEF SInv, Drops
    <2> QED
      BY <2>1, <2>3
  <1> QED
    BY <1>7, <1>8, <1>10, <1>11, <1>13 DEF SInv, STyped

LEMMA FetchesKeep ==
  ASSUME SInv, NEW c \in Caller, FetchPending(c) \/ FetchActions(c)
  PROVE  SInv'
  <1>1. UNCHANGED <<userActionVars, storeVars>>
    BY DEF FetchPending, FetchActions
  <1>2. Busy(c) /\ (FetchPending(c) => req[c].pc = "fetchPending")
                /\ (FetchActions(c) => req[c].pc = "fetchActions")
    BY RequestIs DEF FetchPending, FetchActions, Step
  <1>3. PICK b, S :
          /\ S \subseteq RowsOf(req[c].share)
          /\ \/ req[c].pc = "fetchPending" /\ b = "dropPending"
             \/ req[c].pc = "fetchActions" /\ b = "purge"
          /\ req' = [req EXCEPT ![c].pc = b, ![c].drop = IdsOf(S)]
    <2>1. CASE FetchPending(c)
      <3>1. PendingDisables(req[c].share) \subseteq RowsOf(req[c].share)
        BY DEF PendingDisables
      <3>2. req' = [req EXCEPT ![c].pc = "dropPending", ![c].drop = IdsOf(PendingDisables(req[c].share))]
        BY <2>1 DEF FetchPending
      <3> QED
        BY <1>2, <2>1, <3>1, <3>2
    <2>2. CASE FetchActions(c)
      BY <1>2, <2>2 DEF FetchActions
    <2> QED
      BY <2>1, <2>2
  <1>4. req[c] \in Request /\ Proceeds(req[c])
    BY <1>2, BusyIs DEF SInv, STyped, Shape
  <1>5. IdsOf(S) \subseteq 1..made /\ IdsOf(S) \subseteq 1..MaxRows
    <2>1. \A r \in rows : r.id \in 1..made /\ r.id \in 1..MaxRows
      BY DEF SInv, STyped, UInv, UserActionsTypeOK, Identified, Row
    <2> QED
      BY <1>3, <2>1 DEF IdsOf, RowsOf
  <1>6. /\ req' \in [Caller -> Requests] /\ req'[c] \in Request
        /\ req'[c] = [req[c] EXCEPT !.pc = b, !.drop = IdsOf(S)]
        /\ \A d \in Caller \ {c} : req'[d] = req[d]
    <2>1. [req[c] EXCEPT !.pc = b, !.drop = IdsOf(S)] \in Request
      BY <1>4, <1>5, <1>3 DEF Request, Step
    <2> QED
      BY <1>3, <2>1 DEF SInv, STyped, StoreTypeOK, Requests
  <1>7. /\ req'[c].pc = b /\ req'[c].op = req[c].op /\ req'[c].share = req[c].share
        /\ req'[c].expiry = req[c].expiry /\ req'[c].perm = req[c].perm
        /\ req'[c].drop = IdsOf(S)
    BY <1>4, <1>6 DEF Request
  <1>8. Moved(c)
    BY <1>4, <1>6, <1>7, <1>2 DEF Moved
  <1>9. UNCHANGED <<users, usedIds, shared, until, tuples, updated, contended, cut>>
    BY <1>1 DEF storeVars
  <1>10. UInv' /\ rows' = rows /\ made' = made
    BY <1>1, UserUnchanged DEF SInv, STyped
  <1>11. StoreTypeOK'
    BY <1>8, <1>9, StoreTyped DEF SInv, STyped, StoreTypeOK
  <1>12. Proceeds(req'[c])
    BY <1>4, <1>7, <1>2, <1>3 DEF Proceeds, OwnSteps, FutureSteps, Swaps, Unborn, Busy
  <1>13. Beside(c) /\ ~Complete(c)'
    BY <1>7, <1>3 DEF Beside, Unborn, Complete
  <1>14. Shape' /\ StoreInv'
    BY <1>8, <1>9, <1>12, <1>13, QuietSteps DEF SInv
  <1>15. \A r \in rows : r.id \in IdsOf(S) => r.user = req[c].share
    BY <1>3 DEF IdsOf, RowsOf, SInv, STyped, UInv, Identified
  <1>16. Drops'
    <2>1. \A d \in Caller : Busy(d)' =>
             /\ \A r \in rows : r.id \in req'[d].drop => r.user = req'[d].share
             /\ req'[d].drop \subseteq 1..made
      <3>1. \A d \in Caller \ {c} : Busy(d)' => Busy(d) /\ req'[d] = req[d]
        BY <1>6 DEF Busy
      <3> QED
        BY <1>5, <1>7, <1>15, <3>1 DEF SInv, Drops
    <2> QED
      BY <1>10, <2>1 DEF Drops
  <1>17. Guard'
    <2>1. \A d \in Caller : Complete(d)' => Complete(d) /\ req'[d].share = req[d].share
      BY <1>6, <1>13 DEF Complete, Creating, Busy
    <2>2. \A u \in User : (Has(u)' <=> Has(u)) /\ (Guarded(u) => Guarded(u)')
      BY <1>9, <1>10 DEF Guarded, Has
    <2>3. shared \subseteq User
      BY DEF SInv, STyped, StoreTypeOK
    <2> QED
      BY <1>9, <2>1, <2>2, <2>3 DEF SInv, Guard
  <1> QED
    BY <1>10, <1>11, <1>14, <1>16, <1>17 DEF SInv, STyped

\* The requests that bring the rows in line with the expiry.
LEMMA GuardLater ==
  ASSUME SInv, NEW c \in Caller, Moved(c), UNCHANGED storeVars, rows \subseteq rows',
         Complete(c)' =>
            \/ Complete(c)
            \/ /\ req[c].pc = "schedule"
               /\ \/ req[c].expiry = Forever
                  \/ \E r \in rows' : r.user = req[c].share /\ r.kind = "disable" /\ r.at = req[c].expiry
  PROVE  Guard'
  <1>1. UNCHANGED <<users, usedIds, shared, until, tuples, updated, contended, cut>>
    BY DEF storeVars
  <1>2. /\ \A d \in Caller : d # c => req'[d] = req[d]
        /\ \A d \in Caller : Busy(d)' => Busy(d) /\ req'[d].op = req[d].op /\ req'[d].share = req[d].share
    BY MovedIs DEF SInv, STyped
  <1> SUFFICES ASSUME NEW u \in User, u \in shared, u \notin updated, until[u] # Forever,
                      Has(u) \/ \E d \in Caller : Complete(d)' /\ req'[d].share = u
               PROVE  \E r \in rows' : r.user = u /\ r.kind = "disable" /\ r.at = until[u]
    <2>1. shared \subseteq User
      BY DEF SInv, STyped, StoreTypeOK
    <2> QED
      BY <1>1, <2>1 DEF Guard, Guarded, Has
  <1>3. CASE Has(u) \/ \E d \in Caller : Complete(d) /\ req[d].share = u
    BY <1>3 DEF SInv, Guard, Guarded
  <1>4. CASE ~(Has(u) \/ \E d \in Caller : Complete(d) /\ req[d].share = u)
    <2>1. PICK d \in Caller : Complete(d)' /\ req'[d].share = u
      BY <1>4
    <2>2. Busy(d)' /\ req[d].share = u /\ Creating(d)
      BY <1>2, <2>1 DEF Complete, Creating
    <2>3. d = c
      BY <1>2, <1>4, <2>1, <2>2 DEF Complete, Creating
    <2>4. req[c].pc = "schedule"
      BY <1>4, <2>1, <2>2, <2>3
    <2>5. until[u] = req[c].expiry
      BY <2>2, <2>3, <2>4 DEF SInv, StoreInv, Creates, Unborn
    <2> QED
      BY <1>4, <2>1, <2>2, <2>3, <2>5
  <1> QED
    BY <1>3, <1>4

LEMMA AddRowKeeps ==
  ASSUME SInv, NEW c \in Caller, Busy(c), NEW k \in Kind, NEW at \in Time, NEW b,
         AddRow(c, k, at, b), UNCHANGED <<now, wake, up, loopVars>>, UNCHANGED storeVars,
         \/ req[c].pc = "queueEnable" /\ b = "schedule"
         \/ req[c].pc = "schedule" /\ b = "finish" /\ k = "disable" /\ at = req[c].expiry
  PROVE  SInv'
  <1>1. req[c] \in Request /\ Proceeds(req[c]) /\ req[c].share \in User
    BY BusyIs DEF SInv, STyped, Shape, Request
  <1>2. UNCHANGED <<users, usedIds, shared, until, tuples, updated, contended, cut>>
    BY DEF storeVars
  <1>3. CASE End(c) /\ UNCHANGED <<rows, made, pushes>>
    <2>1. UNCHANGED userActionVars
      BY <1>3 DEF userActionVars
    <2>2. users' \subseteq User /\ cut' \subseteq User
      BY <1>2 DEF SInv, STyped, StoreTypeOK
    <2> QED
      BY <1>2, <1>3, <2>1, <2>2, EndKeeps
  <1>4. CASE /\ InsertRow(req[c].share, k, at)
             /\ req' = [req EXCEPT ![c].pc = b, ![c].added = made + 1]
    <2> DEFINE new == [id |-> made + 1, user |-> req[c].share, kind |-> k, at |-> at, done |-> 0]
    <2>1. UInv'
      BY <1>1, <1>4, InsertKeeps DEF SInv, STyped
    <2>2. made < MaxRows /\ made' = made + 1 /\ rows' = rows \cup {new}
      BY <1>4 DEF InsertRow
    <2>3. made \in Nat /\ MaxRows \in Nat /\ made + 1 \in 0..MaxRows
      BY <2>2, RowsAssumption DEF SInv, STyped, UInv, UserActionsTypeOK
    <2>4. b \in Step
      BY DEF Step
    <2>5. /\ req' \in [Caller -> Requests] /\ req'[c] \in Request
          /\ req'[c] = [req[c] EXCEPT !.pc = b, !.added = made + 1]
          /\ \A d \in Caller \ {c} : req'[d] = req[d]
      <3>1. [req[c] EXCEPT !.pc = b, !.added = made + 1] \in Request
        BY <1>1, <2>3, <2>4 DEF Request
      <3> QED
        BY <1>4, <3>1 DEF SInv, STyped, StoreTypeOK, Requests
    <2>6. /\ req'[c].pc = b /\ req'[c].op = req[c].op /\ req'[c].share = req[c].share
          /\ req'[c].expiry = req[c].expiry /\ req'[c].perm = req[c].perm
          /\ req'[c].drop = req[c].drop
      BY <1>1, <2>5 DEF Request
    <2>7. Moved(c)
      BY <1>1, <2>5, <2>6 DEF Moved
    <2>8. StoreTypeOK'
      BY <1>2, <2>7, StoreTyped DEF SInv, STyped, StoreTypeOK
    <2>9. Proceeds(req'[c]) /\ Beside(c)
      <3>1. req[c].pc \in FutureSteps /\ req'[c].pc \in FutureSteps /\ b \notin Unborn \cup Swaps
        BY <2>6 DEF FutureSteps, Unborn, Swaps
      <3>2. req[c].pc \in OwnSteps(req[c].op) /\ req[c].expiry \in Expiry
            /\ (req[c].op = "create" => req[c].perm \in Relation)
        BY <1>1, <3>1 DEF Proceeds, FutureSteps
      <3>3. b \in OwnSteps(req'[c].op)
        BY <2>6, <3>1, <3>2 DEF OwnSteps, FutureSteps
      <3> QED
        BY <2>6, <3>1, <3>2, <3>3 DEF Proceeds, Beside, FutureSteps, Unborn
    <2>10. Shape' /\ StoreInv'
      BY <1>2, <2>7, <2>9, QuietSteps DEF SInv
    <2>11. Drops'
      <3>1. \A d \in Caller : Busy(d)' => Busy(d) /\ req'[d].drop = req[d].drop /\ req'[d].share = req[d].share
        BY <2>5, <2>6 DEF Busy
      <3>2. \A d \in Caller : Busy(d) => made + 1 \notin req[d].drop /\ req[d].drop \subseteq 1..made'
        BY <2>2, <2>3 DEF SInv, Drops
      <3> QED
        BY <2>2, <3>1, <3>2 DEF SInv, Drops
    <2>12. Guard'
      <3>1. rows \subseteq rows' /\ new \in rows'
        BY <2>2
      <3>2. Complete(c)' =>
               /\ req[c].pc = "schedule"
               /\ \E r \in rows' : r.user = req[c].share /\ r.kind = "disable" /\ r.at = req[c].expiry
        BY <2>6, <3>1 DEF Complete
      <3> QED
        BY <2>7, <3>1, <3>2, GuardLater
    <2> QED
      BY <2>1, <2>8, <2>10, <2>11, <2>12 DEF SInv, STyped
  <1> QED
    BY <1>3, <1>4 DEF AddRow

LEMMA ScheduleKeeps ==
  ASSUME SInv, NEW c \in Caller, Schedule(c)
  PROVE  SInv'
  <1>1. /\ Busy(c) /\ req[c].pc = "schedule" /\ req[c] \in Request
        /\ "schedule" \in OwnSteps(req[c].op) /\ req[c].expiry \in Expiry
        /\ (req[c].op = "create" => req[c].perm \in Relation)
    BY RequestIs DEF Schedule, Step, FutureSteps
  <1>2. UNCHANGED <<now, wake, up, loopVars>> /\ UNCHANGED storeVars
    BY DEF Schedule
  <1>3. CASE req[c].expiry # Forever /\ AddRow(c, "disable", req[c].expiry, "finish")
    <2>1. req[c].expiry \in Time /\ "disable" \in Kind
      BY <1>1, <1>3, RowsAssumption DEF Expiry, Forever, Time, Kind
    <2> QED
      BY <1>1, <1>2, <1>3, <2>1, AddRowKeeps
  <1>4. CASE /\ req[c].expiry = Forever
             /\ Goto(c, "finish")
             /\ UNCHANGED <<rows, made, pushes>>
    <2>1. /\ Moved(c) /\ req'[c].pc = "finish" /\ req'[c].drop = req[c].drop
          /\ req'[c] = [req[c] EXCEPT !.pc = "finish"]
      BY <1>1, <1>4, GotoMoves DEF SInv, STyped, Step
    <2>2. /\ req'[c].op = req[c].op /\ req'[c].share = req[c].share
          /\ req'[c].expiry = req[c].expiry /\ req'[c].perm = req[c].perm
      BY <1>1, <2>1, IdleIs DEF Moved
    <2>3. Proceeds(req'[c]) /\ Beside(c)
      BY <1>1, <2>1, <2>2 DEF Proceeds, Beside, OwnSteps, FutureSteps, Swaps, Unborn
    <2>4. UNCHANGED userActionVars
      BY <1>2, <1>4 DEF userActionVars
    <2>5. UInv' /\ rows' = rows /\ made' = made
      BY <2>4, UserUnchanged DEF SInv, STyped
    <2>6. UNCHANGED <<users, usedIds, shared, until, tuples, updated, contended, cut>>
      BY <1>2 DEF storeVars
    <2>7. StoreTypeOK'
      BY <2>1, <2>6, StoreTyped DEF SInv, STyped, StoreTypeOK
    <2>8. Shape' /\ StoreInv'
      BY <2>1, <2>3, <2>6, QuietSteps DEF SInv
    <2>9. Drops'
      <3>1. \A d \in Caller : Busy(d)' => Busy(d) /\ req'[d].drop = req[d].drop /\ req'[d].share = req[d].share
        BY <2>1, <2>2, MovedIs DEF SInv, STyped
      <3> QED
        BY <2>5, <3>1 DEF SInv, Drops
    <2>10. Guard'
      BY <1>1, <1>2, <1>4, <2>1, <2>5, GuardLater
    <2> QED
      BY <2>5, <2>7, <2>8, <2>9, <2>10 DEF SInv, STyped
  <1> QED
    BY <1>3, <1>4 DEF Schedule

LEMMA QueueEnableKeeps ==
  ASSUME SInv, NEW c \in Caller, QueueEnable(c)
  PROVE  SInv'
  <1>1. Busy(c) /\ req[c].pc = "queueEnable"
    BY RequestIs DEF QueueEnable, Step
  <1>2. now \in Time /\ "enable" \in Kind
    BY DEF SInv, STyped, UInv, UserActionsTypeOK, Scheduler!PromiseTypeOK, Time, Kind
  <1> QED
    BY <1>1, <1>2, AddRowKeeps DEF QueueEnable

LEMMA ChecksKeep ==
  ASSUME SInv, NEW c \in Caller, CheckDisabled(c) \/ Finish(c)
  PROVE  SInv'
  <1>1. UNCHANGED <<userActionVars, storeVars>>
    BY DEF CheckDisabled, Finish
  <1>2. CASE CheckDisabled(c)
    <2>1. /\ Busy(c) /\ req[c].pc = "checkDisabled" /\ "checkDisabled" \in OwnSteps(req[c].op)
          /\ req[c].expiry \in Expiry
      BY <1>2, RequestIs DEF CheckDisabled, Step, FutureSteps
    <2>2. PICK b \in {"queueEnable", "schedule"} : Goto(c, b)
      BY <1>2 DEF CheckDisabled
    <2>3. b \in OwnSteps(req[c].op)
      BY <2>1 DEF OwnSteps, FutureSteps
    <2> QED
      BY <1>1, <2>1, <2>2, <2>3, GotoKeeps DEF Step, Swaps, Unborn
  <1>3. CASE Finish(c)
    <2>1. /\ Busy(c) /\ req[c].pc = "finish" /\ req[c].expiry \in Expiry
      BY <1>3, RequestIs DEF Finish, Step, FutureSteps
    <2>2. CASE End(c)
      <3>1. UNCHANGED <<users, usedIds, shared, until, tuples, updated, contended, cut>>
        BY <1>1 DEF storeVars
      <3>2. users' \subseteq User /\ cut' \subseteq User
        BY <3>1 DEF SInv, STyped, StoreTypeOK
      <3> QED
        BY <1>1, <2>1, <2>2, <3>1, <3>2, EndKeeps
    <2>3. CASE req[c].op = "create" /\ Goto(c, "insertTuple")
      <3>1. "insertTuple" \in OwnSteps(req[c].op)
        BY <2>3 DEF OwnSteps
      <3> QED
        BY <1>1, <2>1, <2>3, <3>1, GotoKeeps DEF Step, Swaps, Unborn, FutureSteps
    <2> QED
      BY <1>3, <2>2, <2>3 DEF Finish
  <1> QED
    BY <1>2, <1>3

LEMMA RemoveListedKeeps ==
  ASSUME SInv, NEW c \in Caller, Busy(c), req[c].pc \in {"dropPending", "purge"}, RemoveListed(c),
         UNCHANGED <<now, wake, up, made, pushes, loopVars>>, UNCHANGED storeVars
  PROVE  SInv'
  <1>1. PICK i \in req[c].drop :
           \/ RemoveRow(i) /\ req' = [req EXCEPT ![c].drop = @ \ {i}]
           \/ End(c) /\ UNCHANGED rows
    BY DEF RemoveListed
  <1>2. CASE RemoveRow(i) /\ req' = [req EXCEPT ![c].drop = @ \ {i}]
    BY <1>1, <1>2, RemoveOneKeeps
  <1>3. CASE End(c) /\ UNCHANGED rows
    <2>1. UNCHANGED <<users, usedIds, shared, until, tuples, updated, contended, cut>>
      BY DEF storeVars
    <2>2. users' \subseteq User /\ cut' \subseteq User
      BY <2>1 DEF SInv, STyped, StoreTypeOK
    <2>3. UNCHANGED userActionVars
      BY <1>3 DEF userActionVars
    <2> QED
      BY <1>3, <2>1, <2>2, <2>3, EndKeeps
  <1> QED
    BY <1>1, <1>2, <1>3

LEMMA DropPendingKeeps ==
  ASSUME SInv, NEW c \in Caller, DropPending(c)
  PROVE  SInv'
  <1>1. /\ Busy(c) /\ req[c].pc = "dropPending" /\ "dropPending" \in OwnSteps(req[c].op)
        /\ req[c].expiry \in Expiry
    BY RequestIs DEF DropPending, Step, FutureSteps
  <1>2. UNCHANGED storeVars
    BY DEF DropPending
  <1>3. CASE RemoveListed(c) /\ UNCHANGED <<now, wake, up, made, pushes, loopVars>>
    BY <1>1, <1>2, <1>3, RemoveListedKeeps
  <1>4. CASE ~RemoveListed(c) \/ ~(UNCHANGED <<now, wake, up, made, pushes, loopVars>>)
    <2>1. PICK b \in {"checkDisabled", "schedule"} : Goto(c, b)
      BY <1>4 DEF DropPending
    <2>2. UNCHANGED userActionVars
      BY <1>4 DEF DropPending
    <2>3. b \in OwnSteps(req[c].op)
      BY <1>1 DEF OwnSteps, FutureSteps
    <2> QED
      BY <1>1, <1>2, <2>1, <2>2, <2>3, GotoKeeps DEF Step, Swaps, Unborn
  <1> QED
    BY <1>3, <1>4

LEMMA PurgeKeeps ==
  ASSUME SInv, NEW c \in Caller, Purge(c)
  PROVE  SInv'
  <1> PICK v \in User : v = req[c].share
    BY RequestIs DEF Purge, Step
  <1>1. Busy(c) /\ req[c].pc = "purge"
    BY RequestIs DEF Purge, Step
  <1>2. v \notin shared
    BY <1>1 DEF SInv, StoreInv, Deletes
  <1>3. /\ UNCHANGED <<now, wake, up, made, pushes, loopVars>>
        /\ UNCHANGED <<usedIds, until, tuples, updated, contended, cut>>
    BY DEF Purge
  <1>4. CASE RemoveListed(c) /\ UNCHANGED <<users, shared>>
    <2>1. UNCHANGED storeVars
      BY <1>3, <1>4 DEF storeVars
    <2> QED
      BY <1>1, <1>3, <1>4, <2>1, RemoveListedKeeps
  <1>5. CASE /\ users' = users \ {v} /\ shared' = shared \ {v}
             /\ rows' = rows \ RowsOf(v) /\ End(c)
    <2>1. Moved(c) /\ req'[c] = Idle /\ ~Busy(c)'
      BY <1>1, <1>5, EndMoves, IdleIs DEF SInv, STyped, Busy
    <2>2. Proceeds(req'[c]) /\ Beside(c)
      BY <2>1, IdleIs DEF Proceeds, Beside
    <2>3. shared' = shared
      BY <1>2, <1>5
    <2>4. UInv'
      BY <1>3, <1>5, FewerRowsKeep DEF SInv, STyped
    <2>5. StoreTypeOK'
      BY <1>3, <1>5, <2>1, <2>3, StoreTyped DEF SInv, STyped, StoreTypeOK
    <2>6. Shape' /\ StoreInv'
      BY <1>3, <2>1, <2>2, <2>3, QuietSteps DEF SInv
    <2>7. \A d \in Caller : d # c => req'[d] = req[d]
      BY <2>1 DEF Moved
    <2>8. Drops'
      <3>1. rows' \subseteq rows /\ made' = made
        BY <1>3, <1>5
      <3>2. \A d \in Caller : Busy(d)' => Busy(d) /\ req'[d] = req[d]
        BY <2>1, <2>7 DEF Busy
      <3> QED
        BY <3>1, <3>2 DEF SInv, Drops
    <2>9. Guard'
      <3>1. \A d \in Caller : Complete(d)' => Complete(d) /\ req'[d].share = req[d].share
        BY <2>1, <2>7 DEF Complete, Creating, Busy
      <3>2. \A u \in User : u # v =>
              (Has(u)' <=> Has(u)) /\ (Guarded(u) => Guarded(u)')
        BY <1>3, <1>5 DEF Guarded, Has, RowsOf
      <3>3. shared \subseteq User
        BY DEF SInv, STyped, StoreTypeOK
      <3> QED
        BY <1>2, <1>3, <2>3, <3>1, <3>2, <3>3 DEF SInv, Guard
    <2> QED
      BY <2>4, <2>5, <2>6, <2>8, <2>9 DEF SInv, STyped
  <1> QED
    BY <1>4, <1>5 DEF Purge

(* Beginnings.                                                               *)
Begun(c, v) ==
    /\ ~Busy(c) /\ Busy(c)'
    /\ req' \in [Caller -> Requests] /\ req'[c] \in Request /\ req'[c].share = v
    /\ req'[c].drop = {} /\ \A d \in Caller \ {c} : req'[d] = req[d]
    /\ contended' \subseteq User /\ contended \subseteq contended'
    /\ v \notin contended' => \A d \in Caller \ {c} : ~On(d, v)

LEMMA Begins ==
  ASSUME SInv, NEW c \in Caller, NEW v \in User, NEW name \in {"create", "update", "delete"},
         NEW e \in Expiry \cup {KeepExpiry}, NEW p \in Relation \cup {KeepPerm}, NEW a \in Step,
         Begin(c, name, v, e, p, a)
  PROVE  /\ Begun(c, v)
         /\ req'[c].op = name /\ req'[c].expiry = e /\ req'[c].perm = p /\ req'[c].pc = a
  <1> DEFINE new == [pc |-> a, op |-> name, share |-> v, expiry |-> e,
                     perm |-> p, drop |-> {}, added |-> 0]
  <1>1. /\ up /\ req[c].pc = "idle" /\ name \in Ops
        /\ req' = [req EXCEPT ![c] = new]
        /\ contended' = IF \E d \in Caller \ {c} : req[d] # Idle /\ req[d].share = v
                    THEN contended \cup {v} ELSE contended
    BY DEF Begin, At
  <1>2. new \in Request
    BY <1>1, RowsAssumption DEF Request
  <1>3. req' \in [Caller -> Requests] /\ req'[c] = new /\ \A d \in Caller \ {c} : req'[d] = req[d]
    BY <1>1, <1>2 DEF SInv, STyped, StoreTypeOK, Requests
  <1>4. ~Busy(c) /\ Busy(c)'
    BY <1>1, <1>3 DEF Busy, Step
  <1>5. contended' \subseteq User /\ contended \subseteq contended'
    BY <1>1 DEF SInv, STyped, StoreTypeOK
  <1>6. v \notin contended' => \A d \in Caller \ {c} : ~On(d, v)
    BY <1>1, BusyIs DEF On, SInv, STyped
  <1> QED
    BY <1>2, <1>3, <1>4, <1>5, <1>6 DEF Begun

\* A request that begins: what has to be sure of it.
LEMMA BegunKeeps ==
  ASSUME SInv, NEW c \in Caller, NEW v \in User, Begun(c, v), Proceeds(req'[c]),
         UNCHANGED <<userActionVars, users, usedIds, shared, until, tuples, cut>>,
         updated \subseteq updated', updated' \subseteq User,
         req'[c].op = "update" => v \in updated',
         req'[c].op = "create" => /\ v \notin usedIds /\ req'[c].pc = "insertUser"
                                  /\ \A d \in Caller : ~On(d, v),
         req'[c].op # "create" => v \in shared /\ req'[c].pc \notin {"deleteRow", "fetchActions", "purge"}
  PROVE  SInv'
  <1>1. /\ ~Busy(c) /\ Busy(c)' /\ req'[c].share = v /\ req'[c].drop = {}
        /\ \A d \in Caller \ {c} : req'[d] = req[d]
    BY DEF Begun
  <1>2. \A d \in Caller \ {c} : /\ Busy(d)' <=> Busy(d)
                                /\ Creating(d)' <=> Creating(d)
                                /\ Complete(d)' <=> Complete(d)
                                /\ \A u \in User : On(d, u)' <=> On(d, u)
    BY <1>1 DEF Busy, Creating, Complete, On
  <1>3. \A u \in User : Has(u)' <=> Has(u)
    BY DEF Has
  <1>4. \A d \in Caller : Busy(d) => req[d].share \in User
    BY BusyIs DEF SInv, STyped, Request
  <1>5. UInv' /\ rows' = rows /\ made' = made
    BY UserUnchanged DEF SInv, STyped
  <1>6. StoreTypeOK'
    BY DEF SInv, STyped, StoreTypeOK, Begun
  <1>7. Shape'
    BY <1>1, <1>2 DEF SInv, STyped, Shape
  <1>8. req'[c].op = "create" => v \notin shared /\ ~Has(v)
    BY DEF SInv, StoreInv, Used
  <1>9. v \in usedIds \/ req'[c].op = "create"
    BY DEF SInv, StoreInv, Used
  <1>10. Fresh'
    <2> SUFFICES ASSUME NEW d \in Caller, Creating(d)', req'[d].pc \in Unborn, NEW w \in User, w = req'[d].share
                 PROVE  w \notin shared /\ ~Has(w) /\ \A e \in Caller \ {d} : ~On(e, w)'
      BY <1>1, <1>2, <1>3, <1>4 DEF Fresh, Creating
    <2>1. CASE d = c
      BY <1>1, <1>2, <1>8, <2>1 DEF Creating
    <2>2. CASE d # c
      <3>1. /\ w \notin shared /\ ~Has(w) /\ On(d, w)
            /\ \A e \in Caller \ {d} : ~On(e, w)
        BY <1>1, <1>2, <2>2 DEF SInv, StoreInv, Fresh, On, Creating
      <3>2. w # v
        BY <3>1
      <3>3. ~On(c, w)'
        BY <1>1, <3>2 DEF On
      <3> QED
        BY <1>2, <3>1, <3>3
    <2> QED
      BY <2>1, <2>2
  <1>11. Used'
    <2> SUFFICES ASSUME NEW u \in User, u \notin usedIds
                 PROVE  /\ u \notin shared /\ ~Has(u)
                        /\ \A d \in Caller : On(d, u)' => req'[d].op = "create" /\ req'[d].pc = "insertUser"
      BY <1>3 DEF Used
    <2>1. /\ u \notin shared /\ ~Has(u)
          /\ \A d \in Caller : On(d, u) => req[d].op = "create" /\ req[d].pc = "insertUser"
      BY DEF SInv, StoreInv, Used
    <2>2. On(c, u)' => req'[c].op = "create" /\ req'[c].pc = "insertUser"
      BY <1>1, <2>1 DEF On
    <2> QED
      BY <1>1, <1>2, <2>1, <2>2
  <1>12. Creates'
    <2> SUFFICES ASSUME NEW d \in Caller, Creating(d)', NEW w \in User, w = req'[d].share
                 PROVE  /\ \A e \in Caller \ {d} : Creating(e)' => req'[e].share # w
                        /\ w \notin updated => /\ ~Has(w)
                                               /\ req'[d].pc \notin Unborn => until[w] = req'[d].expiry
      BY <1>1, <1>2, <1>3, <1>4 DEF Creates, Creating
    <2>1. CASE d = c
      <3>1. /\ ~Has(v) /\ w = v /\ req'[c].pc \in Unborn
            /\ \A e \in Caller : ~On(e, v)
        BY <1>1, <1>8, <2>1 DEF Creating, Unborn
      <3> QED
        BY <1>1, <1>2, <2>1, <3>1 DEF On, Creating
    <2>2. CASE d # c
      <3>1. /\ On(d, w) /\ Creating(d) /\ req'[d] = req[d] /\ w = req[d].share
        BY <1>1, <1>2, <2>2 DEF On, Creating
      <3>2. /\ \A e \in Caller \ {d} : Creating(e) => req[e].share # w
            /\ w \notin updated => /\ ~Has(w)
                                   /\ req[d].pc \notin Unborn => until[w] = req[d].expiry
        BY <3>1 DEF SInv, StoreInv, Creates
      <3>3. Creating(c)' => w # v
        BY <3>1 DEF Creating
      <3> QED
        BY <1>1, <1>2, <3>1, <3>2, <3>3
    <2> QED
      BY <2>1, <2>2
  <1>13. Deletes'
    BY <1>1, <1>7 DEF SInv, StoreInv, Deletes
  <1>14. Alone'
    <2> SUFFICES ASSUME NEW u \in User, u \notin contended', NEW d \in Caller, NEW e \in Caller, On(d, u)', On(e, u)'
                 PROVE  d = e
      BY DEF Alone
    <2>1. u \notin contended
      BY DEF Begun
    <2>2. \A b \in Caller \ {c} : On(b, u)' => u # v
      BY <1>2 DEF Begun
    <2>3. On(c, u)' => u = v
      BY <1>1 DEF On
    <2> QED
      BY <1>2, <2>1, <2>2, <2>3 DEF SInv, StoreInv, Alone
  <1>15. Backed'
    <2> SUFFICES ASSUME NEW u \in User, u \notin contended'
                 PROVE  /\ Has(u) => u \in shared
                        /\ \A d \in Caller : On(d, u)' =>
                              /\ req'[d].op = "create" /\ req'[d].pc \notin Unborn => u \in shared
                              /\ req'[d].op = "update" => u \in shared
                              /\ req'[d].pc \in {"deleteRow", "fetchActions", "purge"} => ~Has(u)
      BY <1>3 DEF Backed
    <2>1. u \notin contended
      BY DEF Begun
    <2>2. On(c, u)' => u = v
      BY <1>1 DEF On
    <2> QED
      BY <1>1, <1>2, <2>1, <2>2 DEF SInv, StoreInv, Backed, Unborn
  <1>16. Drops'
    BY <1>1, <1>2, <1>5 DEF SInv, Drops
  <1>17. Guard'
    <2>1. ~Complete(c)'
      <3>1. req'[c].op = "create" => req'[c].pc = "insertUser"
        OBVIOUS
      <3> QED
        BY <3>1 DEF Complete, Creating
    <2>2. \A d \in Caller : Complete(d)' => Complete(d) /\ req'[d].share = req[d].share
      BY <1>1, <1>2, <2>1
    <2>3. \A u \in User : Guarded(u) => Guarded(u)'
      BY <1>5 DEF Guarded
    <2>4. shared \subseteq User
      BY DEF SInv, STyped, StoreTypeOK
    <2> QED
      BY <1>3, <2>2, <2>3, <2>4 DEF SInv, Guard
  <1> QED
    BY <1>5, <1>6, <1>7, <1>10, <1>11, <1>12, <1>13, <1>14, <1>15, <1>16, <1>17
       DEF SInv, STyped, StoreInv

LEMMA BeginsKeep ==
  ASSUME SInv, NEW c \in Caller, BeginRequest(c)
  PROVE  SInv'
  <1>1. CASE \E u \in User, e \in Expiry, p \in Relation : BeginCreate(c, u, e, p)
    <2>1. PICK v \in User, e \in Expiry, p \in Relation : BeginCreate(c, v, e, p)
      BY <1>1
    <2>2. /\ up /\ v \notin usedIds
          /\ \A d \in Caller : At(d, "insertUser") => req[d].share # v
          /\ Begin(c, "create", v, e, p, "insertUser")
          /\ UNCHANGED <<userActionVars, users, usedIds, shared, until, tuples, updated, cut>>
      BY <2>1 DEF BeginCreate, Begin, At
    <2>3. /\ Begun(c, v)
          /\ req'[c].op = "create" /\ req'[c].expiry = e /\ req'[c].perm = p /\ req'[c].pc = "insertUser"
      BY <2>2, Begins DEF Step
    <2>4. Proceeds(req'[c])
      BY <2>3 DEF Proceeds, OwnSteps, Unborn
    <2>5. \A d \in Caller : ~On(d, v)
      BY <2>2 DEF SInv, StoreInv, Used, At, On
    <2>6. updated' \subseteq User
      BY <2>2 DEF SInv, STyped, StoreTypeOK
    <2> QED
      BY <2>2, <2>3, <2>4, <2>5, <2>6, BegunKeeps
  <1>2. CASE \E u \in User, e \in Expiry \cup {KeepExpiry}, p \in Relation \cup {KeepPerm} : BeginUpdate(c, u, e, p)
    <2>1. PICK v \in User, e \in Expiry \cup {KeepExpiry}, p \in Relation \cup {KeepPerm} : BeginUpdate(c, v, e, p)
      BY <1>2
    <2>2. PICK a \in {"updateRow", "dropReader"} :
            (a = "dropReader" => p \in Relation) /\ Begin(c, "update", v, e, p, a)
      BY <2>1 DEF BeginUpdate
    <2>3. /\ v \in shared /\ updated' = updated \cup {v}
          /\ UNCHANGED <<userActionVars, users, usedIds, shared, until, tuples, cut>>
      BY <2>1 DEF BeginUpdate
    <2>4. /\ Begun(c, v)
          /\ req'[c].op = "update" /\ req'[c].expiry = e /\ req'[c].perm = p /\ req'[c].pc = a
      BY <2>2, Begins DEF Step
    <2>5. Proceeds(req'[c])
      BY <2>2, <2>4 DEF Proceeds, OwnSteps, FutureSteps, Swaps
    <2>6. updated' \subseteq User
      BY <2>3 DEF SInv, STyped, StoreTypeOK
    <2> QED
      BY <2>3, <2>4, <2>5, <2>6, BegunKeeps
  <1>3. CASE \E u \in User : BeginDelete(c, u)
    <2>1. PICK v \in User : BeginDelete(c, v)
      BY <1>3
    <2>2. /\ v \in shared /\ Begin(c, "delete", v, KeepExpiry, KeepPerm, "deleteTuples")
          /\ UNCHANGED <<userActionVars, users, usedIds, shared, until, tuples, updated, cut>>
      BY <2>1 DEF BeginDelete
    <2>3. /\ Begun(c, v)
          /\ req'[c].op = "delete" /\ req'[c].pc = "deleteTuples"
      BY <2>2, Begins DEF Step
    <2>4. Proceeds(req'[c])
      BY <2>3 DEF Proceeds, OwnSteps, FutureSteps, Swaps
    <2>5. updated' \subseteq User
      BY <2>2 DEF SInv, STyped, StoreTypeOK
    <2> QED
      BY <2>2, <2>3, <2>4, <2>5, BegunKeeps
  <1> QED
    BY <1>1, <1>2, <1>3 DEF BeginRequest

LEMMA CrashKeeps == SInv /\ ServiceCrash => SInv'
  <1> SUFFICES ASSUME SInv, ServiceCrash PROVE SInv'
    OBVIOUS
  <1>1. \A c \in Caller : req'[c] = Idle /\ req'[c].pc = "idle"
    BY IdleIs DEF ServiceCrash
  <1>2. UNCHANGED <<users, usedIds, shared, until, tuples, updated, contended>>
    BY DEF ServiceCrash
  <1>3. rows' = rows
    BY DEF ServiceCrash, Crash
  <1>4. UInv'
    BY ServiceKeeps DEF ServiceCrash, SInv, STyped
  <1>5. \A d \in Caller : req[d] # Idle => req[d].share \in User
    BY BusyIs DEF SInv, STyped, Request
  <1>6. StoreTypeOK'
    <2>1. cut' \subseteq User
      BY <1>5 DEF ServiceCrash, SInv, STyped, StoreTypeOK
    <2>2. req' \in [Caller -> Requests]
      BY DEF ServiceCrash, Requests
    <2> QED
      BY <1>2, <2>1, <2>2 DEF SInv, STyped, StoreTypeOK
  <1>7. Shape'
    BY <1>1 DEF Shape, Proceeds, Busy
  <1>8. \A u \in User : (Has(u)' <=> Has(u)) /\ (Guarded(u) => Guarded(u)')
    BY <1>2, <1>3 DEF Has, Guarded
  <1>9. Fresh' /\ Creates' /\ Deletes' /\ Alone' /\ Drops'
    BY <1>1 DEF Fresh, Creates, Deletes, Alone, Drops, Creating, Busy, On
  <1>10. Used' /\ Backed'
    BY <1>1, <1>2, <1>8 DEF SInv, StoreInv, Used, Backed, On, Busy
  <1>11. Guard'
    <2>1. \A d \in Caller : ~Complete(d)'
      BY <1>1 DEF Complete, Creating, Busy
    <2>2. shared \subseteq User
      BY DEF SInv, STyped, StoreTypeOK
    <2> QED
      BY <1>2, <1>8, <2>1, <2>2 DEF SInv, Guard
  <1> QED
    BY <1>4, <1>6, <1>7, <1>9, <1>10, <1>11 DEF SInv, STyped, StoreInv

LEMMA SameStores ==
  ASSUME StoreInv, UNCHANGED <<usedIds, shared, until, tuples, updated, contended, req>>
  PROVE  StoreInv'
  <1>1. Fresh' /\ Used'
    BY DEF StoreInv, Fresh, Used, Has, On, Creating, Busy
  <1>2. Creates' /\ Deletes'
    BY DEF StoreInv, Creates, Deletes, Has, Creating, Busy
  <1>3. Alone'
    BY DEF StoreInv, Alone, On, Busy
  <1>4. Backed'
    BY DEF StoreInv, Backed, Has, On, Busy
  <1> QED
    BY <1>1, <1>2, <1>3, <1>4 DEF StoreInv

LEMMA BackgroundKeeps == SInv /\ Background => SInv'
  <1> SUFFICES ASSUME SInv, Background PROVE SInv'
    OBVIOUS
  <1>1. UInv' /\ UNCHANGED <<users, usedIds, shared, until, tuples, updated, contended, cut, req>>
    BY UserActionsStep DEF Background, UserActionsNext, SInv, STyped, storeVars
  <1>2. made' = made
    BY DEF Background, PushStep, ProcessStep, MaybeWake, SeedKind, CallRun, Ask, FetchDue,
           MarkExecuted, Boot, Tick
  <1>3. RowsStay
    <2>1. CASE rows' = rows
      BY <2>1 DEF RowsStay
    <2>2. CASE \E i \in 1..MaxRows : MarkExecuted(i)
      <3>1. PICK i \in 1..MaxRows : MarkExecuted(i)
        BY <2>2
      <3>2. CASE rows' = {IF r.id = i THEN [r EXCEPT !.done = stamp] ELSE r : r \in rows}
        <4>1. \A r \in rows : LET s == IF r.id = i THEN [r EXCEPT !.done = stamp] ELSE r
                              IN s.id = r.id /\ s.user = r.user /\ s.kind = r.kind /\ s.at = r.at
          BY DEF SInv, STyped, UInv, UserActionsTypeOK, Row
        <4> QED
          BY <3>2, <4>1 DEF RowsStay
      <3> QED
        BY <2>1, <3>1, <3>2 DEF MarkExecuted
    <2> QED
      BY <2>1, <2>2 DEF Background, PushStep, ProcessStep, MaybeWake, SeedKind, CallRun, Ask,
                        FetchDue, Boot, Tick
  <1>4. StoreTypeOK' /\ Shape'
    BY <1>1 DEF SInv, STyped, StoreTypeOK, Shape, Proceeds, Busy
  <1>5. \A u \in User : (Has(u)' <=> Has(u)) /\ (Guarded(u) => Guarded(u)')
    BY <1>1, <1>3 DEF Has, Guarded, RowsStay
  <1>6. \A d \in Caller : /\ Busy(d)' <=> Busy(d)
                          /\ Creating(d)' <=> Creating(d)
                          /\ Complete(d)' <=> Complete(d)
                          /\ \A u \in User : On(d, u)' <=> On(d, u)
    BY <1>1 DEF Busy, Creating, Complete, On
  <1>7. StoreInv'
    BY <1>1, SameStores DEF SInv
  <1>8. Drops'
    BY <1>1, <1>2, <1>3, <1>6 DEF SInv, Drops, RowsStay
  <1>9. Guard'
    <2>1. shared \subseteq User
      BY DEF SInv, STyped, StoreTypeOK
    <2> QED
      BY <1>1, <1>5, <1>6, <2>1 DEF SInv, Guard
  <1> QED
    BY <1>1, <1>4, <1>7, <1>8, <1>9 DEF SInv, STyped

LEMMA ShareStep == SInv /\ [ShareNext]_shareVars => SInv'
  <1> SUFFICES ASSUME SInv, [ShareNext]_shareVars PROVE SInv'
    OBVIOUS
  <1>1. ASSUME NEW c \in Caller, Continue(c) PROVE SInv'
    BY <1>1, InsertUserKeeps, InsertShareKeeps, InsertTupleKeeps, SwapTupleKeeps, UpdateRowKeeps,
       FetchesKeep, DropPendingKeeps, ChecksKeep, QueueEnableKeeps, ScheduleKeeps,
       DeleteTuplesKeeps, DeleteRowKeeps, PurgeKeeps DEF Continue
  <1>2. CASE UNCHANGED shareVars
    <2>1. UNCHANGED <<userActionVars, users, usedIds, shared, until, tuples, updated, contended, cut, req>>
      BY <1>2 DEF shareVars, storeVars
    <2>2. UInv' /\ rows' = rows /\ made' = made
      BY <2>1, UserUnchanged DEF SInv, STyped
    <2>3. StoreTypeOK' /\ Shape'
      BY <2>1 DEF SInv, STyped, StoreTypeOK, Shape, Proceeds, Busy
    <2>4. StoreInv'
      BY <2>1, SameStores DEF SInv
    <2>5. Drops' /\ Guard'
      BY <2>1, <2>2 DEF SInv, Drops, Guard, Guarded, Complete, Has, Creating, Busy
    <2> QED
      BY <2>2, <2>3, <2>4, <2>5 DEF SInv, STyped
  <1> QED
    BY <1>1, <1>2, BeginsKeep, FailKeeps, BackgroundKeeps, CrashKeeps DEF ShareNext

LEMMA ShareAlways == ShareSpec => []SInv
  BY SInit, ShareStep, PTL DEF ShareSpec

(* Tables, tuples, rows and requests are well typed in every reachable state. *)
THEOREM ShareTyped == ShareSpec => []ShareTypeOK
  <1>1. SInv => ShareTypeOK
    BY DEF SInv, STyped, UInv, StoreTypeOK, ShareTypeOK, Requests
  <1> QED
    BY <1>1, ShareAlways, PTL

(* A relation of a share on the note has a share row to revoke it by, unless *)
(* two requests were at the share at once (services/sharing.py): whatever    *)
(* fails or dies between two statements of creation or deletion.             *)
THEOREM TupleAlwaysHasShare == ShareSpec => []TupleHasShare
  <1>1. SInv => TupleHasShare
    BY HasIs DEF SInv, STyped, StoreInv, Backed, TupleHasShare
  <1> QED
    BY <1>1, ShareAlways, PTL

(* A share no update was asked for lets somebody in only once the disable    *)
(* for its expiry is in the table (sharing/share_action_facade.py,           *)
(* create_share): with any number of other requests, failures and restarts.  *)
THEOREM AccessAlwaysGuarded == ShareSpec => []GuardedAccess
  <1>1. SInv => GuardedAccess
    <2> SUFFICES ASSUME SInv, NEW u \in shared \ updated, TuplesOf(u) # {}, until[u] # Forever
                 PROVE  \E r \in RowsOf(u) : r.kind = "disable" /\ r.at = until[u]
      BY DEF GuardedAccess
    <2>1. u \in User
      BY DEF SInv, STyped, StoreTypeOK
    <2>2. Has(u)
      BY <2>1, HasIs DEF SInv, STyped
    <2>3. Guarded(u)
      BY <2>2 DEF SInv, Guard
    <2> QED
      BY <2>3 DEF Guarded, RowsOf
  <1> QED
    BY <1>1, ShareAlways, PTL

(* What the requests do to the rows of user_action: they add rows with new *)
(* ids, and remove.                                                        *)
LEMMA InsertMarks ==
  ASSUME UInv, NEW u, NEW k, NEW at, InsertRow(u, k, at)
  PROVE  Marks
  <1>1. PICK new : new.id = made + 1 /\ rows' = rows \cup {new}
    BY DEF InsertRow
  <1>2. \A r \in rows : r.id # made + 1
    BY DEF UInv, UserActionsTypeOK, Identified
  <1> QED
    BY <1>1, <1>2 DEF UInv, Identified, Marks

LEMMA RequestMarks ==
  ASSUME UInv, NEW c \in Caller, BeginRequest(c) \/ Continue(c) \/ Fail(c)
  PROVE  Marks
  <1>1. CASE rows' \subseteq rows
    BY <1>1 DEF UInv, Identified, Marks
  <1>2. CASE \E u, k, at : InsertRow(u, k, at)
    BY <1>2, InsertMarks
  <1>3. BeginRequest(c) \/ Fail(c) => rows' = rows
    BY DEF BeginRequest, BeginCreate, BeginUpdate, BeginDelete, Fail, userActionVars
  <1>4. CASE QueueEnable(c) \/ Schedule(c)
    BY <1>1, <1>2, <1>4 DEF QueueEnable, Schedule, AddRow
  <1>5. CASE DropPending(c) \/ Purge(c)
    BY <1>1, <1>5 DEF DropPending, Purge, RemoveListed, RemoveRow, userActionVars
  <1>6. CASE Continue(c) /\ ~(QueueEnable(c) \/ Schedule(c) \/ DropPending(c) \/ Purge(c))
    BY <1>1, <1>6 DEF Continue, InsertUser, InsertShare, InsertTuple, SwapTuple, UpdateRow,
       FetchPending, CheckDisabled, Finish, DeleteTuples, DeleteRow, FetchActions, userActionVars
  <1> QED
    BY <1>1, <1>3, <1>4, <1>5, <1>6

(* What the processes promise their clients (processes/_base.py, run) they   *)
(* keep with the share requests as clients, who add and remove rows in the   *)
(* middle of a run, and drop a user's rows with the user: no action of a     *)
(* share is executed early or twice, or changed otherwise.                   *)
THEOREM ShareActionsOnTimeOnce == ShareSpec => ExecutesOnTimeOnce
  <1>1. SInv /\ [ShareNext]_shareVars => [Marks]_userActionVars
    <2> SUFFICES ASSUME SInv, [ShareNext]_shareVars PROVE [Marks]_userActionVars
      OBVIOUS
    <2>1. UInv
      BY DEF SInv, STyped
    <2>2. CASE UNCHANGED shareVars
      BY <2>2 DEF shareVars
    <2>3. CASE \E c \in Caller : BeginRequest(c) \/ Continue(c) \/ Fail(c)
      BY <2>1, <2>3, RequestMarks
    <2>4. CASE Background \/ ServiceCrash
      BY <2>1, <2>4, UserActionsStep DEF Background, ServiceCrash, UserActionsNext
    <2> QED
      BY <2>2, <2>3, <2>4 DEF ShareNext
  <1>2. ShareSpec => [][Marks]_userActionVars
    BY <1>1, ShareAlways, PTL DEF ShareSpec
  <1> QED
    BY <1>2 DEF ExecutesOnTimeOnce, Marks

(***************************************************************************)
(* The pending disable of a share agrees with its expiry, between the      *)
(* requests about it.  What is said of a share only one request at a time  *)
(* was at, none of them cut short: while a request replaces its disable,   *)
(* the pending ones are listed, dropped, none, and then the new one.       *)
(***************************************************************************)

Reconciled(u) ==
    \/ PendingDisables(u) = {} /\ until[u] = Forever
    \/ /\ until[u] # Forever
       /\ \E r \in RowsOf(u) : /\ r.kind = "disable" /\ r.at = until[u]
                               /\ PendingDisables(u) \subseteq {r}

\* What a request at u has seen to.
Stage(r, u) ==
    /\ r.pc \in Swaps \cup {"updateRow", "finish", "insertTuple"} => Reconciled(u)
    /\ r.pc \in FutureSteps => until[u] = r.expiry
    /\ r.pc = "dropPending" =>
          /\ \A s \in PendingDisables(u) : s.id \in r.drop
          /\ \A i \in r.drop : \E s \in RowsOf(u) : s.id = i
    /\ r.pc \in {"checkDisabled", "queueEnable", "schedule"} => PendingDisables(u) = {}

Tidy(u) ==
    /\ u \in shared /\ (\A c \in Caller : ~On(c, u)) => Reconciled(u)
    /\ \A c \in Caller : On(c, u) => Stage(req[c], u)

Tidied == \A u \in User \ (contended \cup cut) : Tidy(u)

\* A share has its user.
Homes == shared \subseteq users /\ \A c \in Caller : req[c].pc = "insertShare" => req[c].share \in users

TInv == SInv /\ Homes /\ Tidied

\* Rows of u are only marked, and no other are pending.
OnlyMarked(u) ==
    /\ PendingDisables(u)' \subseteq PendingDisables(u)
    /\ \A r \in RowsOf(u) : \E s \in RowsOf(u)' : s.id = r.id /\ s.kind = r.kind /\ s.at = r.at

LEMMA ReconciledStays ==
  ASSUME NEW u, Reconciled(u), OnlyMarked(u), until'[u] = until[u]
  PROVE  Reconciled(u)'
  <1>1. CASE PendingDisables(u) = {} /\ until[u] = Forever
    BY <1>1 DEF Reconciled, OnlyMarked, Forever
  <1>2. CASE /\ until[u] # Forever
             /\ \E r \in RowsOf(u) : /\ r.kind = "disable" /\ r.at = until[u]
                                     /\ PendingDisables(u) \subseteq {r}
    <2>1. PICK r \in RowsOf(u) : /\ r.kind = "disable" /\ r.at = until[u]
                                 /\ PendingDisables(u) \subseteq {r}
      BY <1>2
    <2>2. PICK s \in RowsOf(u)' : s.id = r.id /\ s.kind = r.kind /\ s.at = r.at
      BY DEF OnlyMarked
    <2>3. until'[u] # Forever' /\ s.kind = "disable" /\ s.at = until'[u] /\ r.at = until'[u]
      BY <1>2, <2>1, <2>2 DEF Forever
    <2>4. CASE PendingDisables(u)' = {}
      BY <2>2, <2>3, <2>4 DEF Reconciled
    <2>5. CASE PendingDisables(u)' = {r}
      <3>1. r \in RowsOf(u)'
        BY <2>5 DEF PendingDisables
      <3> QED
        BY <2>1, <2>3, <2>5, <3>1 DEF Reconciled
    <2> QED
      BY <2>1, <2>4, <2>5 DEF OnlyMarked
  <1> QED
    BY <1>1, <1>2 DEF Reconciled

\* Of a share whose requests do not move, and whose rows are only marked, the same
\* holds as before.
LEMMA TidyApart ==
  ASSUME NEW u, Tidy(u), OnlyMarked(u), until'[u] = until[u], u \in shared' => u \in shared,
         \A d \in Caller : On(d, u) => On(d, u)',
         \A d \in Caller : On(d, u)' => On(d, u) /\ req'[d] = req[d]
  PROVE  Tidy(u)'
  <1>1. Reconciled(u) => Reconciled(u)'
    BY ReconciledStays
  <1>2. \A d \in Caller : On(d, u)' => Stage(req[d], u)'
    <2> SUFFICES ASSUME NEW d \in Caller, On(d, u)' PROVE Stage(req[d], u)'
      OBVIOUS
    <2>1. Stage(req[d], u) /\ req'[d] = req[d]
      BY DEF Tidy
    <2> QED
      BY <1>1, <2>1 DEF Stage, OnlyMarked
  <1>3. u \in shared' /\ (\A c \in Caller : ~On(c, u)') => Reconciled(u)'
    BY <1>1 DEF Tidy
  <1> QED
    BY <1>2, <1>3 DEF Tidy

LEMMA SameRows ==
  ASSUME NEW u, RowsOf(u)' = RowsOf(u)
  PROVE  OnlyMarked(u) /\ PendingDisables(u)' = PendingDisables(u)
  <1>1. \A k, r : r \in PendingDisables(u) <=> r \in RowsOf(u) /\ r.kind = "disable" /\ r.done = 0
    BY DEF PendingDisables, PendingOf, RowsOf, IsPending
  <1>2. \A k, r : r \in PendingDisables(u)' <=> r \in RowsOf(u)' /\ r.kind = "disable" /\ r.done = 0
    BY DEF PendingDisables, PendingOf, RowsOf, IsPending
  <1>3. PendingDisables(u)' = PendingDisables(u)
    BY <1>1, <1>2
  <1> QED
    BY <1>3 DEF OnlyMarked

\* A step of one request: the shares it is not about stay as they are, and of its own
\* share it has to see to what is said there.
LEMMA TidyStep ==
  ASSUME SInv, Tidied, NEW c \in Caller, Moved(c), NEW v \in User, v = req[c].share,
         contended' = contended, cut \subseteq cut',
         \A u \in User \ {v} :
            RowsOf(u)' = RowsOf(u) /\ until'[u] = until[u] /\ (u \in shared' => u \in shared),
         v \notin contended \cup cut' =>
            /\ ~Busy(c)' /\ v \in shared' => Reconciled(v)'
            /\ Busy(c)' => Stage(req[c], v)'
  PROVE  Tidied'
  <1>1. /\ \A d \in Caller : d # c => req'[d] = req[d]
        /\ \A d \in Caller : Busy(d)' => Busy(d) /\ req'[d].share = req[d].share
    BY MovedIs DEF SInv, STyped
  <1>2. SUFFICES ASSUME NEW u \in User, u \notin contended, u \notin cut' PROVE Tidy(u)'
    BY DEF Tidied
  <1>3. CASE u # v
    <2>1. Tidy(u)
      BY <1>2 DEF Tidied
    <2>2. OnlyMarked(u)
      BY <1>3, SameRows
    <2>3. \A d \in Caller : On(d, u) => On(d, u)'
      BY <1>1, <1>3 DEF On, Busy
    <2>4. \A d \in Caller : On(d, u)' => On(d, u) /\ req'[d] = req[d]
      BY <1>1, <1>3 DEF On
    <2> QED
      BY <1>3, <2>1, <2>2, <2>3, <2>4, TidyApart
  <1>4. CASE u = v
    <2>1. On(c, v)
      BY DEF On, Moved
    <2>2. \A d \in Caller : On(d, v) => d = c
      BY <1>2, <1>4, <2>1 DEF SInv, StoreInv, Alone
    <2>3. \A d \in Caller : On(d, v)' => d = c /\ Busy(c)'
      BY <1>1, <2>2 DEF On
    <2>4. Busy(c)' => On(c, v)'
      BY <1>1 DEF On
    <2>5. v \notin contended \cup cut'
      BY <1>2, <1>4
    <2>6. \A d \in Caller : On(d, v)' => Stage(req[d], v)'
      BY <2>3, <2>5
    <2>7. v \in shared' /\ (\A d \in Caller : ~On(d, v)') => Reconciled(v)'
      BY <2>4, <2>5
    <2> QED
      BY <1>4, <2>6, <2>7 DEF Tidy
  <1> QED
    BY <1>3, <1>4

\* What a step of a request starts from.
LEMMA StageIs ==
  ASSUME SInv, Tidied, NEW c \in Caller, NEW a \in Step, At(c, a)
  PROVE  /\ Busy(c) /\ req[c].pc = a /\ req[c] \in Request /\ req[c].share \in User
         /\ a \in OwnSteps(req[c].op)
         /\ req[c].share \notin contended \cup cut => Stage(req[c], req[c].share)
         /\ req[c].share \notin contended =>
               /\ a \in FutureSteps \cup Swaps \cup {"updateRow", "insertTuple"} => req[c].share \in shared
  <1>1. /\ Busy(c) /\ req[c].pc = a /\ req[c] \in Request /\ req[c].share \in User
        /\ a \in OwnSteps(req[c].op) /\ On(c, req[c].share)
    BY RequestIs DEF On
  <1>2. req[c].share \notin contended \cup cut => Stage(req[c], req[c].share)
    BY <1>1 DEF Tidied, Tidy
  <1>3. ASSUME req[c].share \notin contended,
               a \in FutureSteps \cup Swaps \cup {"updateRow", "insertTuple"}
        PROVE  req[c].share \in shared
    <2>1. req[c].op \in {"create", "update"} /\ req[c].pc \notin Unborn
      BY <1>1, <1>3 DEF OwnSteps, FutureSteps, Swaps, Unborn, Request
    <2> QED
      BY <1>1, <1>3, <2>1 DEF SInv, StoreInv, Backed
  <1> QED
    BY <1>1, <1>2, <1>3

\* Steps that change no action row and no expiry.
LEMMA TidyQuiet ==
  ASSUME SInv, Tidied, NEW c \in Caller, Moved(c), NEW v \in User, v = req[c].share,
         contended' = contended, cut \subseteq cut', rows' = rows, until' = until,
         \A u \in User \ {v} : u \in shared' => u \in shared,
         v \notin contended \cup cut' =>
            /\ ~Busy(c)' /\ v \in shared' => Reconciled(v)
            /\ Busy(c)' =>
                  /\ req'[c].pc \in Swaps \cup {"updateRow", "finish", "insertTuple"} => Reconciled(v)
                  /\ req'[c].pc \in FutureSteps => until[v] = req'[c].expiry
                  /\ req'[c].pc = "dropPending" =>
                        /\ \A s \in PendingDisables(v) : s.id \in req'[c].drop
                        /\ \A i \in req'[c].drop : \E s \in RowsOf(v) : s.id = i
                  /\ req'[c].pc \in {"checkDisabled", "queueEnable", "schedule"} => PendingDisables(v) = {}
  PROVE  Tidied'
  <1>1. \A u \in User : RowsOf(u)' = RowsOf(u)
    BY DEF RowsOf
  <1>2. PendingDisables(v)' = PendingDisables(v) /\ RowsOf(v)' = RowsOf(v) /\ OnlyMarked(v)
    BY <1>1, SameRows
  <1>3. Reconciled(v) => Reconciled(v)'
    BY <1>2, ReconciledStays
  <1>4. Forever' = Forever
    BY DEF Forever
  <1>5. ASSUME v \notin contended \cup cut', Busy(c)' PROVE Stage(req[c], v)'
    BY <1>2, <1>3, <1>5 DEF Stage
  <1>6. v \notin contended \cup cut' => (~Busy(c)' /\ v \in shared' => Reconciled(v)')
    BY <1>3
  <1> QED
    BY <1>1, <1>5, <1>6, TidyStep

\* A request that goes on with its arguments.
LEMMA GoesOn ==
  ASSUME SInv, NEW c \in Caller, Busy(c), NEW b \in Step, Goto(c, b)
  PROVE  /\ Moved(c) /\ Busy(c)' /\ req'[c].pc = b /\ req'[c].drop = req[c].drop
         /\ req'[c].expiry = req[c].expiry /\ req'[c].share = req[c].share
  <1>1. /\ Moved(c) /\ req'[c] = [req[c] EXCEPT !.pc = b]
        /\ req'[c].pc = b /\ req'[c].drop = req[c].drop
    BY GotoMoves DEF SInv, STyped
  <1> QED
    BY <1>1, IdleIs DEF Moved, Busy, Step

LEMMA GivesUp ==
  ASSUME SInv, NEW c \in Caller, Busy(c), End(c)
  PROVE  Moved(c) /\ req'[c] = Idle /\ ~Busy(c)'
  BY EndMoves, IdleIs DEF SInv, STyped, Busy

LEMMA CreationTidy ==
  ASSUME SInv, Tidied, NEW c \in Caller, InsertUser(c) \/ InsertShare(c) \/ InsertTuple(c)
  PROVE  Tidied'
  <1>1. CASE InsertUser(c)
    <2>1. /\ Busy(c) /\ req[c].pc = "insertUser" /\ req[c].share \in User
      BY <1>1, StageIs DEF InsertUser, Step
    <2>2. Moved(c) /\ Busy(c)' /\ req'[c].pc = "insertShare"
      BY <1>1, <2>1, GoesOn DEF InsertUser, Step
    <2>3. UNCHANGED <<rows, until, shared, contended, cut>>
      BY <1>1 DEF InsertUser, userActionVars
    <2> QED
      BY <2>1, <2>2, <2>3, TidyQuiet DEF Swaps, FutureSteps
  <1>2. CASE InsertShare(c)
    <2> PICK v \in User : v = req[c].share
      BY <1>2, StageIs DEF InsertShare, Step
    <2>1. Busy(c) /\ req[c].pc = "insertShare"
      BY <1>2, StageIs DEF InsertShare, Step
    <2>2. /\ Moved(c) /\ Busy(c)' /\ req'[c].pc = "fetchPending"
          /\ req'[c].expiry = req[c].expiry
      BY <1>2, <2>1, GoesOn DEF InsertShare, Step
    <2>3. UNCHANGED <<rows, contended, cut>> /\ shared' = shared \cup {v}
      BY <1>2 DEF InsertShare, userActionVars
    <2>4. until'[v] = req[c].expiry /\ \A u \in User \ {v} : until'[u] = until[u]
      BY <1>2 DEF InsertShare, SInv, STyped, StoreTypeOK
    <2>5. \A u \in User : RowsOf(u)' = RowsOf(u)
      BY <2>3 DEF RowsOf
    <2>6. Stage(req[c], v)'
      BY <2>2, <2>4 DEF Stage, Swaps, FutureSteps
    <2> QED
      BY <2>2, <2>3, <2>4, <2>5, <2>6, TidyStep
  <1>3. CASE InsertTuple(c)
    <2> PICK v \in User : v = req[c].share
      BY <1>3, StageIs DEF InsertTuple, Step
    <2>1. /\ Busy(c) /\ req[c].pc = "insertTuple"
          /\ v \notin contended \cup cut => Stage(req[c], v)
      BY <1>3, StageIs DEF InsertTuple, Step
    <2>2. Moved(c) /\ ~Busy(c)'
      BY <1>3, <2>1, GivesUp DEF InsertTuple
    <2>3. UNCHANGED <<rows, until, shared, contended, cut>>
      BY <1>3 DEF InsertTuple, userActionVars
    <2>4. v \notin contended \cup cut => Reconciled(v)
      BY <2>1 DEF Stage
    <2> QED
      BY <2>2, <2>3, <2>4, TidyQuiet
  <1> QED
    BY <1>1, <1>2, <1>3

LEMMA UpdateTidy ==
  ASSUME SInv, Tidied, NEW c \in Caller, SwapTuple(c) \/ UpdateRow(c)
  PROVE  Tidied'
  <1>1. CASE SwapTuple(c)
    <2>1. PICK a \in Swaps, b \in (Swaps \ {"dropReader"}) \cup {"updateRow"} : At(c, a) /\ Goto(c, b)
      BY <1>1 DEF SwapTuple, Swaps
    <2> PICK v \in User : v = req[c].share
      BY <2>1, StageIs DEF Swaps, Step
    <2>2. /\ Busy(c) /\ req[c].pc = a
          /\ v \notin contended \cup cut => Stage(req[c], v)
      BY <2>1, StageIs DEF Swaps, Step
    <2>3. Moved(c) /\ Busy(c)' /\ req'[c].pc = b
      BY <2>1, <2>2, GoesOn DEF Swaps, Step
    <2>4. UNCHANGED <<rows, until, shared, contended, cut>>
      BY <1>1 DEF SwapTuple, userActionVars
    <2>5. v \notin contended \cup cut => Reconciled(v)
      BY <2>2 DEF Stage
    <2>6. b \notin FutureSteps
      BY DEF Swaps, FutureSteps
    <2>7. b \notin {"dropPending", "checkDisabled", "queueEnable", "schedule"}
      BY DEF Swaps
    <2> QED
      BY <2>3, <2>4, <2>5, <2>6, <2>7, TidyQuiet
  <1>2. CASE UpdateRow(c)
    <2> PICK v \in User : v = req[c].share
      BY <1>2, StageIs DEF UpdateRow, Step
    <2>1. /\ Busy(c) /\ req[c].pc = "updateRow"
          /\ v \notin contended \cup cut => Stage(req[c], v)
      BY <1>2, StageIs DEF UpdateRow, Step
    <2>2. UNCHANGED <<rows, shared, contended, cut>>
      BY <1>2 DEF UpdateRow, userActionVars
    <2>3. CASE until' = until /\ End(c)
      <3>1. Moved(c) /\ ~Busy(c)'
        BY <2>1, <2>3, GivesUp
      <3>2. v \notin contended \cup cut => Reconciled(v)
        BY <2>1 DEF Stage
      <3> QED
        BY <2>2, <2>3, <3>1, <3>2, TidyQuiet
    <2>4. CASE until' = [until EXCEPT ![v] = req[c].expiry] /\ Goto(c, "fetchPending")
      <3>1. /\ Moved(c) /\ Busy(c)' /\ req'[c].pc = "fetchPending"
            /\ req'[c].expiry = req[c].expiry
        BY <2>1, <2>4, GoesOn DEF Step
      <3>2. until'[v] = req[c].expiry /\ \A u \in User \ {v} : until'[u] = until[u]
        BY <2>4 DEF SInv, STyped, StoreTypeOK
      <3>3. \A u \in User : RowsOf(u)' = RowsOf(u)
        BY <2>2 DEF RowsOf
      <3>4. Stage(req[c], v)'
        BY <3>1, <3>2 DEF Stage, Swaps, FutureSteps
      <3> QED
        BY <2>2, <3>1, <3>2, <3>3, <3>4, TidyStep
    <2> QED
      BY <1>2, <2>3, <2>4 DEF UpdateRow
  <1> QED
    BY <1>1, <1>2

LEMMA ListTidy ==
  ASSUME SInv, Tidied, NEW c \in Caller, FetchPending(c) \/ FetchActions(c)
  PROVE  Tidied'
  <1>1. PICK a \in {"fetchPending", "fetchActions"} : At(c, a)
    BY DEF FetchPending, FetchActions
  <1> PICK v \in User : v = req[c].share
    BY <1>1, StageIs DEF Step
  <1>2. /\ Busy(c) /\ req[c].pc = a /\ req[c] \in Request
        /\ v \notin contended \cup cut => Stage(req[c], v)
    BY <1>1, StageIs DEF Step
  <1>3. UNCHANGED <<rows, until, shared, contended, cut, made>>
    BY DEF FetchPending, FetchActions, userActionVars, storeVars
  <1>4. PICK b \in {"dropPending", "purge"}, S \in SUBSET RowsOf(v) :
          /\ req' = [req EXCEPT ![c].pc = b, ![c].drop = IdsOf(S)]
          /\ b = "dropPending" => S = PendingDisables(v) /\ a = "fetchPending"
    <2>1. PendingDisables(v) \subseteq RowsOf(v)
      BY DEF PendingDisables
    <2> QED
      BY <1>1, <1>2, <2>1 DEF FetchPending, FetchActions, At
  <1>5. IdsOf(S) \subseteq 1..MaxRows
    BY DEF IdsOf, RowsOf, SInv, STyped, UInv, UserActionsTypeOK, Row
  <1>6. [req[c] EXCEPT !.pc = b, !.drop = IdsOf(S)] \in Request
    BY <1>2, <1>5 DEF Request, Step
  <1>7. /\ req' \in [Caller -> Requests] /\ \A d \in Caller \ {c} : req'[d] = req[d]
        /\ req'[c] = [req[c] EXCEPT !.pc = b, !.drop = IdsOf(S)]
    BY <1>4, <1>6 DEF SInv, STyped, StoreTypeOK, Requests
  <1>8. /\ req'[c].pc = b /\ req'[c].drop = IdsOf(S) /\ req'[c].op = req[c].op
        /\ req'[c].share = v /\ req'[c].expiry = req[c].expiry /\ req'[c].perm = req[c].perm
    BY <1>2, <1>6, <1>7 DEF Request
  <1>9. Moved(c) /\ Busy(c)'
    BY <1>2, <1>6, <1>7, <1>8 DEF Moved, Busy
  <1>10. CASE b = "purge"
    BY <1>3, <1>8, <1>9, <1>10, TidyQuiet DEF Swaps, FutureSteps
  <1>11. CASE b = "dropPending"
    <2>1. \A s \in PendingDisables(v) : s.id \in req'[c].drop
      BY <1>4, <1>8, <1>11 DEF IdsOf
    <2>2. \A i \in req'[c].drop : \E s \in RowsOf(v) : s.id = i
      BY <1>8 DEF IdsOf
    <2>3. v \notin contended \cup cut => until[v] = req'[c].expiry
      BY <1>2, <1>4, <1>8, <1>11 DEF Stage, FutureSteps
    <2> QED
      BY <1>3, <1>8, <1>9, <1>11, <2>1, <2>2, <2>3, TidyQuiet DEF Swaps
  <1> QED
    BY <1>10, <1>11

\* A listed row is removed, or was and the request gives up.
LEMMA RemovalTidy ==
  ASSUME SInv, Tidied, NEW c \in Caller, NEW a \in {"dropPending", "purge"}, At(c, a),
         RemoveListed(c), UNCHANGED <<until, shared, contended, cut>>
  PROVE  Tidied'
  <1> PICK v \in User : v = req[c].share
    BY StageIs DEF Step
  <1>1. /\ Busy(c) /\ req[c].pc = a /\ req[c] \in Request
        /\ v \notin contended \cup cut => Stage(req[c], v)
    BY StageIs DEF Step
  <1>2. a = "purge" => v \notin shared
    BY <1>1 DEF SInv, StoreInv, Deletes
  <1>3. PICK i \in req[c].drop :
          \/ RemoveRow(i) /\ req' = [req EXCEPT ![c].drop = @ \ {i}]
          \/ (\A r \in rows : r.id # i) /\ End(c) /\ UNCHANGED rows
    BY DEF RemoveListed
  <1>4. CASE (\A r \in rows : r.id # i) /\ End(c) /\ UNCHANGED rows
    <2>1. Moved(c) /\ ~Busy(c)'
      BY <1>1, <1>4, GivesUp
    <2>2. a = "dropPending" => v \in contended \cup cut
      BY <1>1, <1>4 DEF Stage, RowsOf
    <2> QED
      BY <1>2, <1>4, <2>1, <2>2, TidyQuiet
  <1>5. CASE RemoveRow(i) /\ req' = [req EXCEPT ![c].drop = @ \ {i}]
    <2>1. [req[c] EXCEPT !.drop = @ \ {i}] \in Request
      BY <1>1 DEF Request
    <2>2. /\ req' \in [Caller -> Requests] /\ \A d \in Caller \ {c} : req'[d] = req[d]
          /\ req'[c] = [req[c] EXCEPT !.drop = @ \ {i}]
      BY <1>5, <2>1 DEF SInv, STyped, StoreTypeOK, Requests
    <2>3. /\ req'[c].pc = a /\ req'[c].drop = req[c].drop \ {i} /\ req'[c].op = req[c].op
          /\ req'[c].share = v /\ req'[c].expiry = req[c].expiry /\ req'[c].perm = req[c].perm
      BY <1>1, <2>2 DEF Request
    <2>4. Moved(c) /\ Busy(c)'
      BY <1>1, <2>1, <2>2, <2>3 DEF Moved, Busy
    <2>5. rows' = {r \in rows : r.id # i}
      BY <1>5 DEF RemoveRow
    <2>6. \A u \in User \ {v} : RowsOf(u)' = RowsOf(u)
      <3>1. \A r \in rows : r.id = i => r.user = v
        BY <1>1 DEF SInv, Drops
      <3> QED
        BY <2>5, <3>1 DEF RowsOf
    <2>7. ASSUME v \notin contended \cup cut PROVE Stage(req[c], v)'
      <3>1. CASE a = "purge"
        BY <2>3, <3>1 DEF Stage, Swaps, FutureSteps
      <3>2. CASE a = "dropPending"
        <4>1. /\ \A s \in PendingDisables(v) : s.id \in req[c].drop
              /\ \A j \in req[c].drop : \E s \in RowsOf(v) : s.id = j
              /\ until[v] = req[c].expiry
          BY <1>1, <2>7, <3>2 DEF Stage, FutureSteps
        <4>2. \A s \in PendingDisables(v)' : s \in PendingDisables(v) /\ s.id # i
          BY <2>5 DEF PendingDisables, PendingOf, RowsOf, IsPending
        <4>3. \A s \in RowsOf(v) : s.id # i => s \in RowsOf(v)'
          BY <2>5 DEF RowsOf
        <4> QED
          BY <2>3, <3>2, <4>1, <4>2, <4>3 DEF Stage, Swaps
      <3> QED
        BY <3>1, <3>2
    <2> QED
      BY <2>4, <2>6, <2>7, TidyStep
  <1> QED
    BY <1>3, <1>4, <1>5

LEMMA DropTidy ==
  ASSUME SInv, Tidied, NEW c \in Caller, DropPending(c)
  PROVE  Tidied'
  <1>1. At(c, "dropPending") /\ UNCHANGED <<until, shared, contended, cut>>
    BY DEF DropPending, storeVars
  <1>2. CASE RemoveListed(c)
    BY <1>1, <1>2, RemovalTidy
  <1>3. CASE /\ req[c].drop = {}
             /\ Goto(c, IF req[c].expiry > now THEN "checkDisabled" ELSE "schedule")
             /\ UNCHANGED userActionVars
    <2> PICK v \in User : v = req[c].share
      BY <1>1, StageIs DEF Step
    <2>1. /\ Busy(c) /\ req[c].pc = "dropPending"
          /\ v \notin contended \cup cut => Stage(req[c], v)
      BY <1>1, StageIs DEF Step
    <2>2. PICK b \in {"checkDisabled", "schedule"} : Goto(c, b)
      BY <1>3
    <2>3. /\ Moved(c) /\ Busy(c)' /\ req'[c].pc = b /\ req'[c].expiry = req[c].expiry
      BY <2>1, <2>2, GoesOn DEF Step
    <2>4. v \notin contended \cup cut => PendingDisables(v) = {} /\ until[v] = req[c].expiry
      BY <1>3, <2>1 DEF Stage, FutureSteps
    <2>5. rows' = rows
      BY <1>3 DEF userActionVars
    <2> QED
      BY <1>1, <2>3, <2>4, <2>5, TidyQuiet DEF Swaps
  <1> QED
    BY <1>2, <1>3 DEF DropPending

LEMMA CheckTidy ==
  ASSUME SInv, Tidied, NEW c \in Caller, CheckDisabled(c) \/ Finish(c)
  PROVE  Tidied'
  <1>1. UNCHANGED <<rows, until, shared, contended, cut>>
    BY DEF CheckDisabled, Finish, storeVars, userActionVars
  <1>2. CASE CheckDisabled(c)
    <2> PICK v \in User : v = req[c].share
      BY <1>2, StageIs DEF CheckDisabled, Step
    <2>1. /\ Busy(c) /\ req[c].pc = "checkDisabled"
          /\ v \notin contended \cup cut => Stage(req[c], v)
      BY <1>2, StageIs DEF CheckDisabled, Step
    <2>2. PICK b \in {"queueEnable", "schedule"} : Goto(c, b)
      BY <1>2 DEF CheckDisabled
    <2>3. /\ Moved(c) /\ Busy(c)' /\ req'[c].pc = b /\ req'[c].expiry = req[c].expiry
      BY <2>1, <2>2, GoesOn DEF Step
    <2>4. v \notin contended \cup cut => PendingDisables(v) = {} /\ until[v] = req[c].expiry
      BY <2>1 DEF Stage, FutureSteps
    <2> QED
      BY <1>1, <2>3, <2>4, TidyQuiet DEF Swaps
  <1>3. CASE Finish(c)
    <2> PICK v \in User : v = req[c].share
      BY <1>3, StageIs DEF Finish, Step
    <2>1. /\ Busy(c) /\ req[c].pc = "finish"
          /\ v \notin contended \cup cut => Stage(req[c], v)
      BY <1>3, StageIs DEF Finish, Step
    <2>2. v \notin contended \cup cut => Reconciled(v)
      BY <2>1 DEF Stage
    <2>3. CASE End(c)
      <3>1. Moved(c) /\ ~Busy(c)'
        BY <2>1, <2>3, GivesUp
      <3> QED
        BY <1>1, <2>2, <3>1, TidyQuiet
    <2>4. CASE Goto(c, "insertTuple")
      <3>1. Moved(c) /\ Busy(c)' /\ req'[c].pc = "insertTuple"
        BY <2>1, <2>4, GoesOn DEF Step
      <3> QED
        BY <1>1, <2>2, <3>1, TidyQuiet DEF FutureSteps
    <2> QED
      BY <1>3, <2>3, <2>4 DEF Finish
  <1> QED
    BY <1>2, <1>3

LEMMA AddTidy ==
  ASSUME SInv, Tidied, Homes, NEW c \in Caller, QueueEnable(c) \/ Schedule(c)
  PROVE  Tidied'
  <1>1. PICK a \in {"queueEnable", "schedule"} : At(c, a) /\ (a = "queueEnable" => QueueEnable(c))
                                                 /\ (a = "schedule" => Schedule(c))
    BY DEF QueueEnable, Schedule
  <1> PICK v \in User : v = req[c].share
    BY <1>1, StageIs DEF Step
  <1>2. /\ Busy(c) /\ req[c].pc = a /\ req[c] \in Request
        /\ v \notin contended \cup cut => Stage(req[c], v)
        /\ v \notin contended => v \in shared
    BY <1>1, StageIs DEF Step, FutureSteps
  <1>3. UNCHANGED <<until, shared, contended, cut>>
    BY DEF QueueEnable, Schedule, storeVars
  <1>4. v \notin contended \cup cut => PendingDisables(v) = {} /\ until[v] = req[c].expiry
    BY <1>2 DEF Stage, FutureSteps
  <1>5. CASE End(c) /\ v \notin users /\ UNCHANGED rows
    <2>1. v \in contended
      BY <1>2, <1>5 DEF Homes
    <2>2. Moved(c) /\ ~Busy(c)'
      BY <1>2, <1>5, GivesUp
    <2> QED
      BY <1>3, <1>5, <2>1, <2>2, TidyQuiet
  <1>6. CASE a = "schedule" /\ req[c].expiry = Forever /\ Goto(c, "finish") /\ UNCHANGED rows
    <2>1. Moved(c) /\ Busy(c)' /\ req'[c].pc = "finish" /\ req'[c].expiry = req[c].expiry
      BY <1>2, <1>6, GoesOn DEF Step
    <2>2. v \notin contended \cup cut => Reconciled(v)
      BY <1>4, <1>6 DEF Reconciled
    <2> QED
      BY <1>3, <1>4, <1>6, <2>1, <2>2, TidyQuiet
  <1>7. ASSUME NEW k \in Kind, NEW at, NEW b \in {"schedule", "finish"},
               InsertRow(v, k, at), req' = [req EXCEPT ![c].pc = b, ![c].added = made + 1],
               \/ b = "schedule" /\ k = "enable"
               \/ b = "finish" /\ k = "disable" /\ at = req[c].expiry /\ at # Forever
        PROVE  Tidied'
    <2> DEFINE new == [id |-> made + 1, user |-> v, kind |-> k, at |-> at, done |-> 0]
    <2>1. made < MaxRows /\ rows' = rows \cup {new}
      BY <1>7 DEF InsertRow
    <2>2. made + 1 \in 0..MaxRows
      BY <2>1, RowsAssumption DEF SInv, STyped, UInv, UserActionsTypeOK
    <2>3. [req[c] EXCEPT !.pc = b, !.added = made + 1] \in Request
      BY <1>2, <2>2 DEF Request, Step
    <2>4. /\ req' \in [Caller -> Requests] /\ \A d \in Caller \ {c} : req'[d] = req[d]
          /\ req'[c] = [req[c] EXCEPT !.pc = b, !.added = made + 1]
      BY <1>7, <2>3 DEF SInv, STyped, StoreTypeOK, Requests
    <2>5. /\ req'[c].pc = b /\ req'[c].op = req[c].op
          /\ req'[c].share = v /\ req'[c].expiry = req[c].expiry /\ req'[c].perm = req[c].perm
      BY <1>2, <2>4 DEF Request
    <2>6. Moved(c) /\ Busy(c)'
      BY <1>2, <2>3, <2>4, <2>5 DEF Moved, Busy
    <2>7. /\ \A u \in User \ {v} : RowsOf(u)' = RowsOf(u)
          /\ new \in RowsOf(v)'
      BY <2>1 DEF RowsOf
    <2>8. \A s \in PendingDisables(v)' : s \in PendingDisables(v) \/ (s = new /\ k = "disable")
      BY <2>1 DEF PendingDisables, PendingOf, RowsOf, IsPending
    <2>9. ASSUME v \notin contended \cup cut PROVE Stage(req[c], v)'
      <3>1. until'[v] = req'[c].expiry /\ Forever' = Forever
        BY <1>3, <1>4, <2>5, <2>9 DEF Forever
      <3>2. CASE b = "schedule" /\ k = "enable"
        BY <1>4, <2>5, <2>8, <2>9, <3>1, <3>2 DEF Stage, Swaps
      <3>3. CASE b = "finish" /\ k = "disable" /\ at = req[c].expiry /\ at # Forever
        <4>1. PendingDisables(v)' \subseteq {new}
          BY <1>4, <2>8, <2>9
        <4>2. new.kind = "disable" /\ new.at = until'[v] /\ until'[v] # Forever'
          BY <2>5, <3>1, <3>3
        <4>3. Reconciled(v)'
          BY <2>7, <4>1, <4>2 DEF Reconciled
        <4> QED
          BY <2>5, <3>1, <3>3, <4>3 DEF Stage
      <3> QED
        BY <1>7, <3>2, <3>3
    <2> QED
      BY <1>3, <2>6, <2>7, <2>9, TidyStep
  <1>8. CASE a = "queueEnable"
    <2>1. AddRow(c, "enable", now, "schedule")
      BY <1>1, <1>8 DEF QueueEnable
    <2> QED
      BY <1>5, <1>7, <2>1 DEF AddRow, Kind
  <1>9. CASE a = "schedule"
    <2>1. CASE req[c].expiry # Forever /\ AddRow(c, "disable", req[c].expiry, "finish")
      BY <1>5, <1>7, <2>1 DEF AddRow, Kind
    <2> QED
      BY <1>1, <1>6, <1>9, <2>1 DEF Schedule
  <1> QED
    BY <1>8, <1>9

LEMMA DeletionTidy ==
  ASSUME SInv, Tidied, NEW c \in Caller, DeleteTuples(c) \/ DeleteRow(c)
  PROVE  Tidied'
  <1>1. UNCHANGED <<rows, until, contended, cut>>
    BY DEF DeleteTuples, DeleteRow, userActionVars
  <1>2. CASE DeleteTuples(c)
    <2>1. Busy(c) /\ req[c].share \in User
      BY <1>2, StageIs DEF DeleteTuples, Step
    <2>2. Moved(c) /\ Busy(c)' /\ req'[c].pc = "deleteRow" /\ shared' = shared
      BY <1>2, <2>1, GoesOn DEF DeleteTuples, Step
    <2> QED
      BY <1>1, <2>1, <2>2, TidyQuiet DEF Swaps, FutureSteps
  <1>3. CASE DeleteRow(c)
    <2>1. Busy(c) /\ req[c].share \in User
      BY <1>3, StageIs DEF DeleteRow, Step
    <2>2. shared' = shared \ {req[c].share}
      BY <1>3 DEF DeleteRow
    <2>3. CASE End(c)
      <3>1. Moved(c) /\ ~Busy(c)'
        BY <2>1, <2>3, GivesUp
      <3> QED
        BY <1>1, <2>1, <2>2, <3>1, TidyQuiet
    <2>4. CASE Goto(c, "fetchActions")
      <3>1. Moved(c) /\ Busy(c)' /\ req'[c].pc = "fetchActions"
        BY <2>1, <2>4, GoesOn DEF Step
      <3> QED
        BY <1>1, <2>1, <2>2, <3>1, TidyQuiet DEF Swaps, FutureSteps
    <2> QED
      BY <1>3, <2>3, <2>4 DEF DeleteRow
  <1> QED
    BY <1>2, <1>3

LEMMA PurgeTidy ==
  ASSUME SInv, Tidied, NEW c \in Caller, Purge(c)
  PROVE  Tidied'
  <1>1. At(c, "purge") /\ UNCHANGED <<until, contended, cut>>
    BY DEF Purge
  <1>2. CASE RemoveListed(c) /\ UNCHANGED <<users, shared>>
    BY <1>1, <1>2, RemovalTidy
  <1>3. CASE /\ shared' = shared \ {req[c].share}
             /\ rows' = rows \ RowsOf(req[c].share)
             /\ End(c)
    <2> PICK v \in User : v = req[c].share
      BY <1>1, StageIs DEF Step
    <2>1. Moved(c) /\ ~Busy(c)'
      BY <1>1, <1>3, AtBusy, GivesUp
    <2>2. \A u \in User \ {v} : RowsOf(u)' = RowsOf(u)
      BY <1>3 DEF RowsOf
    <2> QED
      BY <1>1, <1>3, <2>1, <2>2, TidyStep
  <1> QED
    BY <1>2, <1>3 DEF Purge

LEMMA FailTidy ==
  ASSUME SInv, Tidied, NEW c \in Caller, Fail(c)
  PROVE  Tidied'
  <1>1. Busy(c) /\ req[c].share \in User
    BY BusyIs DEF Fail, SInv, STyped, Request
  <1>2. Moved(c) /\ ~Busy(c)'
    BY <1>1, GivesUp DEF Fail
  <1>3. UNCHANGED <<rows, until, shared, contended>> /\ cut' = cut \cup {req[c].share}
    BY DEF Fail, userActionVars
  <1> QED
    BY <1>1, <1>2, <1>3, TidyQuiet

LEMMA BeginTidy ==
  ASSUME SInv, Tidied, NEW c \in Caller, BeginRequest(c)
  PROVE  Tidied'
  <1>1. UNCHANGED <<rows, until, shared, cut>>
    BY DEF BeginRequest, BeginCreate, BeginUpdate, BeginDelete, userActionVars
  <1>2. PICK v \in User, a \in {"insertUser", "updateRow", "dropReader", "deleteTuples"} :
          /\ Begun(c, v) /\ req'[c].pc = a
          /\ a \in {"updateRow", "dropReader"} => v \in shared
    <2>1. CASE \E u \in User, e \in Expiry, p \in Relation : BeginCreate(c, u, e, p)
      <3>1. PICK v \in User, e \in Expiry, p \in Relation : BeginCreate(c, v, e, p)
        BY <2>1
      <3>2. Begin(c, "create", v, e, p, "insertUser")
        BY <3>1 DEF BeginCreate
      <3>3. Begun(c, v) /\ req'[c].pc = "insertUser"
        BY <3>2, Begins DEF Step
      <3> QED
        BY <3>3
    <2>2. CASE \E u \in User, e \in Expiry \cup {KeepExpiry}, p \in Relation \cup {KeepPerm} :
                  BeginUpdate(c, u, e, p)
      <3>1. PICK v \in User, e \in Expiry \cup {KeepExpiry}, p \in Relation \cup {KeepPerm} :
              BeginUpdate(c, v, e, p)
        BY <2>2
      <3>2. PICK a \in {"updateRow", "dropReader"} : Begin(c, "update", v, e, p, a)
        BY <3>1 DEF BeginUpdate
      <3>3. Begun(c, v) /\ req'[c].pc = a
        BY <3>2, Begins DEF Step
      <3>4. v \in shared
        BY <3>1 DEF BeginUpdate
      <3> QED
        BY <3>3, <3>4
    <2>3. CASE \E u \in User : BeginDelete(c, u)
      <3>1. PICK v \in User : BeginDelete(c, v)
        BY <2>3
      <3>2. Begin(c, "delete", v, KeepExpiry, KeepPerm, "deleteTuples")
        BY <3>1 DEF BeginDelete
      <3>3. Begun(c, v) /\ req'[c].pc = "deleteTuples"
        BY <3>2, Begins DEF Step
      <3> QED
        BY <3>3
    <2> QED
      BY <2>1, <2>2, <2>3 DEF BeginRequest
  <1>3. /\ ~Busy(c) /\ Busy(c)' /\ req'[c].share = v
        /\ \A d \in Caller \ {c} : req'[d] = req[d]
        /\ contended \subseteq contended'
        /\ v \notin contended' => \A d \in Caller \ {c} : ~On(d, v)
    BY <1>2 DEF Begun
  <1>4. \A u \in User : RowsOf(u)' = RowsOf(u)
    BY <1>1 DEF RowsOf
  <1>5. SUFFICES ASSUME NEW u \in User, u \notin contended', u \notin cut PROVE Tidy(u)'
    BY <1>1 DEF Tidied
  <1>6. Tidy(u)
    BY <1>3, <1>5 DEF Tidied
  <1>7. OnlyMarked(u)
    BY <1>4, SameRows
  <1>8. CASE u # v
    <2>1. \A d \in Caller : On(d, u) => On(d, u)'
      BY <1>3 DEF On, Busy
    <2>2. \A d \in Caller : On(d, u)' => On(d, u) /\ req'[d] = req[d]
      BY <1>3, <1>8 DEF On, Busy
    <2> QED
      BY <1>1, <1>6, <1>7, <2>1, <2>2, TidyApart
  <1>9. CASE u = v
    <2>1. \A d \in Caller : ~On(d, v)
      BY <1>3, <1>5, <1>9 DEF On
    <2>2. \A d \in Caller : On(d, v)' => d = c
      BY <1>3, <2>1 DEF On, Busy
    <2>3. v \in shared => Reconciled(v)
      BY <1>6, <1>9, <2>1 DEF Tidy
    <2>4. v \in shared => Reconciled(v)'
      BY <1>1, <1>7, <1>9, <2>3, ReconciledStays
    <2>5. Stage(req[c], v)'
      BY <1>2, <2>4 DEF Stage, Swaps, FutureSteps
    <2>6. On(c, v)'
      BY <1>3 DEF On
    <2> QED
      BY <1>9, <2>2, <2>5, <2>6 DEF Tidy
  <1> QED
    BY <1>8, <1>9

LEMMA CrashTidy == SInv /\ Tidied /\ ServiceCrash => Tidied'
  <1> SUFFICES ASSUME SInv, Tidied, ServiceCrash, NEW u \in User,
                      u \notin contended, u \notin cut'
               PROVE  Tidy(u)'
    BY DEF Tidied, ServiceCrash
  <1>1. /\ UNCHANGED <<rows, until, shared>>
        /\ cut' = cut \cup {req[c].share : c \in {d \in Caller : req[d] # Idle}}
    BY DEF ServiceCrash, Crash
  <1>2. \A c \in Caller : req'[c].pc = "idle"
    BY IdleIs DEF ServiceCrash
  <1>3. \A c \in Caller : ~On(c, u) /\ ~On(c, u)'
    <2>1. \A c \in Caller : On(c, u) => req[c] # Idle
      BY IdleIs DEF On, Busy
    <2> QED
      BY <1>1, <1>2, <2>1 DEF On, Busy
  <1>4. Tidy(u)
    BY <1>1 DEF Tidied
  <1>5. RowsOf(u)' = RowsOf(u)
    BY <1>1 DEF RowsOf
  <1> QED
    BY <1>1, <1>3, <1>4, <1>5, SameRows, TidyApart

\* Marking a row makes no other pending and takes none away.
LEMMA MarkingTidy ==
  ASSUME SInv, NEW i, MarkExecuted(i), NEW u \in User
  PROVE  OnlyMarked(u)
  <1>1. CASE rows' = rows
    <2>1. RowsOf(u)' = RowsOf(u)
      BY <1>1 DEF RowsOf
    <2> QED
      BY <2>1, SameRows
  <1>2. CASE rows' = {IF r.id = i THEN [r EXCEPT !.done = stamp] ELSE r : r \in rows}
    <2>1. i \in batch
      BY DEF MarkExecuted
    <2>2. \A r \in rows : r \in Row /\ (r.id = i => r.done = 0)
      BY <2>1 DEF SInv, STyped, UInv, BatchIsDue, UserActionsTypeOK
    <2>3. ASSUME NEW r \in rows, r.id = i
          PROVE  /\ [r EXCEPT !.done = stamp].id = r.id /\ [r EXCEPT !.done = stamp].user = r.user
                 /\ [r EXCEPT !.done = stamp].kind = r.kind /\ [r EXCEPT !.done = stamp].at = r.at
                 /\ [r EXCEPT !.done = stamp].done = 0 => [r EXCEPT !.done = stamp] = r
      BY <2>2, <2>3 DEF Row
    <2>4. ASSUME NEW s \in PendingDisables(u)' PROVE s \in PendingDisables(u)
      <3>1. s \in rows' /\ s.user = u /\ s.kind = "disable" /\ s.done = 0
        BY <2>4 DEF PendingDisables, PendingOf, RowsOf, IsPending
      <3>2. PICK r \in rows : s = IF r.id = i THEN [r EXCEPT !.done = stamp] ELSE r
        BY <1>2, <3>1
      <3>3. s = r
        BY <2>3, <3>1, <3>2
      <3> QED
        BY <3>1, <3>3 DEF PendingDisables, PendingOf, RowsOf, IsPending
    <2>5. ASSUME NEW r \in RowsOf(u)
          PROVE  \E s \in RowsOf(u)' : s.id = r.id /\ s.kind = r.kind /\ s.at = r.at
      <3>1. r \in rows /\ r.user = u
        BY DEF RowsOf
      <3>2. CASE r.id = i
        BY <1>2, <2>3, <3>1, <3>2 DEF RowsOf
      <3>3. CASE r.id # i
        BY <1>2, <3>1, <3>3 DEF RowsOf
      <3> QED
        BY <3>2, <3>3
    <2> QED
      BY <2>4, <2>5 DEF OnlyMarked
  <1> QED
    BY <1>1, <1>2 DEF MarkExecuted

LEMMA RestTidy ==
  ASSUME Tidied, \A u \in User : OnlyMarked(u),
         UNCHANGED <<until, shared, contended, cut, req>>
  PROVE  Tidied'
  <1> SUFFICES ASSUME NEW u \in User, u \notin contended, u \notin cut PROVE Tidy(u)'
    BY DEF Tidied
  <1>1. Tidy(u)
    BY DEF Tidied
  <1>2. \A d \in Caller : (On(d, u) <=> On(d, u)') /\ req'[d] = req[d]
    BY DEF On, Busy
  <1> QED
    BY <1>1, <1>2, TidyApart

LEMMA BackgroundTidy == SInv /\ Tidied /\ Background => Tidied'
  <1> SUFFICES ASSUME SInv, Tidied, Background PROVE Tidied'
    OBVIOUS
  <1>1. UNCHANGED <<until, shared, contended, cut, req>>
    BY DEF Background, storeVars
  <1>2. CASE rows' = rows
    <2>1. \A u \in User : OnlyMarked(u)
      <3>1. \A u \in User : RowsOf(u)' = RowsOf(u)
        BY <1>2 DEF RowsOf
      <3> QED
        BY <3>1, SameRows
    <2> QED
      BY <1>1, <2>1, RestTidy
  <1>3. CASE \E i \in 1..MaxRows : MarkExecuted(i)
    BY <1>1, <1>3, MarkingTidy, RestTidy
  <1> QED
    BY <1>2, <1>3 DEF Background, PushStep, ProcessStep, MaybeWake, SeedKind, CallRun, Ask,
                      FetchDue, Boot, Tick

\* A share has its user: the row of the user comes first and goes last.
LEMMA HomesStay ==
  ASSUME Homes, users \subseteq users', shared' \subseteq shared,
         \A d \in Caller : req'[d].pc = "insertShare" =>
             req[d].pc = "insertShare" /\ req'[d].share = req[d].share
  PROVE  Homes'
  BY DEF Homes

LEMMA StepHome ==
  ASSUME SInv, Homes, NEW c \in Caller, Moved(c), users \subseteq users', shared' \subseteq shared,
         Busy(c)' => req'[c].pc # "insertShare"
  PROVE  Homes'
  <1>1. \A d \in Caller : d # c => req'[d] = req[d]
    BY DEF Moved
  <1>2. req'[c].pc # "insertShare"
    BY DEF Busy
  <1> QED
    BY <1>1, <1>2, HomesStay

LEMMA OtherSteps ==
  ASSUME SInv, NEW c \in Caller, Continue(c), ~InsertUser(c)
  PROVE  /\ req'[c].pc # "insertShare"
         /\ \A d \in Caller \ {c} : req'[d] = req[d]
  <1>1. PICK a \in Step : At(c, a)
    BY DEF Continue, InsertShare, InsertTuple, SwapTuple, UpdateRow, FetchPending, DropPending,
           CheckDisabled, QueueEnable, Schedule, Finish, DeleteTuples, DeleteRow, FetchActions,
           Purge, Step
  <1>2. Busy(c) /\ req[c].pc = a /\ req[c] \in Request
    BY <1>1, RequestIs
  <1>3. req \in [Caller -> Requests]
    BY DEF SInv, STyped, StoreTypeOK
  <1>4. CASE End(c)
    BY <1>3, <1>4, IdleIs DEF End
  <1>5. CASE \E b \in Step \ {"insertShare"} : Goto(c, b)
    BY <1>2, <1>3, <1>5, GotoMoves DEF Moved, SInv, STyped
  <1>6. CASE \E i \in req[c].drop : req' = [req EXCEPT ![c].drop = @ \ {i}] /\ a \in {"dropPending", "purge"}
    BY <1>2, <1>3, <1>6 DEF Request
  <1>7. CASE InsertShare(c) \/ InsertTuple(c) \/ SwapTuple(c) \/ UpdateRow(c)
    BY <1>4, <1>5, <1>7 DEF InsertShare, InsertTuple, SwapTuple, UpdateRow, Step
  <1>8. CASE CheckDisabled(c) \/ Finish(c) \/ DeleteTuples(c) \/ DeleteRow(c)
    BY <1>4, <1>5, <1>8 DEF CheckDisabled, Finish, DeleteTuples, DeleteRow, Step
  <1>9. CASE FetchPending(c) \/ FetchActions(c)
    <2>1. CASE FetchPending(c)
      <3>1. PICK S : S = IdsOf(PendingDisables(req[c].share))
        OBVIOUS
      <3>2. req' = [req EXCEPT ![c].pc = "dropPending", ![c].drop = S]
        BY <2>1, <3>1 DEF FetchPending
      <3> QED
        BY <1>2, <1>3, <3>2 DEF Request
    <2>2. CASE FetchActions(c)
      <3>1. PICK S : S = IdsOf(RowsOf(req[c].share))
        OBVIOUS
      <3>2. req' = [req EXCEPT ![c].pc = "purge", ![c].drop = S]
        BY <2>2, <3>1 DEF FetchActions
      <3> QED
        BY <1>2, <1>3, <3>2 DEF Request
    <2> QED
      BY <1>9, <2>1, <2>2
  <1>10. CASE DropPending(c)
    <2>1. a = "dropPending"
      BY <1>1, <1>10 DEF DropPending, At
    <2> QED
      BY <1>4, <1>5, <1>6, <1>10, <2>1 DEF DropPending, RemoveListed, Step
  <1>11. CASE Purge(c)
    <2>1. a = "purge"
      BY <1>1, <1>11 DEF Purge, At
    <2> QED
      BY <1>4, <1>6, <1>11, <2>1 DEF Purge, RemoveListed
  <1>12. CASE QueueEnable(c) \/ Schedule(c)
    <2>1. PICK n : n = made + 1
      OBVIOUS
    <2>2. CASE End(c)
      BY <1>4, <2>2
    <2>3. CASE Goto(c, "finish")
      BY <1>5, <2>3 DEF Step
    <2>4. CASE req' = [req EXCEPT ![c].pc = "schedule", ![c].added = n]
      BY <1>2, <1>3, <2>4 DEF Request
    <2>5. CASE req' = [req EXCEPT ![c].pc = "finish", ![c].added = n]
      BY <1>2, <1>3, <2>5 DEF Request
    <2> QED
      BY <1>12, <2>1, <2>2, <2>3, <2>4, <2>5 DEF QueueEnable, Schedule, AddRow
  <1> QED
    BY <1>7, <1>8, <1>9, <1>10, <1>11, <1>12 DEF Continue

LEMMA ContinueHome ==
  ASSUME SInv, Homes, NEW c \in Caller, Continue(c)
  PROVE  Homes'
  <1>1. CASE InsertUser(c)
    <2>1. Busy(c) /\ req[c].share \in User
      BY <1>1, RequestIs DEF InsertUser, Step
    <2>2. /\ req'[c].share = req[c].share /\ \A d \in Caller \ {c} : req'[d] = req[d]
      BY <1>1, <2>1, GoesOn DEF InsertUser, Step, Moved
    <2>3. users' = users \cup {req[c].share} /\ shared' = shared
      BY <1>1 DEF InsertUser
    <2> QED
      BY <2>2, <2>3 DEF Homes
  <1>2. CASE ~InsertUser(c)
    <2>1. req'[c].pc # "insertShare" /\ \A d \in Caller \ {c} : req'[d] = req[d]
      BY <1>2, OtherSteps
    <2>2. CASE InsertShare(c)
      <3>1. req[c].share \in users
        BY <2>2 DEF InsertShare, At, Homes
      <3> QED
        BY <2>1, <2>2, <3>1 DEF InsertShare, Homes
    <2>3. CASE Purge(c)
      <3>1. Busy(c) /\ req[c].pc = "purge" /\ req[c].share \in User
        BY <2>3, RequestIs DEF Purge, Step
      <3>2. \A d \in Caller : req[d].pc = "insertShare" => req[d].share # req[c].share
        <4> SUFFICES ASSUME NEW d \in Caller, req[d].pc = "insertShare", req[d].share = req[c].share
                     PROVE  FALSE
          OBVIOUS
        <4>1. Busy(d) /\ Proceeds(req[d])
          BY DEF Busy, SInv, STyped, Shape
        <4>2. Creating(d) /\ req[d].pc \in Unborn /\ d # c
          BY <3>1, <4>1 DEF Creating, Proceeds, Busy, OwnSteps, Unborn, FutureSteps, Swaps
        <4>3. On(c, req[d].share)
          BY <3>1 DEF On
        <4> QED
          BY <4>2, <4>3 DEF SInv, StoreInv, Fresh
      <3>3. users \ {req[c].share} \subseteq users' /\ shared' \subseteq users'
        BY <2>3 DEF Purge, Homes
      <3> QED
        BY <2>1, <3>2, <3>3 DEF Homes
    <2>4. ASSUME ~InsertShare(c), ~Purge(c) PROVE users' = users /\ shared' \subseteq shared
      BY <1>2, <2>4 DEF Continue, InsertTuple, SwapTuple, UpdateRow, FetchPending, DropPending,
           CheckDisabled, QueueEnable, Schedule, Finish, DeleteTuples, DeleteRow, FetchActions, storeVars
    <2> QED
      BY <2>1, <2>2, <2>3, <2>4, HomesStay
  <1> QED
    BY <1>1, <1>2

LEMMA TidyInit == ShareInit => TInv
  <1> SUFFICES ASSUME ShareInit PROVE TInv
    OBVIOUS
  <1>1. SInv
    BY SInit
  <1>2. \A c \in Caller : req[c].pc = "idle"
    BY IdleIs DEF ShareInit
  <1>3. Homes
    BY <1>2 DEF ShareInit, Homes
  <1>4. Tidied
    BY <1>2 DEF ShareInit, Tidied, Tidy, On, Busy
  <1> QED
    BY <1>1, <1>3, <1>4 DEF TInv

LEMMA TidyNext == TInv /\ [ShareNext]_shareVars => TInv'
  <1> SUFFICES ASSUME TInv, [ShareNext]_shareVars PROVE TInv'
    OBVIOUS
  <1>1. SInv' /\ SInv /\ Homes /\ Tidied
    BY ShareStep DEF TInv
  <1>2. ASSUME NEW c \in Caller, Continue(c) PROVE Homes' /\ Tidied'
    BY <1>1, <1>2, ContinueHome, CreationTidy, UpdateTidy, ListTidy, DropTidy, CheckTidy, AddTidy,
       DeletionTidy, PurgeTidy DEF Continue
  <1>3. ASSUME NEW c \in Caller, BeginRequest(c) PROVE Homes' /\ Tidied'
    <2>1. /\ UNCHANGED <<users, shared>> /\ req'[c].pc # "insertShare"
          /\ \A d \in Caller \ {c} : req'[d] = req[d]
      <3>1. PICK first \in Step \ {"insertShare"} :
              \E name, u, e, p : req' = [req EXCEPT ![c] = [pc |-> first, op |-> name, share |-> u,
                                      expiry |-> e, perm |-> p, drop |-> {}, added |-> 0]]
        BY <1>3 DEF BeginRequest, BeginCreate, BeginUpdate, BeginDelete, Begin, Step
      <3> QED
        BY <1>1, <1>3, <3>1 DEF BeginRequest, BeginCreate, BeginUpdate, BeginDelete, SInv, STyped, StoreTypeOK
    <2>2. Homes'
      BY <1>1, <2>1, HomesStay
    <2> QED
      BY <1>1, <1>3, <2>2, BeginTidy
  <1>4. ASSUME NEW c \in Caller, Fail(c) PROVE Homes' /\ Tidied'
    <2>1. Moved(c) /\ ~Busy(c)' /\ UNCHANGED <<users, shared>>
      BY <1>1, <1>4, BusyIs, GivesUp DEF Fail, SInv, STyped
    <2> QED
      BY <1>1, <1>4, <2>1, StepHome, FailTidy
  <1>5. CASE Background
    <2>1. UNCHANGED <<users, shared, req>>
      BY <1>5 DEF Background, storeVars
    <2> QED
      BY <1>1, <1>5, <2>1, BackgroundTidy, HomesStay DEF TInv
  <1>6. CASE ServiceCrash
    <2>1. UNCHANGED <<users, shared>> /\ \A d \in Caller : req'[d].pc = "idle"
      BY <1>6, IdleIs DEF ServiceCrash
    <2> QED
      BY <1>1, <1>6, <2>1, CrashTidy, HomesStay DEF TInv
  <1>7. CASE UNCHANGED shareVars
    <2>1. UNCHANGED <<users, until, shared, contended, cut, req, rows>>
      BY <1>7 DEF shareVars, storeVars, userActionVars
    <2>2. \A u \in User : OnlyMarked(u)
      <3>1. \A u \in User : RowsOf(u)' = RowsOf(u)
        BY <2>1 DEF RowsOf
      <3> QED
        BY <3>1, SameRows
    <2> QED
      BY <1>1, <2>1, <2>2, RestTidy, HomesStay DEF TInv
  <1> QED
    BY <1>1, <1>2, <1>3, <1>4, <1>5, <1>6, <1>7 DEF ShareNext, TInv

(* What _update_future_actions promises (sharing/share_action_facade.py):    *)
(* between requests, a share that expires has one pending disable, at its    *)
(* expiry, unless that was executed, and a share that never expires has      *)
(* none; however the processes mark rows meanwhile, and for any number of    *)
(* other shares, requests and restarts.  Not of a share two requests were at *)
(* at once, or one of whose requests was cut short.                          *)
THEOREM ExpiryAlwaysReconciled == ShareSpec => []ExpiryReconciled
  <1>1. TInv => ExpiryReconciled
    <2> SUFFICES ASSUME TInv, Calm, NEW u \in shared \ (contended \cup cut)
                 PROVE  LET At_(t) == {r \in RowsOf(u) : r.kind = "disable" /\ r.at = t}
                        IN  IF until[u] = Forever
                              THEN PendingDisables(u) = {}
                              ELSE \/ \E r \in At_(until[u]) : PendingDisables(u) = {r}
                                   \/ PendingDisables(u) = {} /\ At_(until[u]) # {}
      BY DEF ExpiryReconciled
    <2>1. \A c \in Caller : ~On(c, u)
      BY IdleIs DEF Calm, On, Busy
    <2>2. u \in User
      BY DEF TInv, SInv, STyped, StoreTypeOK
    <2>3. Reconciled(u)
      BY <2>1, <2>2 DEF TInv, Tidied, Tidy
    <2>4. CASE PendingDisables(u) = {} /\ until[u] = Forever
      BY <2>4
    <2>5. ASSUME NEW r \in RowsOf(u), until[u] # Forever, r.kind = "disable", r.at = until[u],
                 PendingDisables(u) \subseteq {r}
          PROVE  \/ \E s \in {s \in RowsOf(u) : s.kind = "disable" /\ s.at = until[u]} :
                        PendingDisables(u) = {s}
                 \/ /\ PendingDisables(u) = {}
                    /\ {s \in RowsOf(u) : s.kind = "disable" /\ s.at = until[u]} # {}
      <3>1. r \in {s \in RowsOf(u) : s.kind = "disable" /\ s.at = until[u]}
        BY <2>5
      <3>2. PendingDisables(u) = {} \/ PendingDisables(u) = {r}
        BY <2>5
      <3> QED
        BY <3>1, <3>2
    <2> QED
      BY <2>3, <2>4, <2>5 DEF Reconciled
  <1>2. ShareSpec => []TInv
    BY TidyInit, TidyNext, PTL DEF ShareSpec
  <1> QED
    BY <1>1, <1>2, PTL
===============================================================================
