--------------------------- MODULE ShareLifecycle ---------------------------
(***************************************************************************)
(* Public-link shares: SharingServiceImpl over ShareActionFacade over the  *)
(* tables shared, users and user_action and the SpiceDB tuples, with the   *)
(* user-action processes of UserActions at work next to it.  A caller is   *)
(* one gRPC request being handled; it gives way at every await, and any    *)
(* statement that raises ends it where it is.                              *)
(*                                                                         *)
(* Abstractions: one note; a share is named by its temporary access user,  *)
(* which is made for it and never reused; the caller holds the rights the  *)
(* service checks (a refused caller changes nothing); the activity log and *)
(* the descriptive columns are left out.                                   *)
(***************************************************************************)
EXTENDS UserActions

CONSTANTS Caller,  \* requests in flight
          Ops      \* the kinds of requests there are

ASSUME OpsAssumption == Ops \subseteq {"create", "update", "delete"}

\* online_until: a time, or NULL.
Forever == MaxTime + 1
Expiry == 0..Forever
Relation == {"reader", "writer"}

\* What an update does not mention is UNDEFINED.
KeepExpiry == MaxTime + 2
KeepPerm == "keep"

VARIABLES
  users,    \* table users, the temporary ones
  usedIds,  \* every temporary user there ever was
  shared,   \* table shared: the users whose row exists
  until,    \* its online_until column
  tuples,   \* SpiceDB: <<user, relation>> on the note
  updated,   \* history: the shares an update_share was called for
  contended, \* history: the shares two requests worked on at once
  cut,       \* history: the shares a request about which did not end
  req       \* the request of each caller: see Request

storeVars == <<users, usedIds, shared, until, tuples, updated, contended, cut>>
shareVars == <<userActionVars, storeVars, req>>

\* What a request may be about to do.
Step == {"insertUser", "insertShare", "fetchPending", "dropPending",
         "checkDisabled", "queueEnable", "schedule", "finish", "insertTuple",
         "dropReader", "dropWriter", "swapTuple", "updateRow",
         "deleteTuples", "deleteRow", "fetchActions", "purge"}

\* A request: where it is, its arguments, the ids of the action rows it is about
\* to remove, and the id of the last one it added.
Request == [pc : Step, op : Ops, share : User,
            expiry : Expiry \cup {KeepExpiry}, perm : Relation \cup {KeepPerm},
            drop : SUBSET (1..MaxRows), added : 0..MaxRows]

Idle == [pc |-> "idle"]

ShareTypeOK ==
  /\ UserActionsTypeOK
  /\ users \subseteq User /\ usedIds \subseteq User /\ shared \subseteq User
  /\ until \in [User -> Expiry]
  /\ tuples \subseteq User \X Relation
  /\ updated \subseteq User /\ contended \subseteq User /\ cut \subseteq User
  /\ \A c \in Caller : req[c] = Idle \/ req[c] \in Request

ShareInit ==
  /\ UserActionsInit
  /\ users = {} /\ usedIds = {} /\ shared = {} /\ tuples = {} 
  /\ updated = {} /\ contended = {} /\ cut = {}
  /\ until = [u \in User |-> Forever]
  /\ req = [c \in Caller |-> Idle]

\* Request c is at step a; it goes on to step b, or ends, returning or raising.
At(c, a) == up /\ req[c].pc = a
Goto(c, b) == req' = [req EXCEPT ![c].pc = b]
End(c) == req' = [req EXCEPT ![c] = Idle]

TuplesOf(u) == {t \in tuples : t[1] = u}
RowsOf(u) == {r \in rows : r.user = u}
PendingDisables(u) == RowsOf(u) \cap PendingOf("disable")
IdsOf(S) == {r.id : r \in S}

Begin(c, name, u, e, p, first) ==
  /\ At(c, "idle")
  /\ name \in Ops
  /\ req' = [req EXCEPT ![c] = [pc |-> first, op |-> name, share |-> u, expiry |-> e,
                              perm |-> p, drop |-> {}, added |-> 0]]
  /\ contended' = IF \E d \in Caller \ {c} : req[d] # Idle /\ req[d].share = u
                    THEN contended \cup {u} ELSE contended

-----------------------------------------------------------------------------
(* create_share *)

BeginCreate(c, u, e, p) ==
  /\ u \notin usedIds
  /\ \A d \in Caller : At(d, "insertUser") => req[d].share # u
  /\ Begin(c, "create", u, e, p, "insertUser")
  /\ UNCHANGED <<userActionVars, users, usedIds, shared, until, tuples, updated, cut>>

\* _create_access_user
InsertUser(c) ==
  /\ At(c, "insertUser")
  /\ usedIds' = usedIds \cup {req[c].share}
  /\ users' = users \cup {req[c].share}
  /\ Goto(c, "insertShare")
  /\ UNCHANGED <<userActionVars, shared, until, tuples, updated, contended, cut>>

InsertShare(c) ==
  /\ At(c, "insertShare")
  /\ shared' = shared \cup {req[c].share}
  /\ until' = [until EXCEPT ![req[c].share] = req[c].expiry]
  /\ Goto(c, "fetchPending")
  /\ UNCHANGED <<userActionVars, users, usedIds, tuples, updated, contended, cut>>

\* The tuple is inserted last: a share is usable only when it is complete.
InsertTuple(c) ==
  /\ At(c, "insertTuple")
  /\ tuples' = tuples \cup {<<req[c].share, req[c].perm>>}
  /\ End(c)
  /\ UNCHANGED <<userActionVars, users, usedIds, shared, until, updated, contended, cut>>

-----------------------------------------------------------------------------
(* update_share *)

BeginUpdate(c, u, e, p) ==
  /\ u \in shared
  /\ Begin(c, "update", u, e, p, IF p = KeepPerm THEN "updateRow" ELSE "dropReader")
  /\ updated' = updated \cup {u}
  /\ UNCHANGED <<userActionVars, users, usedIds, shared, until, tuples, cut>>

\* _replace_share_permission: three calls.
SwapTuple(c) ==
  /\ \/ /\ At(c, "dropReader")
        /\ tuples' = tuples \ {<<req[c].share, "reader">>}
        /\ Goto(c, "dropWriter")
     \/ /\ At(c, "dropWriter")
        /\ tuples' = tuples \ {<<req[c].share, "writer">>}
        /\ Goto(c, "swapTuple")
     \/ /\ At(c, "swapTuple")
        /\ tuples' = tuples \cup {<<req[c].share, req[c].perm>>}
        /\ Goto(c, "updateRow")
  /\ UNCHANGED <<userActionVars, users, usedIds, shared, until, updated, contended, cut>>

\* Seeded fault: an online_until that was not mentioned is written too.
UpdateRowBlindly(c) ==
  /\ At(c, "updateRow")
  /\ req[c].share \in shared
  /\ until' = [until EXCEPT ![req[c].share] = req[c].expiry]
  /\ Goto(c, "fetchPending")
  /\ UNCHANGED <<userActionVars, users, usedIds, shared, tuples, updated, contended, cut>>

UpdateRow(c) ==
  /\ At(c, "updateRow")
  /\ \/ /\ req[c].share \in shared /\ req[c].expiry # KeepExpiry
        /\ until' = [until EXCEPT ![req[c].share] = req[c].expiry]
        /\ Goto(c, "fetchPending")
     \/ /\ req[c].share \notin shared \/ req[c].expiry = KeepExpiry
        /\ until' = until
        /\ End(c)
  /\ UNCHANGED <<userActionVars, users, usedIds, shared, tuples, updated, contended, cut>>

-----------------------------------------------------------------------------
(* _update_future_actions, for create_share and update_share *)

FetchPending(c) ==
  /\ At(c, "fetchPending")
  /\ req' = [req EXCEPT ![c].pc = "dropPending",
                       ![c].drop = IdsOf(PendingDisables(req[c].share))]
  /\ UNCHANGED <<userActionVars, storeVars>>

\* remove_action of the rows listed, one by one; it raises on a missing row.
RemoveListed(c) ==
  \E i \in req[c].drop :
    \/ /\ RemoveRow(i)
       /\ req' = [req EXCEPT ![c].drop = @ \ {i}]
    \/ /\ \A r \in rows : r.id # i
       /\ End(c)
       /\ UNCHANGED rows

\* Seeded fault: the pending rows are listed and not removed.
DropNothing(c) ==
  /\ At(c, "dropPending")
  /\ Goto(c, IF req[c].expiry > now THEN "checkDisabled" ELSE "schedule")
  /\ UNCHANGED <<userActionVars, storeVars>>

DropPending(c) ==
  /\ At(c, "dropPending")
  /\ \/ /\ RemoveListed(c)
        /\ UNCHANGED <<now, wake, up, made, pushes, loopVars>>
     \/ /\ req[c].drop = {}
        /\ Goto(c, IF req[c].expiry > now THEN "checkDisabled" ELSE "schedule")
        /\ UNCHANGED userActionVars
  /\ UNCHANGED <<storeVars>>

CheckDisabled(c) ==
  /\ At(c, "checkDisabled")
  /\ Goto(c, IF IsDisabled(req[c].share) THEN "queueEnable" ELSE "schedule")
  /\ UNCHANGED <<userActionVars, storeVars>>

\* add_action by caller c: the INSERT raises if the user is gone.
AddRow(c, k, at, next) ==
  \/ /\ req[c].share \in users
     /\ InsertRow(req[c].share, k, at)
     /\ req' = [req EXCEPT ![c].pc = next, ![c].added = made + 1]
  \/ /\ req[c].share \notin users
     /\ End(c)
     /\ UNCHANGED <<rows, made, pushes>>

QueueEnable(c) ==
  /\ At(c, "queueEnable")
  /\ AddRow(c, "enable", now, "schedule")
  /\ UNCHANGED <<now, wake, up, loopVars, storeVars>>

\* Seeded fault: the disable is queued for the present.
ScheduleNow(c) ==
  /\ At(c, "schedule")
  /\ req[c].added \notin pushes
  /\ AddRow(c, "disable", now, "finish")
  /\ UNCHANGED <<now, wake, up, loopVars, storeVars>>

\* The new due date, once the push of the enable is done.
Schedule(c) ==
  /\ At(c, "schedule")
  /\ req[c].added \notin pushes
  /\ \/ req[c].expiry # Forever /\ AddRow(c, "disable", req[c].expiry, "finish")
     \/ /\ req[c].expiry = Forever
        /\ Goto(c, "finish")
        /\ UNCHANGED <<rows, made, pushes>>
  /\ UNCHANGED <<now, wake, up, loopVars, storeVars>>

Finish(c) ==
  /\ At(c, "finish")
  /\ req[c].added \notin pushes
  /\ IF req[c].op = "create" THEN Goto(c, "insertTuple") ELSE End(c)
  /\ UNCHANGED <<userActionVars, storeVars>>

-----------------------------------------------------------------------------
(* delete_shares *)

\* Seeded fault: the tuples are left for the end, which nobody reaches.
BeginDeleteRowFirst(c, u) ==
  /\ u \in shared
  /\ Begin(c, "delete", u, KeepExpiry, KeepPerm, "deleteRow")
  /\ UNCHANGED <<userActionVars, users, usedIds, shared, until, tuples, updated, cut>>

BeginDelete(c, u) ==
  /\ u \in shared
  /\ Begin(c, "delete", u, KeepExpiry, KeepPerm, "deleteTuples")
  /\ UNCHANGED <<userActionVars, users, usedIds, shared, until, tuples, updated, cut>>

DeleteTuples(c) ==
  /\ At(c, "deleteTuples")
  /\ tuples' = tuples \ TuplesOf(req[c].share)
  /\ Goto(c, "deleteRow")
  /\ UNCHANGED <<userActionVars, users, usedIds, shared, until, updated, contended, cut>>

DeleteRow(c) ==
  /\ At(c, "deleteRow")
  /\ shared' = shared \ {req[c].share}
  /\ IF req[c].share \in shared THEN Goto(c, "fetchActions") ELSE End(c)
  /\ UNCHANGED <<userActionVars, users, usedIds, until, tuples, updated, contended, cut>>

FetchActions(c) ==
  /\ At(c, "fetchActions")
  /\ req' = [req EXCEPT ![c].pc = "purge",
                       ![c].drop = IdsOf(RowsOf(req[c].share))]
  /\ UNCHANGED <<userActionVars, storeVars>>

\* The action rows, and then the user; what refers to it goes with it.
Purge(c) ==
  /\ At(c, "purge")
  /\ \/ RemoveListed(c) /\ UNCHANGED <<users, shared>>
     \/ /\ req[c].drop = {}
        /\ users' = users \ {req[c].share}
        /\ shared' = shared \ {req[c].share}
        /\ rows' = rows \ RowsOf(req[c].share)
        /\ End(c)
  /\ UNCHANGED <<now, wake, up, made, pushes, loopVars, usedIds, until, tuples,
                 updated, contended, cut>>

-----------------------------------------------------------------------------

\* A request ends where it is: a statement raised (the database is away, a probed
\* username was taken in between) or the client went away.
Fail(c) ==
  /\ CanCrash
  /\ up /\ req[c] # Idle
  /\ End(c)
  /\ cut' = cut \cup {req[c].share}
  /\ UNCHANGED <<userActionVars, users, usedIds, shared, until, tuples, updated, contended>>

\* The service dies with its requests; tables and tuples stay.
ServiceCrash ==
  /\ Crash
  /\ req' = [c \in Caller |-> Idle]
  /\ cut' = cut \cup {req[c].share : c \in {d \in Caller : req[d] # Idle}}
  /\ UNCHANGED <<users, usedIds, shared, until, tuples, updated, contended>>

Background ==
  /\ PushStep \/ ProcessStep \/ Boot \/ Tick
  /\ UNCHANGED <<storeVars, req>>

BeginRequest(c) ==
  \/ \E u \in User, e \in Expiry, p \in Relation : BeginCreate(c, u, e, p)
  \/ \E u \in User, e \in Expiry \cup {KeepExpiry}, p \in Relation \cup {KeepPerm} :
        BeginUpdate(c, u, e, p)
  \/ \E u \in User : BeginDelete(c, u)

Continue(c) ==
  \/ InsertUser(c)
  \/ InsertShare(c)
  \/ InsertTuple(c)
  \/ SwapTuple(c)
  \/ UpdateRow(c)
  \/ FetchPending(c)
  \/ DropPending(c)
  \/ CheckDisabled(c)
  \/ QueueEnable(c)
  \/ Schedule(c)
  \/ Finish(c)
  \/ DeleteTuples(c)
  \/ DeleteRow(c)
  \/ FetchActions(c)
  \/ Purge(c)

ShareNext ==
  \/ \E c \in Caller : BeginRequest(c) \/ Continue(c) \/ Fail(c)
  \/ Background
  \/ ServiceCrash

ShareSpec == ShareInit /\ [][ShareNext]_shareVars

-----------------------------------------------------------------------------
(* Properties *)

Calm == \A c \in Caller : req[c] = Idle

\* Denied until complete: a share that no update was asked for lets somebody in
\* only if the disable for its expiry is queued (or already executed), whatever
\* other requests are going on and wherever the service died.
GuardedAccess ==
  \A u \in shared \ updated :
    TuplesOf(u) # {} /\ until[u] # Forever =>
      \E r \in RowsOf(u) : r.kind = "disable" /\ r.at = until[u]

\* An access user never holds a relation without a share row to revoke it by,
\* even if the service dies: creation inserts the relation last, deletion drops it
\* first.  Two requests at once on one share may leave such a relation behind.
TupleHasShare ==
  \A u \in User \ contended : TuplesOf(u) # {} => u \in shared

\* _update_future_actions: when no request is under way, a share that expires
\* has exactly one pending disable, at its online_until, unless that disable was
\* executed; a share that never expires has none.  Not so for a share two requests
\* worked on at once, or one of whose requests was cut short.
ExpiryReconciled ==
  Calm => \A u \in shared \ (contended \cup cut) :
    LET At_(t) == {r \in RowsOf(u) : r.kind = "disable" /\ r.at = t}
    IN  IF until[u] = Forever
          THEN PendingDisables(u) = {}
          ELSE \/ \E r \in At_(until[u]) : PendingDisables(u) = {r}
               \/ PendingDisables(u) = {} /\ At_(until[u]) # {}
=============================================================================
