---------------------------- MODULE UserActions ----------------------------
(***************************************************************************)
(* The user_action rows and who works on them: the clients that add and    *)
(* remove rows through NotifyingUserActionRepo, and the disable and enable *)
(* processes (_UserActionByKindProcessImpl), run one after the other by    *)
(* the scheduler loop.  The scheduler appears as what it promises its      *)
(* processes (WakeupPromise), one process for each kind of action.         *)
(*                                                                         *)
(* Abstractions: executed_at is a stamp that grows from one run() to the   *)
(* next (two runs never share an instant); a row is read, or written, in   *)
(* one statement; next_wakeup's read and the schedule() of its answer are  *)
(* one step, as a push that falls between them commutes with both.         *)
(* Kind "delete", for which nothing listens and nothing runs, is left out. *)
(***************************************************************************)
EXTENDS Naturals, FiniteSets

CONSTANTS User,      \* users with scheduled actions
          MaxTime,   \* bound on time
          MaxRows,   \* bound on the rows ever added
          CanCrash   \* may the service die?

ASSUME RowsAssumption == MaxTime \in Nat /\ MaxRows \in Nat /\ CanCrash \in BOOLEAN

Kind == {"disable", "enable"}

Time == 0..MaxTime

\* A row of user_action; done = 0 is executed_at NULL.
Row == [id : 1..MaxRows, user : User, kind : Kind, at : Time, done : 0..MaxRows]

VARIABLES
  now,      \* get_now() of everybody
  wake,     \* per kind, the pending wakeup of its process
  up,       \* does the process, with its scheduler, run?
  rows,     \* table user_action
  made,     \* the rows ever added
  pushes,   \* ids of the rows inserted by an add_action that has not reached _maybe_wake
  place,    \* what the loop awaits: see Place
  toSeed,   \* the kinds left to ask at boot
  kind,     \* whose run() or next_wakeup() it is
  batch,    \* ids of the due rows that run() still has to mark
  stamp     \* the instant run() marks them with

loopVars == <<place, toSeed, kind, batch, stamp>>
userActionVars == <<now, wake, up, rows, made, pushes, loopVars>>

\* idle: between two wakeups; asking: in next_wakeup(); fetching: in run(),
\* before its rows are read; marking: in run(), one UPDATE after the other.
Place == {"idle", "asking", "fetching", "marking"}

Scheduler == INSTANCE WakeupPromise WITH
  Process <- Kind, pending <- wake, serving <- up

UserActionsTypeOK ==
  /\ Scheduler!PromiseTypeOK
  /\ rows \subseteq Row
  /\ made \in 0..MaxRows
  /\ pushes \subseteq 1..MaxRows
  /\ place \in Place
  /\ toSeed \subseteq Kind
  /\ kind \in Kind
  /\ batch \subseteq 1..MaxRows
  /\ stamp \in 0..MaxRows

UserActionsInit ==
  /\ Scheduler!PromiseInit
  /\ rows = {} /\ made = 0 /\ pushes = {}
  /\ place = "idle" /\ toSeed = {}
  /\ kind = "disable"
  /\ batch = {} /\ stamp = 0

IsPending(r) == r.done = 0

\* FilterUserAction(action=k, executed_at=None)
PendingOf(k) == {r \in rows : r.kind = k /\ IsPending(r)}

\* Seeded fault: the rows of the kind, due or not.
PendingIsDue(k) == PendingOf(k)

\* _fetch_due_pending
DueOf(k) == {r \in PendingOf(k) : r.at <= now}

\* RepoUserContext.is_disabled: the newest executed action is a disable.
IsDisabled(u) ==
  \E r \in rows :
    /\ r.user = u /\ r.kind = "disable" /\ ~IsPending(r)
    /\ \A s \in rows : s.user = u /\ s.done > r.done => s.kind # "enable"

-----------------------------------------------------------------------------
(* Clients *)

\* Seeded fault: the id of a row is the number of rows before it.
InsertRowMisnumbered(u, k, at) ==
  /\ made < MaxRows
  /\ made' = made + 1
  /\ rows' = rows \cup
       {[id |-> made, user |-> u, kind |-> k, at |-> at, done |-> 0]}
  /\ pushes' = pushes \cup {made + 1}

\* add_action up to the return of the INSERT.
InsertRow(u, k, at) ==
  /\ made < MaxRows
  /\ made' = made + 1
  /\ rows' = rows \cup
       {[id |-> made + 1, user |-> u, kind |-> k, at |-> at, done |-> 0]}
  /\ pushes' = pushes \cup {made + 1}

\* The one caller adds a disable at any time and an enable for right now.
AddAction(u, k, at) ==
  /\ up
  /\ k = "enable" => at = now
  /\ InsertRow(u, k, at)
  /\ UNCHANGED <<now, wake, up, loopVars>>

\* _maybe_wake: the handle of the row's kind; a covered request changes nothing.
MaybeWake(i) ==
  /\ i \in pushes
  /\ pushes' = pushes \ {i}
  /\ \/ \E r \in rows : r.id = i /\ Scheduler!Request(r.kind, r.at)
     \/ /\ \A r \in rows : r.id = i => wake[r.kind] <= r.at
        /\ UNCHANGED <<now, wake, up>>
  /\ UNCHANGED <<rows, made, loopVars>>

\* remove_action.  Removing a missing row raises to the caller.  A row is only
\* removed by its id, which its creator has once add_action returned.
RemoveRow(i) ==
  /\ \E r \in rows : r.id = i
  /\ rows' = {r \in rows : r.id # i}

RemoveAction(i) ==
  /\ up
  /\ i \notin pushes
  /\ RemoveRow(i)
  /\ UNCHANGED <<now, wake, up, made, pushes, loopVars>>

-----------------------------------------------------------------------------
(* The processes *)

\* Seeded fault: next_wakeup() of a kind with overdue rows says None.
AskForgetful ==
  /\ place = "asking"
  /\ place' = "idle"
  /\ UNCHANGED <<now, wake, up, rows, made, pushes, toSeed, kind, batch, stamp>>

\* next_wakeup(), and schedule() of its answer: the earliest due row.
Ask ==
  /\ place = "asking"
  /\ place' = "idle"
  /\ \/ \E r \in DueOf(kind) :
          /\ \A s \in DueOf(kind) : r.at <= s.at
          /\ IF r.at < wake[kind] THEN Scheduler!Request(kind, r.at)
                                  ELSE UNCHANGED <<now, wake, up>>
     \/ DueOf(kind) = {} /\ UNCHANGED <<now, wake, up>>
  /\ UNCHANGED <<rows, made, pushes, toSeed, kind, batch, stamp>>

\* Boot: the scheduler asks every process once before it serves a wakeup.
SeedKind(k) ==
  /\ up /\ place = "idle" /\ k \in toSeed
  /\ toSeed' = toSeed \ {k}
  /\ kind' = k
  /\ place' = "asking"
  /\ UNCHANGED <<now, wake, up, rows, made, pushes, batch, stamp>>

\* The scheduler calls run() of the process whose wakeup is due and earliest.
CallRun(k) ==
  /\ place = "idle" /\ toSeed = {}
  /\ Scheduler!Serve(k)
  /\ kind' = k
  /\ place' = "fetching"
  /\ UNCHANGED <<rows, made, pushes, toSeed, batch, stamp>>

\* get_now() in run(): a later instant than every executed_at there is.
IsNextStamp(n) ==
  /\ \A r \in rows : r.done < n
  /\ n = 1 \/ \E r \in rows : r.done = n - 1

\* run(): the due rows and the instant they will be marked with.
FetchDue ==
  /\ place = "fetching"
  /\ batch' = {r.id : r \in DueOf(kind)}
  /\ \/ DueOf(kind) = {} /\ place' = "asking" /\ stamp' = stamp
     \/ /\ DueOf(kind) # {}
        /\ place' = "marking"
        /\ \E n \in 1..MaxRows : IsNextStamp(n) /\ stamp' = n
  /\ UNCHANGED <<now, wake, up, rows, made, pushes, toSeed, kind>>

\* update_action of one row of the batch.  It raises if the row is gone, which
\* ends run() with the rest of the batch unmarked.
MarkExecuted(i) ==
  /\ place = "marking"
  /\ i \in batch
  /\ IF \E r \in rows : r.id = i
       THEN /\ rows' = {IF r.id = i THEN [r EXCEPT !.done = stamp] ELSE r : r \in rows}
            /\ batch' = batch \ {i}
       ELSE rows' = rows /\ batch' = {}
  /\ place' = IF batch' = {} THEN "asking" ELSE "marking"
  /\ UNCHANGED <<now, wake, up, made, pushes, toSeed, kind, stamp>>

-----------------------------------------------------------------------------
(* The process of the service dies and comes back: the rows stay. *)

\* Seeded fault: the processes are not asked at boot.
BootUnseeded ==
  /\ ~up
  /\ up' = TRUE
  /\ UNCHANGED <<now, wake, rows, made, pushes, loopVars>>

Boot ==
  /\ ~up
  /\ up' = TRUE
  /\ toSeed' = Kind
  /\ UNCHANGED <<now, wake, rows, made, pushes, place, kind, batch, stamp>>

Crash ==
  /\ CanCrash
  /\ up
  /\ up' = FALSE
  /\ wake' = [k \in Kind |-> Scheduler!Never]
  /\ pushes' = {} /\ toSeed' = {} /\ batch' = {} /\ place' = "idle"
  /\ UNCHANGED <<now, rows, made, kind, stamp>>

Tick ==
  /\ Scheduler!Advance
  /\ UNCHANGED <<rows, made, pushes, loopVars>>

ProcessStep ==
  \/ \E k \in Kind : SeedKind(k) \/ CallRun(k)
  \/ Ask
  \/ FetchDue
  \/ \E i \in 1..MaxRows : MarkExecuted(i)

PushStep == \E i \in 1..MaxRows : MaybeWake(i)

UserActionsNext ==
  \/ \E u \in User, k \in Kind, at \in Time : AddAction(u, k, at)
  \/ \E i \in 1..MaxRows : RemoveAction(i)
  \/ PushStep
  \/ ProcessStep
  \/ Boot
  \/ Crash
  \/ Tick

\* The loop and the callers of add_action are asyncio tasks that keep being
\* run, statements return, time passes, and the service is started again.
UserActionsFairness ==
  /\ WF_userActionVars(ProcessStep)
  /\ WF_userActionVars(PushStep)
  /\ WF_userActionVars(Boot)
  /\ WF_userActionVars(Tick)

UserActionsSpec == UserActionsInit /\ [][UserActionsNext]_userActionVars

UserActionsFairSpec == UserActionsSpec /\ UserActionsFairness

-----------------------------------------------------------------------------
(* Properties *)

\* An action is executed no earlier than its execute_at, once, and what its row
\* says is never changed again: whatever is removed, added or restarted while
\* run() marks its batch.
ExecutesOnTimeOnce ==
  [][\A r \in rows : \A s \in rows' :
       r.id = s.id /\ r # s =>
         r.done = 0 /\ r.at <= now /\ s = [r EXCEPT !.done = s.done]]_userActionVars

Settled(i) == ~\E r \in rows : r.id = i /\ IsPending(r)

\* A row that its process looks at once it is due (at boot, when it is run, or
\* when it is asked again) gets executed, unless it is removed or the service
\* dies, even if a row removed under run() cut that run short.
SeenRowsExecuted ==
  \A i \in 1..MaxRows :
    (place \in {"asking", "fetching"} /\ \E r \in DueOf(kind) : r.id = i)
      ~> (Settled(i) \/ ~up)

\* "so the enable background process picks it up on its next tick": an enable,
\* which is due when it is queued, is executed, unless it is removed or the
\* service dies; and if the service dies, once it is back.
EnableRowsExecuted ==
  \A i \in 1..MaxRows :
    (up /\ \E r \in PendingOf("enable") : r.id = i) ~> (Settled(i) \/ ~up)

\* notifying_user_action_repo.py: the scheduler re-derives the next wakeup by
\* its own poll, so that a dropped push is safe: a row that is due is executed,
\* or removed, in the end.
DueRowsExecuted ==
  \A i \in 1..MaxRows :
    (\E r \in rows : r.id = i /\ r.at <= now) ~> (Settled(i) \/ ~up)
=============================================================================
