-------------------------- MODULE UserActions_proofs --------------------------
(***************************************************************************)
(* The rows of user_action, for any users, times, numbers of rows and      *)
(* deaths of the service: types, and that an action is executed on time    *)
(* and once.  The second needs that ids identify rows (Identified), and    *)
(* that whatever row of the batch is still there is due and unmarked       *)
(* (BatchIsDue): removals only take from it, additions have new ids, and   *)
(* only the loop marks.                                                    *)
(***************************************************************************)
EXTENDS UserActions, TLAPS

Identified ==
    /\ \A r \in rows : r.id \in 1..made
    /\ \A r \in rows, s \in rows : r.id = s.id => r = s
    /\ batch \subseteq 1..made

BatchIsDue == \A r \in rows : r.id \in batch => r.done = 0 /\ r.at <= now

UInv == UserActionsTypeOK /\ Identified /\ BatchIsDue

\* One step changes no row but those that are due and unmarked, and these only by
\* marking them.
Marks == \A r \in rows : \A s \in rows' :
            r.id = s.id /\ r # s => r.done = 0 /\ r.at <= now /\ s = [r EXCEPT !.done = s.done]

USE DEF Scheduler!Never

LEMMA StartsUInv == UserActionsInit => UInv
  <1> SUFFICES ASSUME UserActionsInit PROVE UInv
    OBVIOUS
  <1>1. /\ now = 0 /\ wake = [p \in Kind |-> MaxTime + 1] /\ up = FALSE
        /\ rows = {} /\ made = 0 /\ pushes = {}
        /\ place = "idle" /\ toSeed = {} /\ kind = "disable" /\ batch = {} /\ stamp = 0
    BY DEF UserActionsInit, Scheduler!PromiseInit
  <1>2. UserActionsTypeOK
    <2>1. MaxTime + 1 \in 0..(MaxTime + 1) /\ 0 \in 0..MaxTime /\ 0 \in 0..MaxRows
      BY RowsAssumption
    <2>2. Scheduler!PromiseTypeOK
      BY <1>1, <2>1 DEF Scheduler!PromiseTypeOK
    <2>3. kind \in Kind /\ place \in Place /\ toSeed \subseteq Kind
      BY <1>1 DEF Kind, Place
    <2> QED
      BY <1>1, <2>1, <2>2, <2>3 DEF UserActionsTypeOK
  <1> QED
    BY <1>1, <1>2 DEF UInv, Identified, BatchIsDue

\* What the clients do to the rows.
LEMMA InsertKeeps ==
  ASSUME UInv, NEW u \in User, NEW k \in Kind, NEW at \in Time, InsertRow(u, k, at),
         UNCHANGED <<now, wake, up, loopVars>>
  PROVE  UInv' /\ Marks
  <1> DEFINE new == [id |-> made + 1, user |-> u, kind |-> k, at |-> at, done |-> 0]
  <1>1. /\ made < MaxRows /\ made' = made + 1 /\ rows' = rows \cup {new}
        /\ pushes' = pushes \cup {made + 1}
        /\ UNCHANGED <<now, wake, up, place, toSeed, kind, batch, stamp>>
    BY DEF InsertRow, loopVars
  <1>2. made \in Nat /\ MaxRows \in Nat /\ made + 1 \in 1..MaxRows
    BY <1>1, RowsAssumption DEF UInv, UserActionsTypeOK
  <1>3. new \in Row
    BY <1>2 DEF Row
  <1>4. UserActionsTypeOK'
    BY <1>1, <1>2, <1>3 DEF UInv, UserActionsTypeOK, Scheduler!PromiseTypeOK
  <1>5. \A r \in rows : r.id \in 1..made /\ r.id # made + 1
    BY <1>2 DEF UInv, Identified
  <1>6. made + 1 \notin batch /\ batch \subseteq 1..made'
    BY <1>1, <1>2 DEF UInv, Identified
  <1>7. Identified' /\ BatchIsDue'
    BY <1>1, <1>2, <1>5, <1>6 DEF UInv, Identified, BatchIsDue
  <1>8. Marks
    BY <1>1, <1>5 DEF Marks, UInv, Identified
  <1> QED
    BY <1>4, <1>7, <1>8 DEF UInv

LEMMA AddKeeps ==
  ASSUME UInv, NEW u \in User, NEW k \in Kind, NEW at \in Time, AddAction(u, k, at)
  PROVE  UInv' /\ Marks
  BY InsertKeeps DEF AddAction

LEMMA FewerRowsKeep ==
  ASSUME UInv, rows' \subseteq rows, UNCHANGED <<now, wake, up, made, pushes, loopVars>>
  PROVE  UInv' /\ Marks
  <1>1. UNCHANGED <<now, wake, up, made, pushes, place, toSeed, kind, batch, stamp>>
    BY DEF loopVars
  <1>2. UserActionsTypeOK'
    BY <1>1 DEF UInv, UserActionsTypeOK, Scheduler!PromiseTypeOK
  <1> QED
    BY <1>1, <1>2 DEF UInv, Identified, BatchIsDue, Marks

LEMMA RemoveKeeps ==
  ASSUME UInv, NEW i \in 1..MaxRows, RemoveAction(i)
  PROVE  UInv' /\ Marks
  BY FewerRowsKeep DEF RemoveAction, RemoveRow

\* What leaves rows, time and the batch alone, or empties the batch.
LEMMA Otherwise ==
  ASSUME UInv, UserActionsTypeOK', rows' = rows, made' = made, batch' \subseteq batch, now' \in {now, now + 1}
  PROVE  UInv' /\ Marks
  <1>1. now \in Nat /\ \A r \in rows : r.at \in Nat
    BY RowsAssumption DEF UInv, UserActionsTypeOK, Scheduler!PromiseTypeOK, Row, Time
  <1>2. Identified' /\ BatchIsDue'
    BY <1>1 DEF UInv, Identified, BatchIsDue
  <1>3. Marks
    BY DEF UInv, Identified, Marks
  <1> QED
    BY <1>2, <1>3 DEF UInv

LEMMA RequestTyped ==
  ASSUME UInv, NEW k \in Kind, NEW t \in Time, Scheduler!Request(k, t)
  PROVE  wake' \in [Kind -> 0..Scheduler!Never] /\ now' = now /\ up' = up
  <1>1. t \in 0..(MaxTime + 1)
    BY RowsAssumption DEF Time
  <1> QED
    BY <1>1 DEF UInv, UserActionsTypeOK, Scheduler!PromiseTypeOK, Scheduler!Request

LEMMA PushKeeps ==
  ASSUME UInv, NEW i \in 1..MaxRows, MaybeWake(i)
  PROVE  UInv' /\ Marks
  <1>1. /\ pushes' = pushes \ {i}
        /\ UNCHANGED <<rows, made, place, toSeed, kind, batch, stamp>>
        /\ (\E r \in rows : Scheduler!Request(r.kind, r.at)) \/ UNCHANGED <<now, wake, up>>
    BY DEF MaybeWake, loopVars
  <1>2. \A r \in rows : r.kind \in Kind /\ r.at \in Time
    BY DEF UInv, UserActionsTypeOK, Row
  <1>3. wake' \in [Kind -> 0..Scheduler!Never] /\ now' = now /\ up' = up
    BY <1>1, <1>2, RequestTyped DEF UInv, UserActionsTypeOK, Scheduler!PromiseTypeOK
  <1>4. UserActionsTypeOK'
    BY <1>1, <1>3 DEF UInv, UserActionsTypeOK, Scheduler!PromiseTypeOK
  <1> QED
    BY <1>1, <1>3, <1>4, Otherwise

LEMMA AskKeeps ==
  ASSUME UInv, Ask
  PROVE  UInv' /\ Marks
  <1>1. /\ place' = "idle"
        /\ UNCHANGED <<rows, made, pushes, toSeed, kind, batch, stamp>>
        /\ (\E r \in rows : Scheduler!Request(kind, r.at)) \/ UNCHANGED <<now, wake, up>>
    BY DEF Ask, DueOf, PendingOf
  <1>2. kind \in Kind /\ \A r \in rows : r.at \in Time
    BY DEF UInv, UserActionsTypeOK, Row
  <1>3. wake' \in [Kind -> 0..Scheduler!Never] /\ now' = now /\ up' = up
    BY <1>1, <1>2, RequestTyped DEF UInv, UserActionsTypeOK, Scheduler!PromiseTypeOK
  <1>4. UserActionsTypeOK'
    BY <1>1, <1>3 DEF UInv, UserActionsTypeOK, Scheduler!PromiseTypeOK, Place
  <1> QED
    BY <1>1, <1>3, <1>4, Otherwise

LEMMA CallKeeps ==
  ASSUME UInv, NEW k \in Kind, SeedKind(k) \/ CallRun(k)
  PROVE  UInv' /\ Marks
  <1>1. /\ kind' = k /\ place' \in {"asking", "fetching"} /\ toSeed' \subseteq toSeed
        /\ UNCHANGED <<now, up, rows, made, pushes, batch, stamp>>
        /\ wake' = wake \/ wake' = [wake EXCEPT ![k] = MaxTime + 1]
    BY DEF SeedKind, CallRun, Scheduler!Serve
  <1>2. MaxTime + 1 \in 0..(MaxTime + 1)
    BY RowsAssumption
  <1>3. UserActionsTypeOK'
    BY <1>1, <1>2 DEF UInv, UserActionsTypeOK, Scheduler!PromiseTypeOK, Place
  <1> QED
    BY <1>1, <1>3, Otherwise

LEMMA FetchKeeps ==
  ASSUME UInv, FetchDue
  PROVE  UInv' /\ Marks
  <1>1. /\ batch' = {r.id : r \in DueOf(kind)}
        /\ place' \in {"asking", "marking"}
        /\ stamp' = stamp \/ stamp' \in 1..MaxRows
        /\ UNCHANGED <<now, wake, up, rows, made, pushes, toSeed, kind>>
    BY DEF FetchDue
  <1>2. \A r \in rows : r.id \in 1..MaxRows /\ r.id \in 1..made
    BY DEF UInv, UserActionsTypeOK, Identified, Row
  <1>3. DueOf(kind) \subseteq {r \in rows : r.done = 0 /\ r.at <= now}
    BY DEF DueOf, PendingOf, IsPending
  <1>4. batch' \subseteq 1..MaxRows /\ batch' \subseteq 1..made
    BY <1>1, <1>2, <1>3
  <1>5. UserActionsTypeOK'
    <2>1. stamp' \in 0..MaxRows
      BY <1>1, RowsAssumption DEF UInv, UserActionsTypeOK
    <2> QED
      BY <1>1, <1>4, <2>1 DEF UInv, UserActionsTypeOK, Scheduler!PromiseTypeOK, Place
  <1>6. Identified'
    BY <1>1, <1>4 DEF UInv, Identified
  <1>7. BatchIsDue'
    <2> SUFFICES ASSUME NEW r \in rows, r.id \in batch' PROVE r.done = 0 /\ r.at <= now
      BY <1>1 DEF BatchIsDue
    <2>1. PICK s \in DueOf(kind) : s.id = r.id
      BY <1>1
    <2>2. s = r
      BY <1>3, <2>1 DEF UInv, Identified
    <2> QED
      BY <1>3, <2>2
  <1>8. Marks
    BY <1>1 DEF UInv, Identified, Marks
  <1> QED
    BY <1>5, <1>6, <1>7, <1>8 DEF UInv

LEMMA MarkKeeps ==
  ASSUME UInv, NEW i \in 1..MaxRows, MarkExecuted(i)
  PROVE  UInv' /\ Marks
  <1> DEFINE marked(r) == IF r.id = i THEN [r EXCEPT !.done = stamp] ELSE r
  <1>1. /\ i \in batch
        /\ \/ rows' = {marked(r) : r \in rows} /\ batch' = batch \ {i}
           \/ rows' = rows /\ batch' = {}
        /\ place' \in {"asking", "marking"}
        /\ UNCHANGED <<now, wake, up, made, pushes, toSeed, kind, stamp>>
    BY DEF MarkExecuted
  <1>2. CASE rows' = {marked(r) : r \in rows} /\ batch' = batch \ {i}
    <2>1. rows \subseteq Row /\ stamp \in 0..MaxRows
      BY DEF UInv, UserActionsTypeOK
    <2>2. \A r \in rows : /\ marked(r) \in Row /\ marked(r).id = r.id /\ marked(r).at = r.at
                          /\ r.id # i => marked(r) = r
                          /\ r.id = i => marked(r) = [r EXCEPT !.done = stamp]
      BY <2>1 DEF Row
    <2> HIDE DEF marked
    <2>3. rows' \subseteq Row
      BY <1>2, <2>2
    <2>4. UserActionsTypeOK'
      BY <1>1, <1>2, <2>3 DEF UInv, UserActionsTypeOK, Scheduler!PromiseTypeOK, Place
    <2>5. Identified'
      <3>1. \A r \in rows' : r.id \in 1..made'
        BY <1>1, <1>2, <2>2 DEF UInv, Identified
      <3>2. \A r \in rows', s \in rows' : r.id = s.id => r = s
        BY <1>2, <2>2 DEF UInv, Identified
      <3> QED
        BY <1>1, <1>2, <3>1, <3>2 DEF UInv, Identified
    <2>6. BatchIsDue'
      BY <1>1, <1>2, <2>2 DEF UInv, BatchIsDue
    <2>7. Marks
      <3> SUFFICES ASSUME NEW r \in rows, NEW s \in rows', r.id = s.id, r # s
                   PROVE  r.done = 0 /\ r.at <= now /\ s = [r EXCEPT !.done = s.done]
        BY DEF Marks
      <3>1. PICK q \in rows : s = marked(q)
        BY <1>2
      <3>2. q = r
        BY <2>2, <3>1 DEF UInv, Identified
      <3>3. r.id = i /\ s = [r EXCEPT !.done = stamp]
        BY <2>2, <3>1, <3>2
      <3>4. s.done = stamp
        BY <2>1, <3>3 DEF Row
      <3> QED
        BY <1>1, <3>3, <3>4 DEF UInv, BatchIsDue
    <2> QED
      BY <2>4, <2>5, <2>6, <2>7 DEF UInv
  <1>3. CASE rows' = rows /\ batch' = {}
    <2>1. UserActionsTypeOK'
      BY <1>1, <1>3 DEF UInv, UserActionsTypeOK, Scheduler!PromiseTypeOK, Place
    <2> QED
      BY <1>1, <1>3, <2>1, Otherwise
  <1> QED
    BY <1>1, <1>2, <1>3

\* Death, boot and time.
LEMMA ServiceKeeps ==
  ASSUME UInv, Boot \/ Crash \/ Tick
  PROVE  UInv' /\ Marks
  <1>1. CASE Boot
    <2>1. UserActionsTypeOK'
      BY <1>1 DEF Boot, UInv, UserActionsTypeOK, Scheduler!PromiseTypeOK
    <2> QED
      BY <1>1, <2>1, Otherwise DEF Boot
  <1>2. CASE Crash
    <2>1. MaxTime + 1 \in 0..(MaxTime + 1)
      BY RowsAssumption
    <2>2. UserActionsTypeOK'
      BY <1>2, <2>1 DEF Crash, UInv, UserActionsTypeOK, Scheduler!PromiseTypeOK, Place
    <2> QED
      BY <1>2, <2>2, Otherwise DEF Crash
  <1>3. CASE Tick
    <2>1. /\ now < MaxTime /\ now' = now + 1
          /\ UNCHANGED <<wake, up, rows, made, pushes, place, toSeed, kind, batch, stamp>>
      BY <1>3 DEF Tick, Scheduler!Advance, loopVars
    <2>2. now' \in 0..MaxTime
      BY <2>1, RowsAssumption DEF UInv, UserActionsTypeOK, Scheduler!PromiseTypeOK
    <2>3. UserActionsTypeOK'
      BY <2>1, <2>2 DEF UInv, UserActionsTypeOK, Scheduler!PromiseTypeOK
    <2> QED
      BY <2>1, <2>3, Otherwise
  <1> QED
    BY <1>1, <1>2, <1>3

LEMMA UserActionsStep == UInv /\ [UserActionsNext]_userActionVars => UInv' /\ Marks
  <1> SUFFICES ASSUME UInv, [UserActionsNext]_userActionVars PROVE UInv' /\ Marks
    OBVIOUS
  <1>1. CASE UNCHANGED userActionVars
    <2>1. UNCHANGED <<now, wake, up, rows, made, pushes, place, toSeed, kind, batch, stamp>>
      BY <1>1 DEF userActionVars, loopVars
    <2>2. UserActionsTypeOK'
      BY <2>1 DEF UInv, UserActionsTypeOK, Scheduler!PromiseTypeOK
    <2> QED
      BY <2>1, <2>2, Otherwise
  <1>2. CASE UserActionsNext
    BY <1>2, AddKeeps, RemoveKeeps, PushKeeps, AskKeeps, CallKeeps, FetchKeeps, MarkKeeps, ServiceKeeps
       DEF UserActionsNext, PushStep, ProcessStep
  <1> QED
    BY <1>1, <1>2

LEMMA UserActionsAlways == UserActionsSpec => []UInv
  <1>1. UInv /\ [UserActionsNext]_userActionVars => UInv'
    BY UserActionsStep
  <1> QED
    BY <1>1, StartsUInv, PTL DEF UserActionsSpec

(* Rows, pushes, wakeups and the loop are well typed in every reachable      *)
(* state.                                                                    *)
THEOREM UserActionsTyped == UserActionsSpec => []UserActionsTypeOK
  <1>1. UInv => UserActionsTypeOK
    BY DEF UInv
  <1> QED
    BY <1>1, UserActionsAlways, PTL

(* An action is executed no earlier than its execute_at, once, and its row   *)
(* is otherwise never changed (processes/_base.py, run): whatever is added,  *)
(* removed or restarted while a batch is being marked.                       *)
THEOREM ExecutedOnTimeOnce == UserActionsSpec => ExecutesOnTimeOnce
  <1>1. UInv /\ [UserActionsNext]_userActionVars => [Marks]_userActionVars
    BY UserActionsStep
  <1>2. UserActionsSpec => [][Marks]_userActionVars
    BY <1>1, UserActionsAlways, PTL DEF UserActionsSpec
  <1> QED
    BY <1>2 DEF ExecutesOnTimeOnce, Marks
=============================================================================
