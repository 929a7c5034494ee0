------------------------ MODULE BackgroundScheduler ------------------------
(***************************************************************************)
(* BackgroundSchedulerImpl (src/src/services/background_process) with the  *)
(* interruptible clock and the task it runs on.  Everything is one asyncio *)
(* thread: the loop task, the holders of handles (NotifyingUserActionRepo, *)
(* the processes), and whoever calls register, unregister or stop take     *)
(* turns at the awaits, so an action is what one of them does between two  *)
(* awaits.                                                                 *)
(*                                                                         *)
(* Abstractions: `why` payloads and logging are left out; the seeding      *)
(* order of the registered list is left open; what a process answers and   *)
(* how long it runs is free.  MaxTime bounds the clock and MaxSeq the      *)
(* number of heap entries ever made (a holder that would exceed it does    *)
(* not ask).                                                               *)
(***************************************************************************)
EXTENDS Naturals, FiniteSets

CONSTANTS Process,   \* the BackgroundProcessABC instances
          MaxTime,   \* bound on time
          MaxSeq,    \* bound on _seq
          NoEntry    \* the None of _entries_by_process

ASSUME BoundsAssumption == MaxTime \in Nat /\ MaxSeq \in Nat

Time == 0..MaxTime

\* _HeapEntry, without `why`
Entry == [when : Time, seq : 1..MaxSeq, process : Process]

ASSUME NoEntryAssumption == NoEntry \notin Entry

VARIABLES
  now,              \* get_now()
  registered,       \* _registered, which is also the key set of _entries_by_process
  attached,         \* _attached
  bound,            \* the processes that hold a SchedulerHandleABC
  handlesAttached,  \* _handles_attached
  started,          \* _started
  heap,             \* _heap
  entry,            \* _entries_by_process, NoEntry outside registered
  seq,              \* _seq
  clockSet,         \* the flag of _clock
  stopFlag,         \* _stop_flag.is_set()
  stopping,         \* is stop() waiting to join the loop task?
  pc,               \* where the loop task is
  toSeed,           \* what is left of the list(_registered) being seeded
  current,          \* the process the loop runs or asks, when it does
  deadline          \* when the sleep the loop is in ends by itself

regVars  == <<registered, attached, bound, handlesAttached>>
heapVars == <<heap, entry, seq>>
lifeVars == <<started, stopFlag, stopping>>
loopVars == <<toSeed, current, deadline>>
vars == <<now, regVars, heapVars, lifeVars, loopVars, clockSet, pc>>

\* none: no loop task; spawned: not yet run; seeding, looping: runnable, at the
\* head of that loop; asking, running: awaiting next_wakeup() or run() of
\* current; waiting, sleeping: parked on the clock; done, failed: the task ended.
Place == {"none", "spawned", "seeding", "asking", "looping", "running",
          "waiting", "sleeping", "done", "failed"}

TypeOK ==
  /\ now \in Time
  /\ registered \subseteq Process
  /\ attached \subseteq Process
  /\ bound \subseteq Process
  /\ heap \subseteq Entry
  /\ entry \in [Process -> Entry \cup {NoEntry}]
  /\ seq \in 0..MaxSeq
  /\ handlesAttached \in BOOLEAN /\ started \in BOOLEAN /\ clockSet \in BOOLEAN
  /\ stopFlag \in BOOLEAN /\ stopping \in BOOLEAN
  /\ pc \in Place
  /\ toSeed \subseteq Process
  /\ current \in Process
  /\ deadline \in Time

Init ==
  /\ now = 0
  /\ registered = {} /\ attached = {} /\ bound = {}
  /\ handlesAttached = FALSE /\ started = FALSE
  /\ heap = {}
  /\ entry = [p \in Process |-> NoEntry]
  /\ seq = 0
  /\ clockSet = FALSE /\ stopFlag = FALSE /\ stopping = FALSE
  /\ pc = "none"
  /\ toSeed = {}
  /\ current \in Process
  /\ deadline = 0

-----------------------------------------------------------------------------
(* Registration and lifecycle: synchronous methods, one action each. *)

Register(p) ==
  /\ ~started
  /\ p \notin registered
  /\ registered' = registered \cup {p}
  /\ UNCHANGED <<now, attached, bound, handlesAttached, heapVars, lifeVars,
                 loopVars, clockSet, pc>>

\* list.remove(e) on entries that compare by (when, seq) alone.
HeapWithout(e) == {f \in heap : f.when # e.when \/ f.seq # e.seq}

Dequeued(p) == IF entry[p] = NoEntry THEN heap ELSE HeapWithout(entry[p])

\* Seeded fault: the table forgets the process and the heap does not.
UnregisterLeavesGhost(p) ==
  /\ p \in registered
  /\ registered' = registered \ {p}
  /\ attached' = attached \ {p}
  /\ entry' = [entry EXCEPT ![p] = NoEntry]
  /\ UNCHANGED <<now, bound, handlesAttached, heap, seq, lifeVars, loopVars,
                 clockSet, pc>>

Unregister(p) ==
  /\ p \in registered
  /\ registered' = registered \ {p}
  /\ attached' = attached \ {p}
  /\ heap' = Dequeued(p)
  /\ entry' = [entry EXCEPT ![p] = NoEntry]
  /\ UNCHANGED <<now, bound, handlesAttached, seq, lifeVars, loopVars,
                 clockSet, pc>>

AttachHandles ==
  /\ ~started
  /\ registered \ attached # {}
  /\ bound' = bound \cup (registered \ attached)
  /\ attached' = attached \cup registered
  /\ handlesAttached' = TRUE
  /\ UNCHANGED <<now, registered, heapVars, lifeVars, loopVars, clockSet, pc>>

Start ==
  /\ ~started
  /\ handlesAttached
  /\ registered # {}
  /\ started' = TRUE
  /\ pc' = "spawned"
  /\ UNCHANGED <<now, regVars, heapVars, stopFlag, stopping, loopVars, clockSet>>

-----------------------------------------------------------------------------
(* The clock: set() raises the flag and releases whoever sleeps. *)

\* Seeded fault: set() raises the flag and releases only those in wait().
SetClockFlagOnly ==
  /\ clockSet' = TRUE
  /\ pc' = pc

SetClock ==
  /\ clockSet' = TRUE
  /\ pc' = IF pc = "sleeping" THEN "looping" ELSE pc

\* Seeded fault: stop() raises the stop flag and leaves the loop parked.
StopQuietly ==
  /\ started /\ ~stopping
  /\ stopFlag' = TRUE /\ stopping' = TRUE
  /\ UNCHANGED <<now, regVars, heapVars, started, loopVars, clockSet, pc>>

\* stop() up to its join.  One caller at a time, as in main.serve.
Stop ==
  /\ started /\ ~stopping
  /\ stopFlag' = TRUE /\ stopping' = TRUE
  /\ SetClock
  /\ UNCHANGED <<now, regVars, heapVars, started, loopVars>>

\* The join returns; or it raises what ended the task, and _started stays.
StopJoined ==
  /\ stopping
  /\ \/ pc = "done" /\ started' = FALSE /\ pc' = "none"
     \/ pc = "failed" /\ UNCHANGED <<started, pc>>
  /\ stopping' = FALSE
  /\ UNCHANGED <<now, regVars, heapVars, stopFlag, loopVars, clockSet>>

-----------------------------------------------------------------------------
(* schedule() *)

\* Seeded fault: every request replaces the pending entry, later or not.
CoveredNever(p, t) == FALSE

\* A pending entry at the same or an earlier time makes schedule() a no-op.
Covered(p, t) == entry[p] # NoEntry /\ entry[p].when <= t

\* Seeded fault: every entry has the same seq.
NewEntrySameSeq(p, t) == [when |-> t, seq |-> 1, process |-> p]

NewEntry(p, t) == [when |-> t, seq |-> seq + 1, process |-> p]

Insert(p, t) ==
  /\ seq < MaxSeq
  /\ heap' = Dequeued(p) \cup {NewEntry(p, t)}
  /\ entry' = [entry EXCEPT ![p] = NewEntry(p, t)]
  /\ seq' = seq + 1

\* A handle's wake_at that changes something.  Of an unregistered process it
\* raises to its caller, and of a covered request it does nothing.
WakeAt(p, t) ==
  /\ p \in bound \cap registered
  /\ ~Covered(p, t)
  /\ Insert(p, t)
  /\ SetClock
  /\ UNCHANGED <<now, regVars, lifeVars, loopVars>>

-----------------------------------------------------------------------------
(* The loop task: _run_loop, _ask_and_schedule, _fire_earliest. *)

HeadOfLoop(left) == IF left = {} THEN "looping" ELSE "seeding"

\* The snapshot is taken when the task first runs, not by start().
Boot ==
  /\ pc = "spawned"
  /\ toSeed' = registered
  /\ pc' = HeadOfLoop(registered)
  /\ UNCHANGED <<now, regVars, heapVars, lifeVars, current, deadline, clockSet>>

Seed(p) ==
  /\ pc = "seeding"
  /\ p \in toSeed
  /\ toSeed' = toSeed \ {p}
  /\ current' = p
  /\ pc' = "asking"
  /\ UNCHANGED <<now, regVars, heapVars, lifeVars, deadline, clockSet>>

\* next_wakeup() returned None or raised.
AnswerNone ==
  /\ pc = "asking"
  /\ pc' = HeadOfLoop(toSeed)
  /\ UNCHANGED <<now, regVars, heapVars, lifeVars, loopVars, clockSet>>

\* next_wakeup() returned t.  What schedule() raises is not caught: it ends the
\* task.
AnswerAt(t) ==
  /\ pc = "asking"
  /\ \/ /\ current \notin registered
        /\ pc' = "failed"
        /\ UNCHANGED <<heapVars, clockSet>>
     \/ /\ current \in registered
        /\ Covered(current, t)
        /\ pc' = HeadOfLoop(toSeed)
        /\ UNCHANGED <<heapVars, clockSet>>
     \/ /\ current \in registered
        /\ ~Covered(current, t)
        /\ Insert(current, t)
        /\ clockSet' = TRUE
        /\ pc' = HeadOfLoop(toSeed)
  /\ UNCHANGED <<now, regVars, lifeVars, loopVars>>

Precedes(e, f) == e.when < f.when \/ (e.when = f.when /\ e.seq <= f.seq)

IsEarliest(e) == e \in heap /\ \A f \in heap : Precedes(e, f)

Exit ==
  /\ pc = "looping" /\ stopFlag
  /\ pc' = "done"
  /\ UNCHANGED <<now, regVars, heapVars, lifeVars, loopVars, clockSet>>

Park ==
  /\ pc = "looping" /\ ~stopFlag
  /\ heap = {}
  /\ pc' = "waiting"
  /\ UNCHANGED <<now, regVars, heapVars, lifeVars, loopVars, clockSet>>

Unpark ==
  /\ pc = "waiting" /\ clockSet
  /\ clockSet' = FALSE
  /\ pc' = "looping"
  /\ UNCHANGED <<now, regVars, heapVars, lifeVars, loopVars>>

\* Seeded fault: the deadline is taken for a delay.
SleepTooLong(e) ==
  /\ pc = "looping" /\ ~stopFlag
  /\ IsEarliest(e)
  /\ e.when > now
  /\ deadline' = now + e.when
  /\ pc' = "sleeping"
  /\ UNCHANGED <<now, regVars, heapVars, lifeVars, toSeed, current, clockSet>>

Sleep(e) ==
  /\ pc = "looping" /\ ~stopFlag
  /\ IsEarliest(e)
  /\ e.when > now
  /\ deadline' = e.when
  /\ pc' = "sleeping"
  /\ UNCHANGED <<now, regVars, heapVars, lifeVars, toSeed, current, clockSet>>

SleepOver ==
  /\ pc = "sleeping"
  /\ now >= deadline
  /\ pc' = "looping"
  /\ UNCHANGED <<now, regVars, heapVars, lifeVars, loopVars, clockSet>>

FireEarliest(e) ==
  /\ pc = "looping" /\ ~stopFlag
  /\ IsEarliest(e)
  /\ e.when <= now
  /\ heap' = heap \ {e}
  /\ entry' = [entry EXCEPT ![e.process] = NoEntry]
  /\ current' = e.process
  /\ pc' = "running"
  /\ UNCHANGED <<now, regVars, seq, lifeVars, toSeed, deadline, clockSet>>

\* run() returned, or raised and was caught: the process is asked again.
RunEnds ==
  /\ pc = "running"
  /\ pc' = "asking"
  /\ UNCHANGED <<now, regVars, heapVars, lifeVars, loopVars, clockSet>>

Tick ==
  /\ now < MaxTime
  /\ now' = now + 1
  /\ UNCHANGED <<regVars, heapVars, lifeVars, loopVars, clockSet, pc>>

LoopStep ==
  \/ Boot
  \/ \E p \in Process : Seed(p)
  \/ AnswerNone
  \/ \E t \in Time : AnswerAt(t)
  \/ Exit
  \/ Park
  \/ Unpark
  \/ \E e \in heap : Sleep(e)
  \/ SleepOver
  \/ \E e \in heap : FireEarliest(e)
  \/ RunEnds

Next ==
  \/ \E p \in Process :
       \/ Register(p)
       \/ Unregister(p)
       \/ \E t \in Time : WakeAt(p, t)
  \/ AttachHandles
  \/ Start
  \/ Stop
  \/ StopJoined
  \/ LoopStep
  \/ Tick

\* The event loop keeps running a runnable loop task, time passes, run() and
\* next_wakeup() return, and a finished task wakes whoever joined it.
Fairness == WF_vars(LoopStep) /\ WF_vars(StopJoined) /\ WF_vars(Tick)

Spec == Init /\ [][Next]_vars

FairSpec == Spec /\ Fairness

-----------------------------------------------------------------------------
(* Properties *)

\* The heap and the table agree: every registered process has at most one heap
\* entry and it is the one the table names, and no entry outlives its
\* registration.  schedule(), unregister() and _fire_earliest each update the
\* two separately, with other tasks running in between the loop's awaits.
HeapMatchesTable ==
  /\ heap = {entry[p] : p \in {q \in Process : entry[q] # NoEntry}}
  /\ \A p \in Process : entry[p] # NoEntry =>
        p \in registered /\ entry[p].process = p

\* Two entries never share a seq, so removing by (when, seq) removes the one
\* meant and the heap never has to compare two processes.
SeqIdentifies == \A e, f \in heap : e.seq = f.seq => e = f

\* No wakeup is lost: a loop parked with work in the heap, or with stop() called,
\* has a raised flag to come back to; a sleeping loop sleeps no longer than its
\* earliest entry and not past stop().
NoLostWakeup ==
  /\ pc = "waiting" /\ (heap # {} \/ stopFlag) => clockSet
  /\ pc = "sleeping" => ~stopFlag /\ \A e \in heap : deadline <= e.when

\* stop() returns or raises, wherever the loop was parked when it was called.
StopReturns == stopping ~> ~stopping

\* The refinement: the pending wakeup of a process is the time of its entry, and
\* the scheduler serves from start() until stop() or the end of the loop.
PendingTime ==
  [p \in Process |-> IF entry[p] = NoEntry THEN MaxTime + 1 ELSE entry[p].when]

Serving == started /\ ~stopFlag /\ pc # "failed"

Promise == INSTANCE WakeupPromise WITH pending <- PendingTime, serving <- Serving

\* The scheduler keeps the promise of WakeupPromise: a request is never
\* forgotten or put off by a later one, only the earliest due wakeup is served,
\* none is served twice, and while the loop lives a due one is served.
KeepsPromise == Promise!PromiseSpec

\* The same, safety part only.
KeepsPromiseSafely == Promise!PromiseSafety

\* docs/background-processes.md: unregister may be called after start to drop a
\* process from the running loop, which goes on for the others.
LoopSurvives == pc # "failed"
=============================================================================
