--------------------- MODULE BackgroundScheduler_proofs ---------------------
(***************************************************************************)
(* Type correctness of the scheduler, the agreement of its heap and its    *)
(* table, the absence of lost wakeups, and the safety part of the          *)
(* refinement of WakeupPromise, for every set of processes and all bounds. *)
(***************************************************************************)
EXTENDS BackgroundScheduler, TLAPS

\* What the two properties need to be inductive: seq numbers given out so far are
\* at most seq (so a new entry is unlike every other one)...
SeqBounded == \A e \in heap : e.seq <= seq

\* ... and the loop task exists only between start() and the end of stop(), and
\* ends by itself only when stop() was called.
LoopLives ==
  /\ pc # "none" => started
  /\ pc = "done" => stopFlag

IInv ==
  /\ TypeOK
  /\ HeapMatchesTable
  /\ SeqIdentifies
  /\ SeqBounded
  /\ NoLostWakeup
  /\ LoopLives

USE DEF Time, Entry, regVars, heapVars, lifeVars, loopVars

-----------------------------------------------------------------------------
(* The operations on the heap. *)

\* Removing the entry of a process by (when, seq) removes that entry and no other.
LEMMA DequeuedIs ==
  ASSUME HeapMatchesTable, SeqIdentifies, NEW p \in Process
  PROVE  Dequeued(p) = heap \ {entry[p]}
<1>1. CASE entry[p] = NoEntry
  <2>1. NoEntry \notin heap
    BY DEF HeapMatchesTable
  <2> QED  BY <1>1, <2>1 DEF Dequeued
<1>2. CASE entry[p] # NoEntry
  <2>1. entry[p] \in heap
    BY <1>2 DEF HeapMatchesTable
  <2>2. \A f \in heap : f.seq = entry[p].seq => f = entry[p]
    BY <2>1 DEF SeqIdentifies
  <2> QED  BY <1>2, <2>1, <2>2 DEF Dequeued, HeapWithout
<1> QED  BY <1>1, <1>2

\* Insert keeps the types, the agreement of heap and table and the seq numbers.
LEMMA InsertKeeps ==
  ASSUME TypeOK, HeapMatchesTable, SeqIdentifies, SeqBounded,
         NEW p \in Process, NEW t \in Time,
         p \in registered, Insert(p, t), registered' = registered
  PROVE  /\ heap' \subseteq Entry
         /\ entry' \in [Process -> Entry \cup {NoEntry}]
         /\ seq' \in 0..MaxSeq
         /\ HeapMatchesTable'
         /\ SeqIdentifies'
         /\ SeqBounded'
         /\ heap' # {}
<1> DEFINE n == NewEntry(p, t)
<1>1. /\ n \in Entry /\ n.seq = seq + 1 /\ n.process = p
      /\ seq \in Nat /\ seq' = seq + 1 /\ seq' \in 0..MaxSeq
  BY BoundsAssumption DEF TypeOK, Insert, NewEntry
<1>2. heap' = (heap \ {entry[p]}) \cup {n}
  BY DequeuedIs DEF Insert
<1>3. entry' = [entry EXCEPT ![p] = n]
  BY DEF Insert
<1>4. n # NoEntry
  BY <1>1, NoEntryAssumption
<1> HIDE DEF n
<1>5. \A e \in heap : e.seq <= seq /\ e.seq \in Nat
  BY BoundsAssumption DEF SeqBounded, TypeOK
<1>6. heap' \subseteq Entry
  BY <1>1, <1>2 DEF TypeOK
<1>7. entry' \in [Process -> Entry \cup {NoEntry}]
  BY <1>1, <1>3 DEF TypeOK
<1>8. HeapMatchesTable'
  <2>1. \A q \in Process : entry'[q] = IF q = p THEN n ELSE entry[q]
    BY <1>3 DEF TypeOK
  <2>2. \A q \in Process : q # p /\ entry[q] # NoEntry => entry[q] # entry[p]
    BY NoEntryAssumption DEF HeapMatchesTable, TypeOK
  <2>3. heap' = {entry'[q] : q \in {r \in Process : entry'[r] # NoEntry}}
    <3>1. ASSUME NEW e \in heap' PROVE \E q \in Process : entry'[q] # NoEntry /\ e = entry'[q]
      BY <1>2, <1>4, <2>1 DEF HeapMatchesTable
    <3>2. ASSUME NEW q \in Process, entry'[q] # NoEntry PROVE entry'[q] \in heap'
      BY <1>2, <2>1, <2>2, <3>2 DEF HeapMatchesTable
    <3> QED  BY <3>1, <3>2
  <2>4. \A q \in Process : entry'[q] # NoEntry => q \in registered' /\ entry'[q].process = q
    BY <1>1, <2>1 DEF HeapMatchesTable
  <2> QED  BY <2>3, <2>4 DEF HeapMatchesTable
<1>9. SeqIdentifies'
  <2>1. \A e \in heap' : e = n \/ (e \in heap /\ e.seq # n.seq)
    BY <1>1, <1>2, <1>5
  <2> QED  BY <2>1 DEF SeqIdentifies
<1>10. SeqBounded'
  BY <1>1, <1>2, <1>5 DEF SeqBounded
<1> QED  BY <1>1, <1>2, <1>6, <1>7, <1>8, <1>9, <1>10

\* Taking the entry of one process out of heap and table keeps their agreement.
LEMMA TakeOutKeeps ==
  ASSUME TypeOK, HeapMatchesTable, SeqIdentifies, SeqBounded,
         NEW p \in Process,
         heap' = heap \ {entry[p]},
         entry' = [entry EXCEPT ![p] = NoEntry],
         seq' = seq,
         registered' = registered \/ registered' = registered \ {p}
  PROVE  /\ heap' \subseteq Entry
         /\ entry' \in [Process -> Entry \cup {NoEntry}]
         /\ HeapMatchesTable'
         /\ SeqIdentifies'
         /\ SeqBounded'
<1>1. \A q \in Process : entry'[q] = IF q = p THEN NoEntry ELSE entry[q]
  BY DEF TypeOK
<1>2. \A q \in Process : q # p /\ entry[q] # NoEntry => entry[q] # entry[p]
  BY NoEntryAssumption DEF HeapMatchesTable, TypeOK
<1>3. heap' = {entry'[q] : q \in {r \in Process : entry'[r] # NoEntry}}
  <2>1. ASSUME NEW e \in heap' PROVE \E q \in Process : entry'[q] # NoEntry /\ e = entry'[q]
    BY <1>1 DEF HeapMatchesTable
  <2>2. ASSUME NEW q \in Process, entry'[q] # NoEntry PROVE entry'[q] \in heap'
    BY <1>1, <1>2, <2>2 DEF HeapMatchesTable
  <2> QED  BY <2>1, <2>2
<1>4. \A q \in Process : entry'[q] # NoEntry => q \in registered' /\ entry'[q].process = q
  BY <1>1 DEF HeapMatchesTable
<1> QED  BY <1>1, <1>3, <1>4 DEF HeapMatchesTable, SeqIdentifies, SeqBounded, TypeOK
-----------------------------------------------------------------------------
(* The inductive invariant, one action after the other. *)

\* What HeapMatchesTable, SeqIdentifies and SeqBounded are about.
HeapSound ==
  /\ heap \subseteq Entry
  /\ entry \in [Process -> Entry \cup {NoEntry}]
  /\ seq \in 0..MaxSeq
  /\ HeapMatchesTable
  /\ SeqIdentifies
  /\ SeqBounded

\* Steps that leave the heap alone and unregister nobody keep it sound.
LEMMA HeapUntouched ==
  ASSUME IInv, UNCHANGED heapVars, registered \subseteq registered'
  PROVE  HeapSound'
BY DEF IInv, TypeOK, HeapSound, HeapMatchesTable, SeqIdentifies, SeqBounded

\* Nothing is registered, scheduled or running at first.
LEMMA InitIInv == Init => IInv
<1> SUFFICES ASSUME Init PROVE IInv
  OBVIOUS
<1>1. TypeOK
  <2>1. 0 \in Time /\ 0 \in 0..MaxSeq
    BY BoundsAssumption
  <2>2. entry \in [Process -> Entry \cup {NoEntry}]
    BY DEF Init
  <2> QED  BY <2>1, <2>2 DEF Init, TypeOK, Place
<1>2. HeapMatchesTable
  BY DEF Init, HeapMatchesTable
<1>3. SeqIdentifies /\ SeqBounded
  BY DEF Init, SeqIdentifies, SeqBounded
<1>4. NoLostWakeup /\ LoopLives
  BY DEF Init, NoLostWakeup, LoopLives
<1> QED  BY <1>1, <1>2, <1>3, <1>4 DEF IInv

\* register() touches neither the heap nor the loop.
LEMMA RegisterKeeps ==
  ASSUME IInv, NEW p \in Process, Register(p)
  PROVE  IInv'
<1>1. HeapSound'
  BY HeapUntouched DEF Register
<1>2. TypeOK'
  BY <1>1 DEF IInv, TypeOK, HeapSound, Register
<1>3. NoLostWakeup' /\ LoopLives'
  BY DEF IInv, NoLostWakeup, LoopLives, Register
<1> QED  BY <1>1, <1>2, <1>3 DEF IInv, HeapSound

\* unregister() takes one process out of the heap and the table together.
LEMMA UnregisterKeeps ==
  ASSUME IInv, NEW p \in Process, Unregister(p)
  PROVE  IInv'
<1>1. heap' = heap \ {entry[p]} /\ heap' \subseteq heap
  BY DequeuedIs DEF IInv, Unregister
<1>2. HeapSound'
  BY <1>1, TakeOutKeeps DEF IInv, TypeOK, HeapSound, Unregister
<1>3. TypeOK'
  BY <1>2 DEF IInv, TypeOK, HeapSound, Unregister
<1>4. NoLostWakeup' /\ LoopLives'
  BY <1>1 DEF IInv, NoLostWakeup, LoopLives, Unregister
<1> QED  BY <1>2, <1>3, <1>4 DEF IInv, HeapSound

\* attach_handles() touches neither the heap nor the loop.
LEMMA AttachHandlesKeeps ==
  ASSUME IInv, AttachHandles
  PROVE  IInv'
<1>1. HeapSound'
  BY HeapUntouched DEF AttachHandles
<1>2. TypeOK'
  BY <1>1 DEF IInv, TypeOK, HeapSound, AttachHandles
<1>3. NoLostWakeup' /\ LoopLives'
  BY DEF IInv, NoLostWakeup, LoopLives, AttachHandles
<1> QED  BY <1>1, <1>2, <1>3 DEF IInv, HeapSound

\* start() and stop(): stop() raises the flag a parked loop needs.
LEMMA LifecycleKeeps ==
  ASSUME IInv, Start \/ Stop \/ StopJoined
  PROVE  IInv'
<1>1. HeapSound'
  BY HeapUntouched DEF Start, Stop, StopJoined
<1>2. TypeOK'
  BY <1>1 DEF IInv, TypeOK, HeapSound, Start, Stop, StopJoined, SetClock, Place
<1>3. NoLostWakeup'
  BY DEF IInv, NoLostWakeup, Start, Stop, StopJoined, SetClock
<1>4. LoopLives'
  BY DEF IInv, LoopLives, Start, Stop, StopJoined, SetClock
<1> QED  BY <1>1, <1>2, <1>3, <1>4 DEF IInv, HeapSound

\* A push through a handle inserts, and releases the loop.
LEMMA WakeAtKeeps ==
  ASSUME IInv, NEW p \in Process, NEW t \in Time, WakeAt(p, t)
  PROVE  IInv'
<1>1. HeapSound'
  BY InsertKeeps DEF IInv, HeapSound, WakeAt
<1>2. TypeOK'
  BY <1>1 DEF IInv, TypeOK, HeapSound, WakeAt, SetClock, Place
<1>3. NoLostWakeup' /\ LoopLives'
  BY DEF IInv, NoLostWakeup, LoopLives, WakeAt, SetClock
<1> QED  BY <1>1, <1>2, <1>3 DEF IInv, HeapSound

\* So does an answer of next_wakeup(), made by the loop itself.
LEMMA AnswerAtKeeps ==
  ASSUME IInv, NEW t \in Time, AnswerAt(t)
  PROVE  IInv'
<1>1. HeapSound'
  <2>1. CASE UNCHANGED heapVars
    BY <2>1, HeapUntouched DEF AnswerAt
  <2>2. CASE current \in registered /\ Insert(current, t)
    BY <2>2, InsertKeeps DEF IInv, TypeOK, HeapSound, AnswerAt
  <2> QED  BY <2>1, <2>2 DEF AnswerAt
<1>2. pc' \in {"failed", "looping", "seeding"}
  BY DEF AnswerAt, HeadOfLoop
<1>3. TypeOK'
  BY <1>1, <1>2 DEF IInv, TypeOK, HeapSound, AnswerAt, Place
<1>4. NoLostWakeup' /\ LoopLives'
  BY <1>2 DEF IInv, NoLostWakeup, LoopLives, AnswerAt
<1> QED  BY <1>1, <1>3, <1>4 DEF IInv, HeapSound

\* The loop's steps that go from place to place and take nothing from the heap.
LEMMA MovesKeep ==
  ASSUME IInv,
         \/ Boot \/ (\E p \in Process : Seed(p)) \/ AnswerNone
         \/ Exit \/ Park \/ Unpark \/ SleepOver \/ RunEnds
  PROVE  IInv'
<1> USE DEF Boot, Seed, AnswerNone, Exit, Park, Unpark, SleepOver, RunEnds, HeadOfLoop
<1>1. HeapSound'
  BY HeapUntouched
<1>2. TypeOK'
  BY <1>1 DEF IInv, TypeOK, HeapSound, Place
<1>3. NoLostWakeup'
  BY DEF IInv, NoLostWakeup
<1>4. LoopLives'
  BY DEF IInv, LoopLives
<1> QED  BY <1>1, <1>2, <1>3, <1>4 DEF IInv, HeapSound

\* A sleep is as long as the earliest entry is away.
LEMMA SleepKeeps ==
  ASSUME IInv, NEW e \in heap, Sleep(e)
  PROVE  IInv'
<1>1. HeapSound'
  BY HeapUntouched DEF Sleep
<1>2. TypeOK'
  BY <1>1 DEF IInv, TypeOK, HeapSound, Sleep, Place
<1>3. NoLostWakeup'
  <2>1. \A f \in heap : e.when <= f.when
    BY BoundsAssumption DEF IInv, TypeOK, Sleep, IsEarliest, Precedes
  <2> QED  BY <2>1 DEF IInv, NoLostWakeup, Sleep
<1>4. LoopLives'
  BY DEF IInv, LoopLives, Sleep
<1> QED  BY <1>1, <1>2, <1>3, <1>4 DEF IInv, HeapSound

\* An entry of the heap is the entry of the process it names.
LEMMA EntryOfProcess ==
  ASSUME IInv, NEW e \in heap
  PROVE  e.process \in Process /\ entry[e.process] = e /\ e \in Entry
BY DEF IInv, TypeOK, HeapMatchesTable

\* Firing takes the entry of one process out of the heap and the table together.
LEMMA FireEarliestKeeps ==
  ASSUME IInv, NEW e \in heap, FireEarliest(e)
  PROVE  IInv'
<1>1. e.process \in Process /\ heap' = heap \ {entry[e.process]}
  BY EntryOfProcess DEF FireEarliest
<1>2. HeapSound'
  BY <1>1, TakeOutKeeps DEF IInv, TypeOK, HeapSound, FireEarliest
<1>3. TypeOK'
  BY <1>1, <1>2 DEF IInv, TypeOK, HeapSound, FireEarliest, Place
<1>4. NoLostWakeup' /\ LoopLives'
  BY DEF IInv, NoLostWakeup, LoopLives, FireEarliest
<1> QED  BY <1>2, <1>3, <1>4 DEF IInv, HeapSound

\* Time alone changes nothing else.
LEMMA TickKeeps ==
  ASSUME IInv, Tick \/ UNCHANGED vars
  PROVE  IInv'
<1>1. HeapSound'
  BY HeapUntouched DEF Tick, vars
<1>2. TypeOK'
  BY <1>1, BoundsAssumption DEF IInv, TypeOK, HeapSound, Tick, vars
<1>3. NoLostWakeup' /\ LoopLives'
  BY DEF IInv, NoLostWakeup, LoopLives, Tick, vars
<1> QED  BY <1>1, <1>2, <1>3 DEF IInv, HeapSound

\* Every step keeps the inductive invariant ...
LEMMA StepKeepsIInv == IInv /\ [Next]_vars => IInv'
<1> SUFFICES ASSUME IInv, [Next]_vars PROVE IInv'
  OBVIOUS
<1>1. CASE \E p \in Process : Register(p)
  BY <1>1, RegisterKeeps
<1>2. CASE \E p \in Process : Unregister(p)
  BY <1>2, UnregisterKeeps
<1>3. CASE \E p \in Process : \E t \in Time : WakeAt(p, t)
  BY <1>3, WakeAtKeeps
<1>4. CASE AttachHandles
  BY <1>4, AttachHandlesKeeps
<1>5. CASE Start \/ Stop \/ StopJoined
  BY <1>5, LifecycleKeeps
<1>6. CASE LoopStep
  <2>1. CASE \E t \in Time : AnswerAt(t)
    BY <2>1, AnswerAtKeeps
  <2>2. CASE \E e \in heap : Sleep(e)
    BY <2>2, SleepKeeps
  <2>3. CASE \E e \in heap : FireEarliest(e)
    BY <2>3, FireEarliestKeeps
  <2> QED  BY <1>6, <2>1, <2>2, <2>3, MovesKeep DEF LoopStep
<1>7. CASE Tick \/ UNCHANGED vars
  BY <1>7, TickKeeps
<1> QED  BY <1>1, <1>2, <1>3, <1>4, <1>5, <1>6, <1>7 DEF Next

\* ... which therefore always holds.
LEMMA AlwaysIInv == Spec => []IInv
BY InitIInv, StepKeepsIInv, PTL DEF Spec

\* Every state the scheduler reaches has the declared types, however registrations,
\* pushes, answers and stops interleave.
THEOREM TypeCorrect == Spec => []TypeOK
<1>1. IInv => TypeOK
  BY DEF IInv
<1> QED  BY <1>1, AlwaysIInv, PTL

\* The heap and _entries_by_process always agree.
THEOREM HeapAlwaysMatchesTable == Spec => []HeapMatchesTable
<1>1. IInv => HeapMatchesTable
  BY DEF IInv
<1> QED  BY <1>1, AlwaysIInv, PTL

\* No two entries of the heap ever share a seq.
THEOREM SeqAlwaysIdentifies == Spec => []SeqIdentifies
<1>1. IInv => SeqIdentifies
  BY DEF IInv
<1> QED  BY <1>1, AlwaysIInv, PTL

\* A parked loop always has the raised flag, or the deadline, that its heap and
\* stop() call for.
THEOREM WakeupNeverLost == Spec => []NoLostWakeup
<1>1. IInv => NoLostWakeup
  BY DEF IInv
<1> QED  BY <1>1, AlwaysIInv, PTL
-----------------------------------------------------------------------------
(* The refinement: every step of the scheduler is a step of WakeupPromise or a *)
(* stutter.                                                                    *)

USE DEF Promise!Never, Promise!promiseVars

\* Changing the entry of one process changes its pending time and no other.
LEMMA PendingStep ==
  ASSUME IInv, NEW p \in Process, NEW v \in Entry \cup {NoEntry},
         entry' = [entry EXCEPT ![p] = v]
  PROVE  PendingTime' =
           [PendingTime EXCEPT ![p] = IF v = NoEntry THEN MaxTime + 1 ELSE v.when]
BY DEF IInv, TypeOK, PendingTime

\* Steps that touch neither the clock nor the table nor whether the scheduler
\* serves are stutters of the promise.
LEMMA StutterStep ==
  ASSUME now' = now, entry' = entry, Serving' = Serving
  PROVE  UNCHANGED Promise!promiseVars
BY DEF PendingTime

\* An Insert that schedule() makes is a request of the promise.
LEMMA InsertRequests ==
  ASSUME IInv, NEW p \in Process, NEW t \in Time,
         Insert(p, t), ~Covered(p, t), now' = now, Serving' = Serving
  PROVE  Promise!PromiseNext
<1>1. NewEntry(p, t) \in Entry /\ NewEntry(p, t).when = t
  BY BoundsAssumption DEF IInv, TypeOK, Insert, NewEntry
<1>2. PendingTime' = [PendingTime EXCEPT ![p] = t]
  BY <1>1, PendingStep, NoEntryAssumption DEF Insert
<1>3. t < PendingTime[p]
  BY BoundsAssumption DEF IInv, TypeOK, PendingTime, Covered
<1>4. Promise!Request(p, t)
  BY <1>2, <1>3 DEF Promise!Request
<1> QED  BY <1>4 DEF Promise!PromiseNext

\* Firing the earliest due entry serves the wakeup of its process.
LEMMA FireServes ==
  ASSUME IInv, NEW e \in heap, FireEarliest(e)
  PROVE  Promise!PromiseNext
<1> DEFINE p == e.process
<1>1. p \in Process /\ entry[p] = e /\ e \in Entry /\ e # NoEntry
  BY EntryOfProcess, NoEntryAssumption
<1>2. PendingTime' = [PendingTime EXCEPT ![p] = MaxTime + 1]
  BY <1>1, PendingStep DEF FireEarliest
<1>3. PendingTime[p] = e.when
  BY <1>1 DEF PendingTime
<1>4. ASSUME NEW q \in Process PROVE PendingTime[p] <= PendingTime[q]
  <2>1. CASE entry[q] = NoEntry
    BY <1>1, <1>3, <2>1, BoundsAssumption DEF PendingTime
  <2>2. CASE entry[q] # NoEntry
    <3>1. entry[q] \in heap /\ entry[q] \in Entry
      BY <2>2 DEF IInv, TypeOK, HeapMatchesTable
    <3>2. e.when <= entry[q].when
      BY <1>1, <3>1, BoundsAssumption DEF FireEarliest, IsEarliest, Precedes
    <3> QED  BY <1>3, <2>2, <3>2 DEF PendingTime
  <2> QED  BY <2>1, <2>2
<1>5. Serving /\ Serving' = Serving /\ now' = now
  BY DEF IInv, LoopLives, Serving, FireEarliest
<1>6. Promise!Serve(p)
  BY <1>2, <1>3, <1>4, <1>5 DEF Promise!Serve, FireEarliest
<1> QED  BY <1>1, <1>6 DEF Promise!PromiseNext

\* start() and stop() start and stop the serving; the join changes nothing.
LEMMA LifecycleServes ==
  ASSUME IInv, Start \/ Stop \/ StopJoined
  PROVE  Promise!PromiseNext \/ UNCHANGED Promise!promiseVars
<1>1. now' = now /\ PendingTime' = PendingTime
  BY DEF PendingTime, Start, Stop, StopJoined
<1>2. (Serving' = Serving) \/ (~Serving /\ Serving') \/ (Serving /\ ~Serving')
  BY DEF Serving
<1>3. CASE Serving' = Serving
  BY <1>1, <1>3
<1>4. CASE ~Serving /\ Serving'
  BY <1>1, <1>4 DEF Promise!PromiseNext, Promise!StartServing
<1>5. CASE Serving /\ ~Serving'
  BY <1>1, <1>5 DEF Promise!PromiseNext, Promise!StopServing, Serving
<1> QED  BY <1>2, <1>3, <1>4, <1>5

\* An answer is a request, a stutter, or the end of the loop.
LEMMA AnswerAtServes ==
  ASSUME IInv, NEW t \in Time, AnswerAt(t)
  PROVE  Promise!PromiseNext \/ UNCHANGED Promise!promiseVars
<1>1. now' = now /\ started' = started /\ stopFlag' = stopFlag /\ pc # "failed"
  BY DEF AnswerAt
<1>2. CASE current \notin registered
  <2>1. entry' = entry /\ pc' = "failed"
    BY <1>2 DEF AnswerAt
  <2>2. PendingTime' = PendingTime /\ Serving' = FALSE
    BY <2>1 DEF PendingTime, Serving
  <2>3. CASE Serving
    BY <1>1, <2>2, <2>3 DEF Promise!PromiseNext, Promise!StopServing
  <2>4. CASE ~Serving
    BY <1>1, <2>2, <2>4 DEF Serving
  <2> QED  BY <2>3, <2>4
<1>3. CASE current \in registered
  <2>1. Serving' = Serving
    BY <1>1, <1>3 DEF Serving, AnswerAt, HeadOfLoop
  <2>2. CASE Covered(current, t)
    BY <1>1, <1>3, <2>1, <2>2, StutterStep DEF AnswerAt
  <2>3. CASE ~Covered(current, t)
    BY <1>1, <1>3, <2>1, <2>3, InsertRequests DEF IInv, TypeOK, AnswerAt
  <2> QED  BY <2>2, <2>3
<1> QED  BY <1>2, <1>3

\* Every step of the scheduler is a step of its promise or a stutter.
LEMMA StepKeepsPromise ==
  IInv /\ [Next]_vars => [Promise!PromiseNext]_(Promise!promiseVars)
<1> SUFFICES ASSUME IInv, [Next]_vars
             PROVE  Promise!PromiseNext \/ UNCHANGED Promise!promiseVars
  OBVIOUS
<1>1. CASE (\E p \in Process : Register(p)) \/ AttachHandles \/ UNCHANGED vars
  BY <1>1, StutterStep DEF Register, AttachHandles, vars, Serving
<1>2. ASSUME NEW p \in Process, Unregister(p) PROVE Promise!PromiseNext
  <2>1. PendingTime' = [PendingTime EXCEPT ![p] = MaxTime + 1]
    BY <1>2, PendingStep DEF Unregister
  <2>2. Promise!Cancel(p)
    BY <1>2, <2>1 DEF Promise!Cancel, Unregister, Serving
  <2> QED  BY <2>2 DEF Promise!PromiseNext
<1>3. ASSUME NEW p \in Process, NEW t \in Time, WakeAt(p, t) PROVE Promise!PromiseNext
  BY <1>3, InsertRequests DEF WakeAt, SetClock, Serving
<1>4. CASE Start \/ Stop \/ StopJoined
  BY <1>4, LifecycleServes
<1>5. CASE LoopStep
  <2>1. CASE \/ Boot \/ (\E p \in Process : Seed(p)) \/ AnswerNone
             \/ Exit \/ Park \/ Unpark \/ SleepOver \/ RunEnds
    BY <2>1, StutterStep
       DEF Boot, Seed, AnswerNone, Exit, Park, Unpark, SleepOver, RunEnds,
           HeadOfLoop, Serving
  <2>2. CASE \E t \in Time : AnswerAt(t)
    BY <2>2, AnswerAtServes
  <2>3. CASE \E e \in heap : Sleep(e)
    BY <2>3, StutterStep DEF Sleep, Serving
  <2>4. CASE \E e \in heap : FireEarliest(e)
    BY <2>4, FireServes
  <2> QED  BY <1>5, <2>1, <2>2, <2>3, <2>4 DEF LoopStep
<1>6. CASE Tick
  BY <1>6 DEF Tick, PendingTime, Serving, Promise!PromiseNext, Promise!Advance
<1> QED  BY <1>1, <1>2, <1>3, <1>4, <1>5, <1>6 DEF Next

\* At first nobody has a wakeup pending and the scheduler does not serve.
LEMMA InitKeepsPromise == Init => Promise!PromiseInit
BY DEF Init, PendingTime, Serving, Promise!PromiseInit

\* The scheduler implements the safety part of WakeupPromise: a request only ever
\* moves a pending wakeup earlier, unregistering drops it, and what the loop runs
\* is the earliest wakeup there is, due, and while the scheduler serves.
THEOREM SchedulerKeepsPromise == Spec => KeepsPromiseSafely
<1>1. Spec => Promise!PromiseInit
  BY InitKeepsPromise DEF Spec
<1>2. Spec => [][Promise!PromiseNext]_(Promise!promiseVars)
  BY AlwaysIInv, StepKeepsPromise, PTL DEF Spec
<1> QED  BY <1>1, <1>2 DEF KeepsPromiseSafely, Promise!PromiseSafety
=============================================================================
