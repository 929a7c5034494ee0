--------------------------- MODULE WakeupPromise ---------------------------
(***************************************************************************)
(* What BackgroundSchedulerABC and SchedulerHandleABC promise to a process *)
(* (src/src/api/services/background_process): one pending wakeup for each  *)
(* process, which a later request can only move earlier, which cancelling  *)
(* the registration drops, and which is served when it is the earliest     *)
(* one and its time has come.  There is no heap, no clock flag, no loop    *)
(* and no seeding here: BackgroundScheduler refines this module.           *)
(***************************************************************************)
EXTENDS Naturals

CONSTANTS Process,
          MaxTime   \* bound on time, a natural number

VARIABLES now,      \* the present time
          pending,  \* for each process, the time of its pending wakeup, or Never
          serving   \* is the scheduler serving wakeups?

promiseVars == <<now, pending, serving>>

\* "do not call me": later than every time there is.
Never == MaxTime + 1

PromiseTypeOK ==
    /\ now \in 0..MaxTime
    /\ pending \in [Process -> 0..Never]
    /\ serving \in BOOLEAN

PromiseInit ==
    /\ now = 0
    /\ pending = [p \in Process |-> Never]
    /\ serving = FALSE

\* A process (or whoever holds its handle, or the answer to next_wakeup) asks
\* for a wakeup at t: the earlier of the two requests is kept.
Request(p, t) ==
    /\ t < pending[p]
    /\ pending' = [pending EXCEPT ![p] = t]
    /\ UNCHANGED <<now, serving>>

Cancel(p) ==
    /\ pending' = [pending EXCEPT ![p] = Never]
    /\ UNCHANGED <<now, serving>>

Serve(p) ==
    /\ serving
    /\ pending[p] <= now
    /\ \A q \in Process : pending[p] <= pending[q]
    /\ pending' = [pending EXCEPT ![p] = Never]
    /\ UNCHANGED <<now, serving>>

StartServing ==
    /\ ~serving
    /\ serving' = TRUE
    /\ UNCHANGED <<now, pending>>

StopServing ==
    /\ serving
    /\ serving' = FALSE
    /\ UNCHANGED <<now, pending>>

Advance ==
    /\ now < MaxTime
    /\ now' = now + 1
    /\ UNCHANGED <<pending, serving>>

PromiseNext ==
    \/ \E p \in Process :
          \/ \E t \in 0..MaxTime : Request(p, t)
          \/ Cancel(p)
          \/ Serve(p)
    \/ StartServing
    \/ StopServing
    \/ Advance

\* While the scheduler serves, somebody whose wakeup is due and earliest is
\* served in the end.
PromiseFairness == WF_promiseVars(\E p \in Process : Serve(p))

PromiseSafety == PromiseInit /\ [][PromiseNext]_promiseVars

PromiseSpec == PromiseSafety /\ PromiseFairness
=============================================================================
