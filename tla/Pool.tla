-------------------------------- MODULE Pool --------------------------------
(***************************************************************************)
(* The pool of src/src/pool.c with the workers of src/src/worker.c: the    *)
(* lifecycle RUNNING, QUIESCING, DRAINING, STOPPED; admission by           *)
(* awp_submit, awp_claim_frame/awp_commit_frame and awp_submit_keyed; the  *)
(* worker loop; bounded shutdown with quarantine; and destroy.             *)
(*                                                                         *)
(* A worker's ring is the bounded FIFO that Ring implements: a position is *)
(* reserved, published and taken.  A frame lives in the ring's own storage *)
(* (r->frames[pos & mask]), which is modelled.  The shutdown deadline is a *)
(* flag that time raises.  A step is one atomic operation, or several that *)
(* no other thread can tell apart: the three admission flags, each of      *)
(* which changes only once, are one load.                                  *)
(***************************************************************************)
EXTENDS Integers, FiniteSets

CONSTANTS NWorkers,     \* cfg.n_workers
          Capacity,     \* cells of each ring
          Submitters,   \* threads that submit frames
          Callers,      \* threads that call awp_pool_shutdown
          Owner,        \* the caller that calls awp_pool_destroy
          Apis,         \* the admission calls in use
          CallbackDestroys, \* TRUE: process() may call awp_pool_destroy
          EnableSupervisor, \* cfg.enable_supervisor; module Supervisor is the thread
          MaxCalls      \* bound: admission calls

Workers == 0 .. NWorkers - 1
NoFrame == -1

ASSUME PoolAssumption ==
    /\ NWorkers \in Nat \ {0}
    /\ Capacity \in Nat \ {0, 1}
    /\ Owner \in Callers
    /\ IsFiniteSet(Submitters) /\ IsFiniteSet(Callers)
    /\ Apis \subseteq {"submit", "claim", "keyed"}
    /\ CallbackDestroys \in BOOLEAN /\ EnableSupervisor \in BOOLEAN
    /\ MaxCalls \in Nat

VARIABLES
    lifecycle, active_submits, api_refs, shutdown_waiters, shutdown_aborts,
    quarantined, destroy_started,
    submitted, dropped, abandoned,
    enqueue_pos, dequeue_pos,   \* of each worker's ring
    ready,         \* the published positions of each ring
    store,         \* r->frames: which position's frame is in each slot
    closed,        \* of each ring
    state, stop, joined, processed,     \* of each worker
    wpc,           \* what each worker thread does next
    spc,           \* what each submitter does next
    api,           \* the call each submitter is in
    shard,         \* the worker its frame goes to
    spos,          \* the position it has reserved
    cpc,           \* what each caller does next
    result,        \* what shutdown returned: "none", "clean" or "late"
    widx,          \* the shutdown loop's i
    can_close,
    supervisor_joined,
    expired,       \* the shutdown deadline has passed
    memory,        \* "live", "freed" or "leaked"
    calls          \* admission calls so far, for the bound

life     == <<lifecycle, destroy_started, shutdown_waiters>>
verdict  == <<quarantined, shutdown_aborts>>
flags    == <<life, verdict>>
refs     == <<active_submits, api_refs>>
counters == <<submitted, dropped, abandoned>>
queue    == <<enqueue_pos, dequeue_pos, ready, store>>
rings    == <<queue, closed>>
workers  == <<state, stop, joined, processed, wpc>>
args     == <<api, shard, spos>>
subs     == <<spc, args>>
locals   == <<result, widx, can_close>>
callers  == <<cpc, locals>>
clients  == <<refs, counters, subs>>
control  == <<flags, callers>>
env      == <<supervisor_joined, expired, memory, calls>>
vars     == <<flags, refs, counters, rings, workers, subs, callers, env>>

Slot(i) == i % Capacity

Room(w)      == enqueue_pos[w] - dequeue_pos[w] < Capacity
HeadReady(w) == dequeue_pos[w] \in ready[w]

(* What every admission call tests before it goes on. *)
Admitting == lifecycle = "RUNNING" /\ ~quarantined /\ ~destroy_started

GotoS(s, l) == spc' = [spc EXCEPT ![s] = l]
GotoW(w, l) == wpc' = [wpc EXCEPT ![w] = l]
GotoC(c, l) == cpc' = [cpc EXCEPT ![c] = l]

(* What awp_pool_create sets up before it starts a thread. *)
InitStorage ==
    /\ lifecycle = "RUNNING"
    /\ active_submits = 0 /\ api_refs = 0 /\ shutdown_waiters = 0 /\ shutdown_aborts = 0
    /\ quarantined = FALSE /\ destroy_started = FALSE
    /\ submitted = 0 /\ dropped = 0 /\ abandoned = 0
    /\ enqueue_pos = [w \in Workers |-> 0]
    /\ dequeue_pos = [w \in Workers |-> 0]
    /\ ready = [w \in Workers |-> {}]
    /\ store = [w \in Workers |-> [i \in 0 .. Capacity - 1 |-> NoFrame]]
    /\ closed = [w \in Workers |-> FALSE]
    /\ stop = [w \in Workers |-> FALSE]
    /\ processed = [w \in Workers |-> 0]
    /\ spc = [s \in Submitters |-> "idle"]
    /\ api = [s \in Submitters |-> "none"]
    /\ shard = [s \in Submitters |-> 0]
    /\ spos = [s \in Submitters |-> 0]
    /\ result = [c \in Callers |-> "none"]
    /\ widx = 0 /\ can_close = TRUE
    /\ supervisor_joined = TRUE
    /\ expired = FALSE /\ memory = "live" /\ calls = 0

(* The pool as awp_pool_create leaves it, with the supervisor disabled. *)
Init ==
    /\ InitStorage
    /\ state = [w \in Workers |-> "STARTING"]
    /\ joined = [w \in Workers |-> FALSE]
    /\ wpc = [w \in Workers |-> "start"]
    /\ cpc = [c \in Callers |-> "idle"]

(***************************************************************************)
(* awp_submit.  The first admission test and the one at the top of the     *)
(* loop are one step: they read the same flags one after the other.        *)
(***************************************************************************)

(* A call enters the API; an oversized or missing argument is rejected     *)
(* before anything else.  New calls stop when destroy starts.              *)
Call(s, a, w) ==
    /\ spc[s] = "idle"
    /\ calls < MaxCalls
    /\ ~destroy_started
    /\ calls' = calls + 1
    /\ api_refs' = api_refs + 1
    /\ api' = [api EXCEPT ![s] = a]
    /\ shard' = [shard EXCEPT ![s] = w]
    /\ IF a = "submit" THEN \/ GotoS(s, "register")
                            \/ GotoS(s, "leave")
                       ELSE GotoS(s, "admit")
    /\ UNCHANGED <<control, active_submits, counters, rings, workers, spos, supervisor_joined,
                   expired, memory>>

(* Variant: the lifecycle is not tested again once registered. *)
SubmitRegisterUnchecked(s) ==
    /\ spc[s] = "register"
    /\ active_submits' = active_submits + 1
    /\ GotoS(s, "closed")
    /\ UNCHANGED <<control, api_refs, counters, rings, workers, args, env>>

SubmitRegister(s) ==
    /\ spc[s] = "register"
    /\ active_submits' = active_submits + 1
    /\ GotoS(s, "check")
    /\ UNCHANGED <<control, api_refs, counters, rings, workers, args, env>>

(* Variant: the rejection unregisters, and so does its caller. *)
SubmitCheckLeaves(s) ==
    /\ spc[s] = "check"
    /\ active_submits' = IF Admitting THEN active_submits ELSE active_submits - 1
    /\ GotoS(s, IF Admitting THEN "closed" ELSE "unregister")
    /\ UNCHANGED <<control, api_refs, counters, rings, workers, args, env>>

SubmitCheck(s) ==
    /\ spc[s] = "check"
    /\ GotoS(s, IF Admitting THEN "closed" ELSE "unregister")
    /\ UNCHANGED <<control, refs, counters, rings, workers, args, env>>

(* Variant: the closed ring returns without unregistering. *)
SubmitClosedLeaks(s) ==
    /\ spc[s] = "closed"
    /\ IF closed[shard[s]]
       THEN dropped' = dropped + 1 /\ GotoS(s, "leave")
       ELSE dropped' = dropped /\ GotoS(s, "reserve")
    /\ UNCHANGED <<control, refs, submitted, abandoned, rings, workers, args, env>>

SubmitClosed(s) ==
    /\ spc[s] = "closed"
    /\ IF closed[shard[s]]
       THEN dropped' = dropped + 1 /\ GotoS(s, "unregister")
       ELSE dropped' = dropped /\ GotoS(s, "reserve")
    /\ UNCHANGED <<control, refs, submitted, abandoned, rings, workers, args, env>>

(* Reserve the next position; the weak compare-and-swap may fail. *)
TakePosition(s) ==
    /\ Room(shard[s])
    /\ enqueue_pos' = [enqueue_pos EXCEPT ![shard[s]] = @ + 1]
    /\ spos' = [spos EXCEPT ![s] = enqueue_pos[shard[s]]]

SubmitReserve(s) ==
    /\ spc[s] = "reserve"
    /\ \/ TakePosition(s) /\ GotoS(s, "publish")
       \/ GotoS(s, "check") /\ UNCHANGED <<enqueue_pos, spos>>    \* lost, or spin
       \/ ~Room(shard[s]) /\ GotoS(s, "park") /\ UNCHANGED <<enqueue_pos, spos>>
    /\ UNCHANGED <<control, refs, counters, dequeue_pos, ready, store, closed, workers, api, shard,
                   env>>

(* Variant: a parked submit does not look at closed. *)
SubmitUnparkRoom(s) ==
    /\ spc[s] = "park"
    /\ Room(shard[s])
    /\ GotoS(s, "check")
    /\ UNCHANGED <<control, refs, counters, rings, workers, args, env>>

(* awp_ring_wait_space returns when there is room or the ring is closed. *)
SubmitUnpark(s) ==
    /\ spc[s] = "park"
    /\ Room(shard[s]) \/ closed[shard[s]]
    /\ GotoS(s, "check")
    /\ UNCHANGED <<control, refs, counters, rings, workers, args, env>>

(* The frame is written into its slot and the position published. *)
Publish(s) ==
    /\ spc[s] = "publish"
    /\ LET w == shard[s]
       IN  /\ store' = [store EXCEPT ![w][Slot(spos[s])] = spos[s]]
           /\ ready' = [ready EXCEPT ![w] = @ \cup {spos[s]}]
    /\ GotoS(s, "count")
    /\ UNCHANGED <<control, refs, counters, enqueue_pos, dequeue_pos, closed, workers, args, env>>

Count(s) ==
    /\ spc[s] = "count"
    /\ submitted' = submitted + 1
    /\ GotoS(s, "unregister")
    /\ UNCHANGED <<control, refs, dropped, abandoned, rings, workers, args, env>>

Unregister(s) ==
    /\ spc[s] = "unregister"
    /\ active_submits' = active_submits - 1
    /\ GotoS(s, "leave")
    /\ UNCHANGED <<control, api_refs, counters, rings, workers, args, env>>

(* awp_api_leave: the last access to the pool.  A keyed submit whose claim *)
(* failed goes round its loop.                                             *)
LeaveTo(s, l) ==
    /\ api_refs' = api_refs - 1
    /\ GotoS(s, l)
    /\ IF l = "idle"
       THEN /\ api' = [api EXCEPT ![s] = "none"]
            /\ shard' = [shard EXCEPT ![s] = 0]
            /\ spos' = [spos EXCEPT ![s] = 0]
       ELSE UNCHANGED args

Leave(s) ==
    /\ spc[s] = "leave"
    /\ LeaveTo(s, "idle")
    /\ UNCHANGED <<control, active_submits, counters, rings, workers, env>>

(***************************************************************************)
(* awp_claim_frame, awp_commit_frame and awp_submit_keyed, which is a      *)
(* claim and a commit in a loop that only a closed ring ends.              *)
(***************************************************************************)
Again(s) == IF api[s] = "keyed" THEN "retry" ELSE "idle"

ClaimAdmit(s) ==
    /\ spc[s] = "admit"
    /\ IF Admitting
       THEN GotoS(s, "cclosed") /\ UNCHANGED <<api_refs, args>>
       ELSE LeaveTo(s, Again(s))
    /\ UNCHANGED <<control, active_submits, counters, rings, workers, env>>

(* Variant: the closed ring returns without awp_api_leave. *)
ClaimClosedLeaks(s) ==
    /\ spc[s] = "cclosed"
    /\ IF closed[shard[s]]
       THEN /\ GotoS(s, "idle")
            /\ api' = [api EXCEPT ![s] = "none"]
            /\ UNCHANGED <<api_refs, shard, spos>>
       ELSE GotoS(s, "claim") /\ UNCHANGED <<api_refs, args>>
    /\ UNCHANGED <<control, active_submits, counters, rings, workers, env>>

ClaimClosed(s) ==
    /\ spc[s] = "cclosed"
    /\ IF closed[shard[s]]
       THEN LeaveTo(s, "idle")
       ELSE GotoS(s, "claim") /\ UNCHANGED <<api_refs, args>>
    /\ UNCHANGED <<control, active_submits, counters, rings, workers, env>>

Claim(s) ==
    /\ spc[s] = "claim"
    /\ \/ /\ TakePosition(s)
          /\ GotoS(s, "cregister")
          /\ UNCHANGED <<api_refs, api, shard>>
       \/ LeaveTo(s, Again(s)) /\ UNCHANGED enqueue_pos           \* -EAGAIN
    /\ UNCHANGED <<control, active_submits, counters, dequeue_pos, ready, store, closed, workers,
                   env>>

ClaimRegister(s) ==
    /\ spc[s] = "cregister"
    /\ active_submits' = active_submits + 1
    /\ GotoS(s, IF api[s] = "keyed" THEN "publish" ELSE "holding")
    /\ UNCHANGED <<control, api_refs, counters, rings, workers, args, env>>

(* The application commits when it likes, or never; not after its producers *)
(* have been joined.                                                        *)
Commit(s) ==
    /\ spc[s] = "holding"
    /\ ~destroy_started
    /\ GotoS(s, "publish")
    /\ UNCHANGED <<control, refs, counters, rings, workers, args, env>>

(* After a failed claim: spin, or park until there is room.                *)
KeyedRetry(s) ==
    /\ \/ /\ spc[s] = "retry" \/ (spc[s] = "kpark" /\ (Room(shard[s]) \/ closed[shard[s]]))
          /\ api_refs' = api_refs + 1
          /\ GotoS(s, "admit")
       \/ /\ spc[s] = "retry"
          /\ GotoS(s, "kpark") /\ UNCHANGED api_refs
    /\ UNCHANGED <<control, active_submits, counters, rings, workers, args, env>>

(***************************************************************************)
(* awp_worker_main.                                                        *)
(***************************************************************************)
WorkerStart(w) ==
    /\ wpc[w] = "start"
    /\ state' = [state EXCEPT ![w] = "RUNNING"]
    /\ GotoW(w, "loop")
    /\ UNCHANGED <<control, clients, rings, stop, joined, processed, env>>

(* Told to stop, and the ring is empty: exit; otherwise pop. *)
WorkerLoop(w) ==
    /\ wpc[w] = "loop"
    /\ GotoW(w, IF stop[w] /\ enqueue_pos[w] = dequeue_pos[w] THEN "exit" ELSE "pop")
    /\ UNCHANGED <<control, clients, rings, state, stop, joined, processed, env>>

(* The oldest position is taken and its cell released. *)
WorkerPop(w) ==
    /\ wpc[w] = "pop"
    /\ HeadReady(w)
    /\ dequeue_pos' = [dequeue_pos EXCEPT ![w] = @ + 1]
    /\ ready' = [ready EXCEPT ![w] = @ \ {dequeue_pos[w]}]
    /\ GotoW(w, "process")
    /\ UNCHANGED <<control, clients, enqueue_pos, store, closed, state, stop, joined, processed,
                   env>>

(* Variant: a closed ring ends the worker, frames or not. *)
WorkerDrainedEarly(w) ==
    /\ wpc[w] = "pop"
    /\ closed[w]
    /\ GotoW(w, "exit")
    /\ UNCHANGED <<control, clients, rings, state, stop, joined, processed, env>>

WorkerDrained(w) ==
    /\ wpc[w] = "pop"
    /\ closed[w] /\ ~HeadReady(w)
    /\ GotoW(w, "exit")
    /\ UNCHANGED <<control, clients, rings, state, stop, joined, processed, env>>

(* process() returns. *)
WorkerProcessed(w) ==
    /\ wpc[w] = "process"
    /\ processed' = [processed EXCEPT ![w] = @ + 1]
    /\ GotoW(w, "loop")
    /\ UNCHANGED <<control, clients, rings, state, stop, joined, env>>

(* note_abort.  Of the counter only whether it is zero is kept. *)
Abort == shutdown_aborts' = 1

(* destroy called from process() or on_error(): quarantine, no free. *)
CallbackDestroy(w) ==
    /\ CallbackDestroys /\ wpc[w] = "process" /\ ~quarantined
    /\ quarantined' = TRUE
    /\ Abort
    /\ UNCHANGED <<life, clients, rings, workers, callers, env>>

WorkerExit(w) ==
    /\ wpc[w] = "exit"
    /\ state' = [state EXCEPT ![w] = "EXITED"]
    /\ GotoW(w, "ended")
    /\ UNCHANGED <<control, clients, rings, stop, joined, processed, env>>

(***************************************************************************)
(* awp_pool_shutdown.  The caller that moves the lifecycle to QUIESCING    *)
(* does the work; the others wait for STOPPED.                             *)
(***************************************************************************)
ShutdownCall(c) ==
    /\ cpc[c] \in {"idle", "returned"}
    /\ ~destroy_started
    /\ GotoC(c, "load")
    /\ UNCHANGED <<flags, clients, rings, workers, locals, env>>

(* Where shutdown returns to: its caller, or destroy. *)
Sample(c) == result' = [result EXCEPT ![c] = IF shutdown_aborts = 0 /\ ~quarantined
                                             THEN "clean" ELSE "late"]
AfterShutdown(c) == IF c = Owner /\ destroy_started THEN "dwait" ELSE "returned"

ShutdownLoad(c) ==
    /\ cpc[c] = "load"
    /\ \/ lifecycle = "STOPPED" /\ Sample(c) /\ GotoC(c, AfterShutdown(c))
       \/ lifecycle \in {"QUIESCING", "DRAINING"} /\ GotoC(c, "join") /\ UNCHANGED result
       \/ lifecycle = "RUNNING" /\ GotoC(c, "cas") /\ UNCHANGED result
    /\ UNCHANGED <<flags, clients, rings, workers, widx, can_close, env>>

(* wait_until_stopped. *)
WaitEnter(c) ==
    /\ cpc[c] = "join"
    /\ shutdown_waiters' = shutdown_waiters + 1
    /\ GotoC(c, "waiting")
    /\ UNCHANGED <<lifecycle, destroy_started, verdict, clients, rings, workers, locals, env>>

(* Variant: whatever wakes the waiter, it does not test the lifecycle again. *)
WaitStoppedOnce(c) ==
    /\ cpc[c] = "waiting"
    /\ Sample(c)
    /\ shutdown_waiters' = shutdown_waiters - 1
    /\ GotoC(c, AfterShutdown(c))
    /\ UNCHANGED <<lifecycle, destroy_started, verdict, clients, rings, workers, widx, can_close,
                   env>>

WaitStopped(c) ==
    /\ cpc[c] = "waiting"
    /\ lifecycle = "STOPPED"
    /\ Sample(c)
    /\ shutdown_waiters' = shutdown_waiters - 1
    /\ GotoC(c, AfterShutdown(c))
    /\ UNCHANGED <<lifecycle, destroy_started, verdict, clients, rings, workers, widx, can_close,
                   env>>

ShutdownCas(c) ==
    /\ cpc[c] = "cas"
    /\ IF lifecycle = "RUNNING"
       THEN lifecycle' = "QUIESCING" /\ GotoC(c, "quiesce")
       ELSE lifecycle' = lifecycle /\ GotoC(c, "load")
    /\ UNCHANGED <<destroy_started, shutdown_waiters, verdict, clients, rings, workers, locals,
                   env>>

(* Time passes while a shutdown is under way. *)
Expire ==
    /\ lifecycle \in {"QUIESCING", "DRAINING"} /\ ~expired
    /\ expired' = TRUE
    /\ UNCHANGED <<control, clients, rings, workers, supervisor_joined, memory, calls>>

Quiesced(c) ==
    /\ cpc[c] = "quiesce"
    /\ active_submits = 0 \/ expired
    /\ GotoC(c, "quiesced")
    /\ UNCHANGED <<flags, clients, rings, workers, locals, env>>

(* Variant: late submits are cut off, the pool is not quarantined. *)
QuiesceResultLenient(c) ==
    /\ cpc[c] = "quiesced"
    /\ IF active_submits > 0
       THEN /\ closed' = [w \in Workers |-> TRUE]
            /\ UNCHANGED <<verdict, can_close>>
       ELSE UNCHANGED <<verdict, closed, can_close>>
    /\ GotoC(c, "drain")
    /\ UNCHANGED <<life, clients, queue, workers, result, widx, env>>

(* active_submits is read a second time: submits that did not finish in    *)
(* time quarantine the pool, and every ring is closed to wake them.        *)
QuiesceResult(c) ==
    /\ cpc[c] = "quiesced"
    /\ IF active_submits > 0
       THEN /\ quarantined' = TRUE /\ Abort /\ can_close' = FALSE
            /\ closed' = [w \in Workers |-> TRUE]
       ELSE UNCHANGED <<verdict, closed, can_close>>
    /\ GotoC(c, "drain")
    /\ UNCHANGED <<life, clients, queue, workers, result, widx, env>>

Drain(c) ==
    /\ cpc[c] = "drain"
    /\ lifecycle' = "DRAINING"
    /\ GotoC(c, IF EnableSupervisor THEN "supwait" ELSE "close")
    /\ widx' = 0
    /\ UNCHANGED <<destroy_started, shutdown_waiters, verdict, clients, rings, workers, result,
                   can_close, env>>

(* Go on with the next worker, or leave the loop for label l. *)
NextWorker(c, again, l) ==
    IF widx + 1 < NWorkers THEN widx' = widx + 1 /\ GotoC(c, again)
                           ELSE widx' = 0 /\ GotoC(c, l)

(* Close one ring.  With live submitters about, a worker that is running   *)
(* is written off: its state is read here and overwritten a step later.    *)
(* The code loads the state twice, for RUNNING and then for STARTING; a    *)
(* worker that starts between the loads is passed over, which no property  *)
(* sees, for the pool is quarantined all the same.                         *)
CloseRing(c) ==
    /\ cpc[c] = "close"
    /\ closed' = [closed EXCEPT ![widx] = TRUE]
    /\ IF ~can_close /\ state[widx] \in {"STARTING", "RUNNING"}
       THEN GotoC(c, "mark") /\ UNCHANGED widx
       ELSE NextWorker(c, "close", IF can_close THEN "worker" ELSE "final")
    /\ UNCHANGED <<flags, clients, queue, workers, result, can_close, env>>

MarkWorker(c) ==
    /\ cpc[c] = "mark"
    /\ state' = [state EXCEPT ![widx] = "QUARANTINED"]
    /\ NextWorker(c, "close", "final")
    /\ UNCHANGED <<flags, clients, rings, stop, joined, processed, wpc, result, can_close, env>>

(* awp_worker_join_deadline. *)
Quarantine(c) ==
    /\ state' = [state EXCEPT ![widx] = "QUARANTINED"]
    /\ quarantined' = TRUE
    /\ Abort
    /\ GotoC(c, "residual")

(* Variant: the wait for the worker has no deadline. *)
JoinWorkerPatient(c) ==
    /\ cpc[c] = "worker"
    /\ joined[widx] \/ state[widx] \notin {"STARTING", "RUNNING"}
    /\ IF ~joined[widx] /\ state[widx] = "QUARANTINED"
       THEN Quarantine(c)
       ELSE /\ \/ joined[widx] /\ GotoC(c, "residual")
               \/ ~joined[widx] /\ GotoC(c, IF state[widx] \in {"EXITED", "JOINED"}
                                            THEN "exited" ELSE "late")
            /\ UNCHANGED <<verdict, state>>
    /\ UNCHANGED <<life, clients, rings, stop, joined, processed, wpc, locals, env>>

(* Wait for the worker to exit or for the deadline, then join it.  One     *)
(* that is already joined, or written off, is not waited for.              *)
JoinWorker(c) ==
    /\ cpc[c] = "worker"
    /\ joined[widx] \/ expired \/ state[widx] \notin {"STARTING", "RUNNING"}
    /\ IF ~joined[widx] /\ state[widx] = "QUARANTINED"
       THEN Quarantine(c)
       ELSE /\ \/ joined[widx] /\ GotoC(c, "residual")
               \/ ~joined[widx] /\ GotoC(c, IF state[widx] \in {"EXITED", "JOINED"}
                                            THEN "exited" ELSE "late")
            /\ UNCHANGED <<verdict, state>>
    /\ UNCHANGED <<life, clients, rings, stop, joined, processed, wpc, locals, env>>

(* join_exited_deadline: past the deadline nothing is joined any more. *)
JoinExited(c) ==
    /\ cpc[c] = "exited"
    /\ IF expired THEN Quarantine(c)
                  ELSE GotoC(c, "helper") /\ UNCHANGED <<verdict, state>>
    /\ UNCHANGED <<life, clients, rings, stop, joined, processed, wpc, locals, env>>

(* The helper thread cannot be had, or pthread_join fails: the worker      *)
(* keeps its state.                                                        *)
JoinFailed(c) ==
    /\ cpc[c] = "helper"
    /\ quarantined' = TRUE
    /\ Abort
    /\ GotoC(c, "residual")
    /\ UNCHANGED <<life, clients, rings, workers, locals, env>>

JoinDone(c) ==
    /\ cpc[c] = "helper"
    /\ wpc[widx] = "ended"
    /\ joined' = [joined EXCEPT ![widx] = TRUE]
    /\ state' = [state EXCEPT ![widx] = "JOINED"]
    /\ GotoC(c, "residual")
    /\ UNCHANGED <<flags, clients, rings, stop, processed, wpc, locals, env>>

JoinTimeout(c) ==
    /\ cpc[c] = "helper"
    /\ expired
    /\ Quarantine(c)
    /\ UNCHANGED <<life, clients, rings, stop, joined, processed, wpc, locals, env>>

(* Still running past the deadline: ask the worker to stop, close its ring *)
(* and, the budget being used up, write it off.                            *)
JoinLate(c) ==
    /\ cpc[c] = "late"
    /\ stop' = [stop EXCEPT ![widx] = TRUE]
    /\ closed' = [closed EXCEPT ![widx] = TRUE]
    /\ GotoC(c, "writeoff")
    /\ UNCHANGED <<flags, clients, queue, state, joined, processed, wpc, locals, env>>

(* Variant: the stuck worker is detached and counts as joined. *)
WriteOffDetach(c) ==
    /\ cpc[c] = "writeoff"
    /\ state' = [state EXCEPT ![widx] = "JOINED"]
    /\ joined' = [joined EXCEPT ![widx] = TRUE]
    /\ Abort
    /\ GotoC(c, "residual")
    /\ UNCHANGED <<life, quarantined, clients, rings, stop, processed, wpc, locals, env>>

WriteOff(c) ==
    /\ cpc[c] = "writeoff"
    /\ Quarantine(c)
    /\ UNCHANGED <<life, clients, rings, stop, joined, processed, wpc, locals, env>>

(* Variant: the drain does not mind the deadline. *)
ResidualAnyTime(c) ==
    /\ cpc[c] = "residual"
    /\ IF state[widx] # "QUARANTINED"
       THEN GotoC(c, "rpop") /\ UNCHANGED widx
       ELSE NextWorker(c, "worker", "final")
    /\ UNCHANGED <<flags, clients, rings, workers, result, can_close, env>>

(* The residual drain starts unless the worker is quarantined ... *)
Residual(c) ==
    /\ cpc[c] = "residual"
    /\ IF state[widx] # "QUARANTINED" /\ ~expired
       THEN GotoC(c, "rpop") /\ UNCHANGED widx
       ELSE NextWorker(c, "worker", "final")
    /\ UNCHANGED <<flags, clients, rings, workers, result, can_close, env>>

(* ... and takes out one frame at a time. *)
ResidualPop(c) ==
    /\ cpc[c] = "rpop"
    /\ IF HeadReady(widx)
       THEN /\ dequeue_pos' = [dequeue_pos EXCEPT ![widx] = @ + 1]
            /\ ready' = [ready EXCEPT ![widx] = @ \ {dequeue_pos[widx]}]
            /\ abandoned' = abandoned + 1
            /\ GotoC(c, "residual") /\ UNCHANGED widx
       ELSE NextWorker(c, "worker", "final") /\ UNCHANGED <<abandoned, dequeue_pos, ready>>
    /\ UNCHANGED <<flags, refs, submitted, dropped, enqueue_pos, store, closed, workers, subs,
                   result, can_close, env>>

(* A worker or a submitter left over quarantines the pool; a quarantine is *)
(* always visible in shutdown_aborts.                                      *)
Final(c) ==
    /\ cpc[c] = "final"
    /\ quarantined' = ( \/ quarantined \/ ~can_close \/ active_submits > 0
                        \/ \E w \in Workers : state[w] = "QUARANTINED" )
    /\ shutdown_aborts' = IF quarantined' /\ shutdown_aborts = 0 THEN 1 ELSE shutdown_aborts
    /\ GotoC(c, "stop")
    /\ UNCHANGED <<life, clients, rings, workers, locals, env>>

SetStopped(c) ==
    /\ cpc[c] = "stop"
    /\ lifecycle' = "STOPPED"
    /\ GotoC(c, "epilogue")
    /\ UNCHANGED <<destroy_started, shutdown_waiters, verdict, clients, rings, workers, locals,
                   env>>

(* The counters are read once more after STOPPED is published. *)
ShutdownReturn(c) ==
    /\ cpc[c] = "epilogue"
    /\ Sample(c)
    /\ GotoC(c, AfterShutdown(c))
    /\ UNCHANGED <<flags, clients, rings, workers, widx, can_close, env>>

(***************************************************************************)
(* awp_pool_destroy, called once, by the owner.                            *)
(***************************************************************************)

(* The owner calls destroy when it has joined every producer and every     *)
(* other caller of shutdown, as awp.h asks; a producer may have ended with *)
(* a claim it never committed.                                             *)
OthersDone ==
    /\ \A s \in Submitters : spc[s] \in {"idle", "holding"}
    /\ \A c \in Callers \ {Owner} : cpc[c] \in {"idle", "returned"}

DestroyCall ==
    /\ cpc[Owner] \in {"idle", "returned"}
    /\ ~destroy_started
    /\ OthersDone
    /\ destroy_started' = TRUE
    /\ GotoC(Owner, IF lifecycle = "STOPPED" THEN "dwait" ELSE "load")
    /\ UNCHANGED <<lifecycle, shutdown_waiters, verdict, clients, rings, workers, locals, env>>

DestroyWait ==
    /\ cpc[Owner] = "dwait"
    /\ shutdown_waiters = 0
    /\ GotoC(Owner, "drefs")
    /\ UNCHANGED <<flags, clients, rings, workers, locals, env>>

DestroyRefs ==
    /\ cpc[Owner] = "drefs"
    /\ api_refs = 0
    /\ GotoC(Owner, "dcheck")
    /\ UNCHANGED <<flags, clients, rings, workers, locals, env>>

(* Variant: the wait goes on after the five seconds. *)
DestroyTimeoutLoops ==
    /\ cpc[Owner] = "drefs"
    /\ api_refs > 0
    /\ quarantined' = TRUE
    /\ GotoC(Owner, "drefs")
    /\ UNCHANGED <<life, shutdown_aborts, clients, rings, workers, locals, env>>

(* Five seconds pass with API calls still inside. *)
DestroyTimeout ==
    /\ cpc[Owner] = "drefs"
    /\ api_refs > 0
    /\ quarantined' = TRUE
    /\ GotoC(Owner, "dcheck")
    /\ UNCHANGED <<life, shutdown_aborts, clients, rings, workers, locals, env>>

LiveReferences ==
    \/ quarantined \/ active_submits > 0 \/ api_refs > 0 \/ ~supervisor_joined
    \/ \E w \in Workers : state[w] = "QUARANTINED"

(* Free the pool, or leak it when somebody may still use it. *)
Destroy ==
    /\ cpc[Owner] = "dcheck"
    /\ LET unjoined == \E w \in Workers : ~joined[w]
       IN  /\ memory' = IF LiveReferences \/ unjoined THEN "leaked" ELSE "freed"
           /\ quarantined' = (quarantined \/ (~LiveReferences /\ unjoined))
    /\ GotoC(Owner, "gone")
    /\ UNCHANGED <<life, shutdown_aborts, clients, rings, workers, locals, supervisor_joined,
                   expired, calls>>

(***************************************************************************)
(* The specification.                                                      *)
(***************************************************************************)

(* The steps the library takes by itself inside a call. *)
SubmitStep(s) ==
    \/ SubmitRegister(s) \/ SubmitCheck(s) \/ SubmitClosed(s) \/ SubmitReserve(s)
    \/ SubmitUnpark(s) \/ Publish(s) \/ Count(s) \/ Unregister(s) \/ Leave(s)
    \/ ClaimAdmit(s) \/ ClaimClosed(s) \/ Claim(s) \/ ClaimRegister(s) \/ KeyedRetry(s)

WorkerStep(w) ==
    \/ WorkerStart(w) \/ WorkerLoop(w) \/ WorkerPop(w) \/ WorkerDrained(w) \/ WorkerExit(w)

ShutdownStep(c) ==
    \/ ShutdownLoad(c) \/ WaitEnter(c) \/ WaitStopped(c) \/ ShutdownCas(c) \/ Quiesced(c)
    \/ QuiesceResult(c) \/ Drain(c) \/ CloseRing(c) \/ MarkWorker(c) \/ JoinWorker(c)
    \/ JoinExited(c) \/ JoinFailed(c) \/ JoinDone(c) \/ JoinTimeout(c) \/ JoinLate(c)
    \/ WriteOff(c) \/ Residual(c)
    \/ ResidualPop(c) \/ Final(c) \/ SetStopped(c) \/ ShutdownReturn(c)

DestroyStep == DestroyWait \/ DestroyRefs \/ DestroyTimeout \/ Destroy

(* What the application does with the pool's handle. *)
ClientCall ==
    \/ \E s \in Submitters, a \in Apis, w \in Workers : Call(s, a, w)
    \/ \E c \in Callers : ShutdownCall(c)
    \/ DestroyCall

Running ==
    \/ \E s \in Submitters : SubmitStep(s) \/ Commit(s)
    \/ \E w \in Workers : WorkerStep(w) \/ WorkerProcessed(w) \/ CallbackDestroy(w)
    \/ \E c \in Callers : ShutdownStep(c)
    \/ Expire
    \/ DestroyStep

Next == ClientCall \/ Running

Spec == Init /\ [][Next]_vars

(***************************************************************************)
(* Fairness: every thread that can go on does, and time passes.  The       *)
(* application need not commit a claim, process() need not return and      *)
(* nobody need call anything.                                              *)
(***************************************************************************)
Fairness ==
    /\ \A s \in Submitters : WF_vars(SubmitStep(s))
    /\ \A w \in Workers : WF_vars(WorkerStep(w))
    /\ \A c \in Callers : WF_vars(ShutdownStep(c))
    /\ WF_vars(DestroyStep)
    /\ WF_vars(Expire)

FairSpec == Spec /\ Fairness

(***************************************************************************)
(* Properties.                                                             *)
(***************************************************************************)
SubmitPC == {"idle", "register", "check", "closed", "reserve", "park", "publish", "count",
             "unregister", "leave", "admit", "cclosed", "claim", "cregister", "holding",
             "retry", "kpark"}
CallerPC == {"idle", "load", "join", "waiting", "cas", "quiesce", "quiesced", "drain",
             "close", "mark", "worker", "exited", "helper", "late", "writeoff", "residual", "rpop",
             "final", "stop", "epilogue", "returned", "dwait", "drefs", "dcheck", "gone",
             \* in module Supervisor:
             "supwait", "supjoin", "suphelper", "create", "createsup", "rollback", "rbclose",
             "rbjoin", "rbfree"}

(* Every variable has its type. *)
TypeOK ==
    /\ lifecycle \in {"RUNNING", "QUIESCING", "DRAINING", "STOPPED"}
    /\ active_submits \in Nat /\ api_refs \in Nat
    /\ shutdown_waiters \in Nat /\ shutdown_aborts \in {0, 1}
    /\ quarantined \in BOOLEAN /\ destroy_started \in BOOLEAN
    /\ submitted \in Nat /\ dropped \in Nat /\ abandoned \in Nat
    /\ enqueue_pos \in [Workers -> Nat] /\ dequeue_pos \in [Workers -> Nat]
    /\ ready \in [Workers -> SUBSET Nat]
    /\ store \in [Workers -> [0 .. Capacity - 1 -> Nat \cup {NoFrame}]]
    /\ closed \in [Workers -> BOOLEAN]
    /\ state \in [Workers -> {"STARTING", "RUNNING", "EXITED", "JOINED", "QUARANTINED"}]
    /\ stop \in [Workers -> BOOLEAN] /\ joined \in [Workers -> BOOLEAN]
    /\ processed \in [Workers -> Nat]
    /\ wpc \in [Workers -> {"start", "loop", "pop", "process", "exit", "ended"}]
    /\ spc \in [Submitters -> SubmitPC]
    /\ api \in [Submitters -> Apis \cup {"none"}]
    /\ shard \in [Submitters -> Workers]
    /\ spos \in [Submitters -> Nat]
    /\ cpc \in [Callers -> CallerPC]
    /\ result \in [Callers -> {"none", "clean", "late"}]
    /\ widx \in Workers /\ can_close \in BOOLEAN
    /\ supervisor_joined \in BOOLEAN /\ expired \in BOOLEAN /\ memory \in {"live", "freed", "leaked"}
    /\ calls \in 0 .. MaxCalls

(* The number of frames that process() has returned from, on all workers. *)
Handled   == UNION {{w} \X (1 .. processed[w]) : w \in Workers}
Processed == Cardinality(Handled)

(* A shutdown that ends without quarantine loses nothing: every frame that *)
(* was accepted has been processed, or counted as abandoned, and none is   *)
(* left in a ring.                                                         *)
NoFrameLost ==
    lifecycle = "STOPPED" /\ ~quarantined =>
        /\ submitted = Processed + abandoned
        /\ \A w \in Workers : enqueue_pos[w] = dequeue_pos[w]

(* Backpressure never drops: awp_submit meets a closed ring (and returns   *)
(* -1, counting a drop) only when the pool is quarantined, because the     *)
(* rings are closed after the registered submits have left.                *)
NoDrops == dropped > 0 => quarantined

(* The pool is freed only when nobody uses it: no worker thread runs, no   *)
(* submit or claim is inside, no shutdown is still reading its fields.     *)
NoUseAfterFree ==
    memory = "freed" =>
        /\ \A w \in Workers : wpc[w] = "ended"
        /\ \A s \in Submitters : spc[s] = "idle"
        /\ \A c \in Callers : cpc[c] \in {"idle", "returned", "gone"}

(* The shutdown thread drains a ring only when its worker has ended: the   *)
(* rings may be single-consumer, although a quarantined worker overwrites  *)
(* its own state with RUNNING or EXITED.                                   *)
SingleConsumer == \A c \in Callers : cpc[c] = "rpop" => wpc[widx] = "ended"

(* A shutdown that returns 0 has joined every worker and the supervisor.   *)
CleanMeansJoined ==
    \A c \in Callers :
        result[c] = "clean" => supervisor_joined /\ \A w \in Workers : joined[w]

(* active_submits and api_refs are what they claim to be, so that neither  *)
(* shutdown nor destroy waits for calls that are over or overlooks one.    *)
Registered == {s \in Submitters : spc[s] \in {"check", "closed", "reserve", "park", "publish",
                                              "count", "unregister", "holding"}}
Inside     == {s \in Submitters : spc[s] \notin {"idle", "retry", "kpark"}}

RefsCounted == active_submits = Cardinality(Registered) /\ api_refs = Cardinality(Inside)

(* Once every submit that began in time has left, no ring gets another     *)
(* frame: admission is closed before the rings are.                        *)
AdmissionEnds ==
    [][ (lifecycle \in {"DRAINING", "STOPPED"} /\ ~quarantined)
        => UNCHANGED enqueue_pos ]_vars

(* Every shutdown returns, however long process() takes and even if a      *)
(* claim is never committed.                                               *)
InShutdown(c) == cpc[c] \notin {"idle", "returned", "dwait", "drefs", "dcheck", "gone"}
ShutdownReturns == \A c \in Callers : InShutdown(c) ~> ~InShutdown(c)

(* Once a shutdown has begun every awp_submit returns, parked ones too.    *)
SubmitReturns ==
    \A s \in Submitters :
        (api[s] = "submit" /\ lifecycle # "RUNNING") ~> api[s] # "submit"

(* Once a shutdown has begun every awp_submit_keyed returns.               *)
KeyedReturns ==
    \A s \in Submitters :
        (api[s] = "keyed" /\ lifecycle # "RUNNING") ~> api[s] # "keyed"

(* Destroy comes to an end, by freeing the pool or by leaking it.          *)
DestroyEnds == destroy_started ~> memory # "live"

(* The frame process() works on is not overwritten before it returns.      *)
FrameStable ==
    [][ \A w \in Workers : (wpc[w] = "process" /\ wpc'[w] = "process")
          => LET slot == Slot(dequeue_pos[w] - 1) IN store'[w][slot] = store[w][slot] ]_vars

=============================================================================
