------------------------------ MODULE Supervisor ------------------------------
(***************************************************************************)
(* The pool with its supervisor thread (src/src/supervisor.c): creation    *)
(* with rollback, the detection of stalled workers, quarantine, restart of *)
(* a worker that has exited, and the part of shutdown that waits for the   *)
(* supervisor.  Everything else is module Pool, whose variables and        *)
(* actions this module extends.                                            *)
(*                                                                         *)
(* Time is abstract: whenever the supervisor looks, the stall threshold    *)
(* may have passed since the worker's last_progress_ns, and the grace      *)
(* period may end at any moment.  Of last_progress_ns only whether it has  *)
(* moved since the supervisor sampled it is kept.  enable_restart = 1.     *)
(***************************************************************************)
EXTENDS Pool

ASSUME SupervisorAssumption == EnableSupervisor

VARIABLES
    supervisor_stop,
    supervisor_phase,  \* 0 none, 1 starting, 2 alive, 3 exited
    progress,      \* last_progress_ns of worker uidx has moved since it was sampled
    upc,           \* what the supervisor does next
    uidx           \* the worker it looks at

watch == <<supervisor_stop, supervisor_phase, progress>>
sup   == <<watch, upc, uidx>>
svars == <<vars, sup>>

GotoU(l) == upc' = l

(* Go on with the next worker; after the last, sleep and start again. *)
NextTurn == upc' = "loop" /\ uidx' = (uidx + 1) % NWorkers

life_is_running == lifecycle = "RUNNING" /\ ~supervisor_stop

SetStop(b)     == stop' = [stop EXCEPT ![uidx] = b]
SetState(x)    == state' = [state EXCEPT ![uidx] = x]
SetClosed(b)   == closed' = [closed EXCEPT ![uidx] = b]

(***************************************************************************)
(* awp_pool_create, run by the owner.  The handle is handed out when the   *)
(* supervisor has been created.                                            *)
(***************************************************************************)
SupInit ==
    /\ InitStorage
    /\ state = [w \in Workers |-> "JOINED"]
    /\ joined = [w \in Workers |-> TRUE]
    /\ wpc = [w \in Workers |-> "ended"]
    /\ cpc = [c \in Callers |-> IF c = Owner THEN "create" ELSE "idle"]
    /\ supervisor_stop = FALSE /\ supervisor_phase = 0
    /\ progress = FALSE
    /\ upc = "none" /\ uidx = 0

Published == upc # "none"

(* awp_worker_start for worker i: the thread is created, or it is not. *)
Started(i) ==
    /\ stop' = [stop EXCEPT ![i] = FALSE]
    /\ joined' = [joined EXCEPT ![i] = FALSE]
    /\ state' = [state EXCEPT ![i] = "STARTING"]
    /\ wpc' = [wpc EXCEPT ![i] = "start"]

CreateWorker ==
    /\ cpc[Owner] = "create"
    /\ \/ Started(widx) /\ NextWorker(Owner, "create", "createsup")
       \/ /\ GotoC(Owner, "rollback") /\ widx' = 0
          /\ UNCHANGED <<state, stop, joined, wpc>>
    /\ UNCHANGED <<flags, clients, rings, processed, result, can_close, env, sup>>

CreateSupervisor ==
    /\ cpc[Owner] = "createsup"
    /\ \/ /\ GotoC(Owner, "idle") /\ GotoU("start")
          /\ supervisor_joined' = FALSE /\ supervisor_phase' = 1
       \/ GotoC(Owner, "rollback") /\ UNCHANGED <<supervisor_joined, supervisor_phase, upc>>
    /\ UNCHANGED <<flags, clients, rings, workers, locals, expired, memory, calls, supervisor_stop,
                   progress, uidx>>

Rollback ==
    /\ cpc[Owner] = "rollback"
    /\ supervisor_stop' = TRUE
    /\ lifecycle' = "DRAINING"
    /\ GotoC(Owner, "rbclose")
    /\ UNCHANGED <<destroy_started, shutdown_waiters, verdict, clients, rings, workers, locals, env,
                   supervisor_phase, progress, upc, uidx>>

(* Variant: the worker is told to stop, its ring stays open. *)
RollbackStopOnly ==
    /\ cpc[Owner] = "rbclose"
    /\ stop' = [stop EXCEPT ![widx] = TRUE]
    /\ GotoC(Owner, "rbjoin")
    /\ UNCHANGED <<flags, clients, rings, state, joined, processed, wpc, locals, env, sup>>

RollbackClose ==
    /\ cpc[Owner] = "rbclose"
    /\ stop' = [stop EXCEPT ![widx] = TRUE]
    /\ closed' = [closed EXCEPT ![widx] = TRUE]
    /\ GotoC(Owner, "rbjoin")
    /\ UNCHANGED <<flags, clients, queue, state, joined, processed, wpc, locals, env, sup>>

(* pthread_join without a deadline; if it fails the pool is leaked. *)
RollbackJoin ==
    /\ cpc[Owner] = "rbjoin"
    /\ joined[widx] \/ wpc[widx] = "ended"
    /\ \/ /\ joined' = [joined EXCEPT ![widx] = TRUE]
          /\ NextWorker(Owner, "rbclose", "rbfree")
          /\ UNCHANGED memory
       \/ /\ ~joined[widx]
          /\ memory' = "leaked"
          /\ GotoC(Owner, "gone") /\ UNCHANGED <<joined, widx>>
    /\ UNCHANGED <<flags, clients, rings, state, stop, processed, wpc, result, can_close,
                   supervisor_joined, expired, calls, sup>>

RollbackFree ==
    /\ cpc[Owner] = "rbfree"
    /\ memory' = "freed"
    /\ GotoC(Owner, "gone")
    /\ UNCHANGED <<flags, clients, rings, workers, locals, supervisor_joined, expired, calls, sup>>

CreateStep ==
    \/ CreateWorker \/ CreateSupervisor \/ Rollback \/ RollbackClose \/ RollbackJoin
    \/ RollbackFree

(***************************************************************************)
(* awp_supervisor_main.                                                    *)
(***************************************************************************)

(* What a step of the supervisor that only moves on leaves alone. *)
PoolUnchanged == UNCHANGED <<vars, watch>>

SupStart ==
    /\ upc = "start"
    /\ supervisor_phase' = 2
    /\ GotoU("loop")
    /\ UNCHANGED <<vars, supervisor_stop, progress, uidx>>

(* Variant: a worker that has exited is left alone. *)
SupLoopSkips ==
    /\ upc = "loop"
    /\ IF life_is_running /\ state[uidx] # "RUNNING"
       THEN NextTurn
       ELSE GotoU(IF life_is_running THEN "idle" ELSE "exit") /\ UNCHANGED uidx
    /\ PoolUnchanged

(* Look at the state of one worker, while the pool is running. *)
SupLoop ==
    /\ upc = "loop"
    /\ IF life_is_running /\ state[uidx] \notin {"EXITED", "RUNNING"}
       THEN NextTurn
       ELSE /\ \/ ~life_is_running /\ GotoU("exit")
               \/ life_is_running /\ GotoU(IF state[uidx] = "EXITED" THEN "restart" ELSE "idle")
            /\ UNCHANGED uidx
    /\ PoolUnchanged

SupIdle ==
    /\ upc = "idle"
    /\ NextTurn
    /\ progress' = FALSE
    /\ UNCHANGED <<vars, supervisor_stop, supervisor_phase>>

(* A stall: frames in the queue and no progress for too long. *)
SupStall ==
    /\ upc = "idle"
    /\ enqueue_pos[uidx] > dequeue_pos[uidx]
    /\ GotoU("ask")
    /\ UNCHANGED uidx /\ PoolUnchanged

SupAsk ==
    /\ upc = "ask"
    /\ SetStop(TRUE)
    /\ GotoU("grace")
    /\ UNCHANGED <<control, clients, rings, state, joined, processed, wpc, env, watch, uidx>>

(* The worker has made progress: the request is withdrawn. *)
SupWithdraw ==
    /\ upc = "grace"
    /\ state[uidx] = "RUNNING" /\ life_is_running /\ progress
    /\ SetStop(FALSE)
    /\ GotoU("after")
    /\ UNCHANGED <<control, clients, rings, state, joined, processed, wpc, env, watch, uidx>>

(* The worker has left RUNNING, the pool is shut down, or time is up. *)
SupGraceOver ==
    /\ upc = "grace"
    /\ GotoU("after")
    /\ UNCHANGED uidx /\ PoolUnchanged

SupAfter ==
    /\ upc = "after"
    /\ \/ ~life_is_running /\ GotoU("exit")
       \/ life_is_running /\ GotoU(IF state[uidx] = "EXITED" THEN "restart" ELSE "verdict")
    /\ progress' = (progress /\ upc' = "verdict")
    /\ UNCHANGED <<vars, supervisor_stop, supervisor_phase, uidx>>

(* Still no progress: quarantine.  The worker may exit or go on between    *)
(* this test and the store.                                                *)
SupVerdict ==
    /\ upc = "verdict"
    /\ IF state[uidx] = "RUNNING" /\ stop[uidx] /\ ~progress
       THEN GotoU("condemn") /\ UNCHANGED <<stop, uidx>>
       ELSE SetStop(FALSE) /\ NextTurn
    /\ progress' = FALSE
    /\ UNCHANGED <<control, clients, rings, state, joined, processed, wpc, env, supervisor_stop,
                   supervisor_phase>>

SupCondemn ==
    /\ upc = "condemn"
    /\ SetState("QUARANTINED")
    /\ GotoU("shut")
    /\ UNCHANGED <<control, clients, rings, stop, joined, processed, wpc, env, watch, uidx>>

(* Variant: the ring of a quarantined worker stays open. *)
SupShutForgets ==
    /\ upc \in {"shut", "rfail"}
    /\ GotoU(IF upc = "shut" THEN "mark" ELSE "rmark")
    /\ UNCHANGED uidx /\ PoolUnchanged

(* The ring is closed, which wakes its producers, and then the pool is     *)
(* quarantined; after a failed restart the supervisor gives up for good.   *)
SupShut ==
    /\ upc \in {"shut", "rfail"}
    /\ SetClosed(TRUE)
    /\ GotoU(IF upc = "shut" THEN "mark" ELSE "rmark")
    /\ UNCHANGED <<control, clients, queue, workers, env, watch, uidx>>

SupMark ==
    /\ upc \in {"mark", "rmark"}
    /\ quarantined' = TRUE
    /\ Abort
    /\ supervisor_stop' = (supervisor_stop \/ upc = "rmark")
    /\ NextTurn
    /\ UNCHANGED <<life, clients, rings, workers, callers, env, supervisor_phase, progress>>

(***************************************************************************)
(* restart_worker.                                                         *)
(***************************************************************************)
Restart ==
    /\ upc = "restart"
    /\ IF life_is_running THEN GotoU("rjoin") /\ UNCHANGED uidx ELSE NextTurn
    /\ PoolUnchanged

RestartJoin ==
    /\ upc = "rjoin"
    /\ joined[uidx] \/ wpc[uidx] = "ended"
    /\ joined' = [joined EXCEPT ![uidx] = TRUE]
    /\ SetState("JOINED")
    /\ GotoU("rlife")
    /\ UNCHANGED <<control, clients, rings, stop, processed, wpc, env, watch, uidx>>

RestartJoinFails ==
    /\ upc = "rjoin"
    /\ ~joined[uidx]
    /\ quarantined' = TRUE
    /\ NextTurn
    /\ UNCHANGED <<life, shutdown_aborts, clients, rings, workers, callers, env, watch>>

(* The lifecycle is tested again before the ring is reopened ... *)
RestartLife ==
    /\ upc = "rlife"
    /\ IF life_is_running THEN GotoU("reopen") /\ UNCHANGED <<closed, uidx>>
                          ELSE SetClosed(TRUE) /\ NextTurn
    /\ UNCHANGED <<control, clients, queue, workers, env, watch>>

Reopen ==
    /\ upc = "reopen"
    /\ SetClosed(FALSE)
    /\ GotoU("rcheck")
    /\ UNCHANGED <<control, clients, queue, workers, env, watch, uidx>>

(* Variant: no test after the reopen. *)
PostReopenUnchecked ==
    /\ upc = "rcheck"
    /\ GotoU("rstart")
    /\ UNCHANGED uidx /\ PoolUnchanged

(* ... and after it: a shutdown that has overtaken the reopen wins. *)
PostReopenCheck ==
    /\ upc = "rcheck"
    /\ IF life_is_running THEN GotoU("rstart") /\ UNCHANGED <<closed, uidx>>
                          ELSE SetClosed(TRUE) /\ NextTurn
    /\ UNCHANGED <<control, clients, queue, workers, env, watch>>

(* awp_worker_start: first the fields, then the thread. *)
RestartStart ==
    /\ upc = "rstart"
    /\ SetStop(FALSE)
    /\ joined' = [joined EXCEPT ![uidx] = FALSE]
    /\ SetState("STARTING")
    /\ GotoU("rcreate")
    /\ UNCHANGED <<control, clients, rings, processed, wpc, env, watch, uidx>>

RestartCreate ==
    /\ upc = "rcreate"
    /\ \/ GotoW(uidx, "start") /\ NextTurn /\ UNCHANGED <<state, joined>>
       \/ /\ SetState("JOINED")
          /\ joined' = [joined EXCEPT ![uidx] = TRUE]
          /\ GotoU("rfail") /\ UNCHANGED <<wpc, uidx>>
    /\ UNCHANGED <<control, clients, rings, stop, processed, env, watch>>

(* The phase is published before the last use of the pool's mutex. *)
SupExit ==
    /\ upc = "exit"
    /\ supervisor_phase' = 3
    /\ GotoU("leaving")
    /\ UNCHANGED <<vars, supervisor_stop, progress, uidx>>

SupEnd ==
    /\ upc = "leaving"
    /\ GotoU("ended")
    /\ UNCHANGED uidx /\ PoolUnchanged

(***************************************************************************)
(* awp_pool_shutdown: the wait for the supervisor.                         *)
(***************************************************************************)

(* Give up on the supervisor: no ring is drained, no worker joined. *)
AbandonSupervisor(c) ==
    /\ quarantined' = TRUE
    /\ Abort
    /\ can_close' = FALSE
    /\ GotoC(c, "close")

(* Variant: a supervisor that is late is not waited for, nor minded. *)
SupWaitIgnores(c) ==
    /\ cpc[c] = "supwait"
    /\ supervisor_phase = 3 \/ expired
    /\ GotoC(c, IF supervisor_phase = 3 THEN "supjoin" ELSE "close")
    /\ UNCHANGED <<flags, clients, rings, workers, locals, env, sup>>

SupWait(c) ==
    /\ cpc[c] = "supwait"
    /\ supervisor_phase = 3 \/ expired
    /\ IF supervisor_phase = 3
       THEN GotoC(c, "supjoin") /\ UNCHANGED <<verdict, can_close>>
       ELSE AbandonSupervisor(c)
    /\ UNCHANGED <<life, clients, rings, workers, result, widx, env, sup>>

SupJoin(c) ==
    /\ cpc[c] = "supjoin"
    /\ IF expired
       THEN AbandonSupervisor(c)
       ELSE GotoC(c, "suphelper") /\ UNCHANGED <<verdict, can_close>>
    /\ UNCHANGED <<life, clients, rings, workers, result, widx, env, sup>>

(* Variant: phase 3 is taken for the end of the thread. *)
SupJoinedEarly(c) ==
    /\ cpc[c] = "suphelper"
    /\ supervisor_joined' = TRUE
    /\ GotoC(c, "close")
    /\ UNCHANGED <<flags, clients, rings, workers, locals, expired, memory, calls, sup>>

SupJoined(c) ==
    /\ cpc[c] = "suphelper"
    /\ upc = "ended"
    /\ supervisor_joined' = TRUE
    /\ GotoC(c, "close")
    /\ UNCHANGED <<flags, clients, rings, workers, locals, expired, memory, calls, sup>>

(* Variant: the failed join is not noted. *)
SupJoinFailsQuiet(c) ==
    /\ cpc[c] = "suphelper"
    /\ GotoC(c, "close")
    /\ UNCHANGED <<flags, clients, rings, workers, locals, env, sup>>

(* The deadline passes, or there is no helper thread to be had. *)
SupJoinFails(c) ==
    /\ cpc[c] = "suphelper"
    /\ AbandonSupervisor(c)
    /\ UNCHANGED <<life, clients, rings, workers, result, widx, env, sup>>

(***************************************************************************)
(* The specification.                                                      *)
(***************************************************************************)

(* The worker stores last_progress_ns: at its start, after a pop and after *)
(* process().                                                              *)
Progress(w) ==
    /\ wpc[w] \in {"start", "pop", "process"}
    /\ wpc'[w] \in {"process", "loop"} /\ wpc'[w] # wpc[w]

Inspecting == upc \in {"idle", "ask", "grace", "after", "verdict"}

(* A step of module Pool; shutdown also stops the supervisor. *)
Lift(step) ==
    /\ step
    /\ progress' = (progress \/ (Inspecting /\ Progress(uidx)))
    /\ supervisor_stop' = (supervisor_stop \/ lifecycle' = "DRAINING")
    /\ UNCHANGED <<supervisor_phase, upc, uidx>>

RestartStep ==
    \/ Restart \/ RestartJoin \/ RestartJoinFails \/ RestartLife \/ Reopen \/ PostReopenCheck
    \/ RestartStart \/ RestartCreate

SupervisorStep ==
    \/ SupStart \/ SupLoop \/ SupIdle \/ SupStall \/ SupAsk \/ SupWithdraw \/ SupGraceOver \/ SupAfter
    \/ SupVerdict \/ SupCondemn \/ SupShut \/ SupMark \/ RestartStep \/ SupExit \/ SupEnd

SupShutdownStep(c) == SupWait(c) \/ SupJoin(c) \/ SupJoined(c) \/ SupJoinFails(c)

SupNext ==
    \/ CreateStep
    \/ Lift((Published /\ ClientCall) \/ Running)
    \/ SupervisorStep
    \/ \E c \in Callers : SupShutdownStep(c)

SupSpec == SupInit /\ [][SupNext]_svars

(* A pool that nobody shuts down.  The threads run and time passes;        *)
(* process() need not return.  A worker that never gets on while frames    *)
(* wait is found stalled, and pthread_join of a thread that has ended does *)
(* not fail for ever.                                                      *)
ServingNext ==
    \/ CreateStep
    \/ Lift(Published /\ \E s \in Submitters, a \in Apis, w \in Workers : Call(s, a, w))
    \/ Lift(\E s \in Submitters : SubmitStep(s))
    \/ Lift(\E w \in Workers : WorkerStep(w) \/ WorkerProcessed(w))
    \/ SupervisorStep

ServingSpec ==
    /\ SupInit /\ [][ServingNext]_svars
    /\ \A s \in Submitters : WF_svars(Lift(SubmitStep(s)))
    /\ \A w \in Workers : WF_svars(Lift(WorkerStep(w)))
    /\ WF_svars(CreateStep)
    /\ WF_svars(SupervisorStep) /\ SF_svars(SupStall) /\ SF_svars(RestartJoin)

(***************************************************************************)
(* Properties.                                                             *)
(***************************************************************************)

(* Every variable has its type. *)
SupTypeOK ==
    /\ TypeOK
    /\ supervisor_stop \in BOOLEAN /\ supervisor_phase \in 0 .. 3
    /\ progress \in BOOLEAN
    /\ upc \in {"none", "start", "loop", "idle", "ask", "grace", "after", "verdict", "condemn",
                "shut", "mark", "restart", "rjoin", "rlife", "reopen", "rcheck", "rstart",
                "rcreate", "rfail", "rmark", "exit", "leaving", "ended"}
    /\ uidx \in Workers

(* Neither destroy nor the rollback of create frees the pool while a       *)
(* worker, the supervisor or a call may still use it.                      *)
SupNoUseAfterFree == memory = "freed" => NoUseAfterFree /\ upc \in {"none", "ended"}

(* The supervisor is about to start a thread for a worker only when the    *)
(* thread it replaces has ended and the shutdown is not draining the ring: *)
(* the ring never has two consumers.                                       *)
RestartAlone ==
    upc = "rcreate" => /\ wpc[uidx] = "ended"
                       /\ \A c \in Callers : cpc[c] \notin {"worker", "exited", "helper",
                                                            "residual", "rpop"}

(* A reopen that races shutdown is undone: once the pool has stopped, a    *)
(* ring is open only while the supervisor, which shutdown gave up on, is   *)
(* between awp_ring_reopen and the test that follows it.                   *)
RingsReclosed ==
    lifecycle = "STOPPED" =>
        \A w \in Workers : closed[w] \/ (uidx = w /\ upc = "rcheck")

(* No worker is forgotten: while the supervisor is on duty, a ring whose   *)
(* worker has ended is closed, or the supervisor will find the worker      *)
(* EXITED, or it is dealing with it now, although it overwrites states     *)
(* and stop flags that it has read a while ago.                            *)
NoForgottenWorker ==
    Published /\ life_is_running =>
        \A w \in Workers : wpc[w] = "ended" =>
            \/ closed[w] \/ state[w] = "EXITED"
            \/ uidx = w /\ upc \in {"shut", "rlife", "reopen", "rcheck", "rstart", "rcreate",
                                    "rfail"}

(* A clean shutdown has processed every frame it accepted: workers process *)
(* until their ring is closed and empty.                                   *)
CleanDrain ==
    (\E c \in Callers : result[c] = "clean") => submitted <= Processed

(* A worker that exits while the pool runs is replaced, or its ring is     *)
(* closed, unless the supervisor has stopped after a failed restart.       *)
ExitedReplaced ==
    \A w \in Workers : (Published /\ state[w] = "EXITED")
        ~> (state[w] # "EXITED" \/ closed[w] \/ supervisor_stop)

(* A producer parked on a full ring is woken although process() may never  *)
(* return and nobody calls shutdown: the worker makes room or it is        *)
(* quarantined and its ring closed.                                        *)
ParkedWakes ==
    \A s \in Submitters : spc[s] = "park" ~> (spc[s] # "park" \/ supervisor_stop)

(* Create ends: with a running pool, or with everything undone.            *)
CreateEnds == <>(Published \/ memory # "live")

=============================================================================
