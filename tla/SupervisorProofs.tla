-------------------------- MODULE SupervisorProofs --------------------------
(***************************************************************************)
(* Proofs about module Supervisor, for any number of threads, workers and  *)
(* calls.  The steps of the pool's own threads are those of PoolProofs.    *)
(***************************************************************************)
EXTENDS Supervisor, PoolProofs

(***************************************************************************)
(* The inductive invariant.                                                *)
(***************************************************************************)
CreatePC == {"create", "createsup", "rollback", "rbclose", "rbjoin", "rbfree"}

(* Before the handle is handed out only the owner and the workers run; the *)
(* workers that have not been started, or have been rolled back, count as  *)
(* joined.                                                                 *)
CreateInv ==
    /\ \A c \in Callers : cpc[c] \in CreatePC => c = Owner /\ ~Published
    /\ ~Published =>
          /\ cpc[Owner] \in CreatePC \cup {"gone"}
          /\ \A c \in Callers \ {Owner} : cpc[c] = "idle"
          /\ \A c \in Callers : result[c] = "none"
          /\ \A s \in Submitters : spc[s] = "idle"
          /\ lifecycle \in {"RUNNING", "DRAINING"} /\ ~destroy_started /\ supervisor_joined
    /\ cpc[Owner] = "create" => \A w \in Workers :
          IF w < widx THEN wpc[w] = "ended" => state[w] = "EXITED" ELSE joined[w]
    /\ cpc[Owner] = "createsup" => \A w \in Workers : wpc[w] = "ended" => state[w] = "EXITED"
    /\ cpc[Owner] \in {"createsup", "rollback"} => widx = 0
    /\ cpc[Owner] \in {"rbclose", "rbjoin"} => \A w \in Workers : w < widx => joined[w]
    /\ cpc[Owner] = "rbfree" => \A w \in Workers : joined[w]
    /\ Published => GoneInv

(* A worker is RUNNING only after its thread has begun. *)
BegunInv == \A w \in Workers : state[w] = "RUNNING" => wpc[w] # "start"

(* Where the supervisor is with worker uidx: it restarts one whose thread  *)
(* has ended and condemns one whose thread has begun.                      *)
AtInv ==
    /\ upc \in {"rlife", "reopen", "rcheck", "rstart", "rfail"} => joined[uidx]
    /\ upc = "rcreate" =>
          /\ ~joined[uidx] /\ wpc[uidx] = "ended"
          /\ state[uidx] = "STARTING" \/ (state[uidx] = "QUARANTINED" /\ ~can_close)
    /\ upc = "condemn" => wpc[uidx] # "start"

(* It is out of the way when shutdown joins workers, and when the pool is  *)
(* freed.                                                                  *)
AwayInv ==
    /\ supervisor_joined \/ memory = "freed" => upc \in {"none", "ended"}
    /\ \A c \in Callers : cpc[c] \in Joining \cup {"close"} /\ can_close => upc = "ended"

WatchInv == BegunInv /\ AtInv /\ AwayInv

(* Rings that shutdown has closed stay closed, but for the one that the    *)
(* supervisor is about to close again.                                     *)
Shut(w) == closed[w] \/ (uidx = w /\ upc = "rcheck")

(* Shutdown has closed every ring before it joins a worker: the loop that  *)
(* closes them leaves none out.                                            *)
SupPC == {"supwait", "supjoin", "suphelper"}
ShutAt(c) ==
    /\ cpc[c] \in SupPC => widx = 0
    /\ cpc[c] \in {"close", "mark"} => \A w \in Workers : w < widx => Shut(w)
    /\ cpc[c] = "mark" => Shut(widx)
    /\ cpc[c] \in Joining \cup {"final", "stop"} => \A w \in Workers : Shut(w)
ShutInv == RingsReclosed /\ \A c \in Callers : ShutAt(c)

(* All of it. *)
SupInv ==
    /\ SupTypeOK /\ SharedInv /\ CreateInv /\ WatchInv /\ ShutInv /\ NoForgottenWorker

(***************************************************************************)
(* What the steps of each kind leave alone.                                *)
(***************************************************************************)

(* Create and its rollback touch the owner, the workers and their rings. *)
LEMMA CreateFrame ==
    ASSUME CreateStep
    PROVE  /\ UNCHANGED <<destroy_started, shutdown_waiters, verdict, clients, queue, processed,
                          result, can_close, expired, calls, progress, uidx>>
           /\ cpc[Owner] \in CreatePC
<1> USE DEF flags, life, verdict, rings, queue, workers, locals, env, sup, watch, CreatePC
<1>1. CASE CreateWorker \/ CreateSupervisor \/ Rollback
  BY <1>1 DEF CreateWorker, CreateSupervisor, Rollback
<1>2. CASE RollbackClose \/ RollbackJoin \/ RollbackFree
  BY <1>2 DEF RollbackClose, RollbackJoin, RollbackFree
<1> QED
  BY <1>1, <1>2 DEF CreateStep

(* The supervisor touches the workers, their rings and the verdict. *)
LEMMA SupervisorFrame ==
    ASSUME SupervisorStep
    PROVE  /\ UNCHANGED <<life, clients, queue, processed, callers, env>>
           /\ upc \notin {"none", "ended"}
<1> USE DEF PoolUnchanged, vars, control, flags, clients, rings, workers, queue
<1>1. CASE SupStart \/ SupLoop \/ SupIdle \/ SupStall \/ SupGraceOver \/ SupAfter \/ SupExit \/ SupEnd
  BY <1>1 DEF SupStart, SupLoop, SupIdle, SupStall, SupGraceOver, SupAfter, SupExit, SupEnd
<1>2. CASE SupAsk \/ SupWithdraw \/ SupVerdict \/ SupCondemn \/ SupShut \/ SupMark
  BY <1>2 DEF SupAsk, SupWithdraw, SupVerdict, SupCondemn, SupShut, SupMark
<1>3. CASE RestartStep
  BY <1>3 DEF RestartStep, Restart, RestartJoin, RestartJoinFails, RestartLife, Reopen,
              PostReopenCheck, RestartStart, RestartCreate
<1> QED
  BY <1>1, <1>2, <1>3 DEF SupervisorStep

(* Waiting for the supervisor moves the caller and settles the verdict. *)
LEMMA SupShutdownFrame ==
    ASSUME NEW c \in Callers, SupShutdownStep(c)
    PROVE  /\ UNCHANGED <<life, clients, rings, workers, result, widx, expired, memory, calls, sup>>
           /\ cpc[c] \in {"supwait", "supjoin", "suphelper"}
           /\ \E l \in {"supjoin", "suphelper", "close"} : cpc' = [cpc EXCEPT ![c] = l]
           /\ \/ quarantined' /\ ~can_close'
              \/ /\ UNCHANGED <<verdict, can_close>>
                 /\ \/ cpc'= [cpc EXCEPT ![c] = "close"] /\ supervisor_joined' /\ upc = "ended"
                    \/ /\ UNCHANGED supervisor_joined
                       /\ \E l \in {"supjoin", "suphelper"} : cpc' = [cpc EXCEPT ![c] = l]
           /\ UNCHANGED supervisor_joined \/ (supervisor_joined' /\ upc = "ended")
           /\ shutdown_aborts' # 0 => quarantined' \/ shutdown_aborts # 0
           /\ quarantined => quarantined'
           /\ shutdown_aborts' \in {0, 1} \/ UNCHANGED shutdown_aborts
<1> USE DEF flags, verdict, locals, env, AbandonSupervisor, Abort, GotoC
<1>1. CASE SupWait(c)
  BY <1>1 DEF SupWait
<1>2. CASE SupJoin(c)
  BY <1>2 DEF SupJoin
<1>3. CASE SupJoined(c)
  BY <1>3 DEF SupJoined
<1>4. CASE SupJoinFails(c)
  BY <1>4 DEF SupJoinFails
<1> QED
  BY <1>1, <1>2, <1>3, <1>4 DEF SupShutdownStep

(***************************************************************************)
(* The steps of create, of the supervisor and of the wait for it, and what *)
(* they do to the invariant of the pool.                                   *)
(***************************************************************************)
Outside == CreateStep \/ SupervisorStep \/ \E c \in Callers : SupShutdownStep(c)

(* A thread is started, by create or by restart_worker, only where the     *)
(* last one has ended.                                                     *)
LEMMA StartsEnded ==
    ASSUME SupTypeOK, EndedInv, CreateInv, WatchInv, Outside
    PROVE  \/ wpc' = wpc
           \/ \E w \in Workers : wpc[w] = "ended" /\ wpc' = [wpc EXCEPT ![w] = "start"]
<1>1. CASE CreateStep
  <2>1. CASE CreateWorker
    <3>1. joined[widx] /\ widx \in Workers
      BY <2>1, PoolAssumption DEF CreateWorker, CreateInv, SupTypeOK, TypeOK, Workers
    <3>2. wpc[widx] = "ended"
      BY <3>1 DEF EndedInv
    <3> QED
      BY <2>1, <3>1, <3>2 DEF CreateWorker, Started
  <2>2. CASE ~CreateWorker
    BY <1>1, <2>2 DEF CreateStep, CreateSupervisor, Rollback, RollbackClose, RollbackJoin,
                      RollbackFree, workers
  <2> QED
    BY <2>1, <2>2
<1>2. CASE SupervisorStep
  <2>1. CASE RestartCreate
    BY <2>1 DEF RestartCreate, WatchInv, AtInv, GotoW, SupTypeOK
  <2>2. CASE RestartStep /\ ~RestartCreate
    BY <2>2 DEF RestartStep, Restart, RestartJoin, RestartJoinFails, RestartLife, Reopen,
                PostReopenCheck, RestartStart, PoolUnchanged, vars, workers
  <2>3. CASE ~RestartStep
    BY <1>2, <2>3 DEF SupervisorStep, SupStart, SupLoop, SupIdle, SupStall, SupGraceOver, SupAfter,
       SupExit, SupEnd, SupAsk, SupWithdraw, SupVerdict, SupCondemn, SupShut, SupMark,
       PoolUnchanged, vars, workers
  <2> QED
    BY <2>1, <2>2, <2>3
<1>3. CASE \E c \in Callers : SupShutdownStep(c)
  BY <1>3, SupShutdownFrame DEF workers
<1> QED
  BY <1>1, <1>2, <1>3 DEF Outside

(* Everything that submitters and shutdown's counters are about is left    *)
(* alone.                                                                  *)
LEMMA OutsideFrame ==
    ASSUME Outside
    PROVE  UNCHANGED <<queue, processed, clients, destroy_started, shutdown_waiters, calls,
                       expired, result>>
<1>1. CASE CreateStep
  BY <1>1, CreateFrame
<1>2. CASE SupervisorStep
  BY <1>2, SupervisorFrame DEF life, callers, locals, env
<1>3. CASE \E c \in Callers : SupShutdownStep(c)
  BY <1>3, SupShutdownFrame DEF life, rings, workers
<1> QED
  BY <1>1, <1>2, <1>3 DEF Outside

(* The callers move along create's labels, or one that waits for the       *)
(* supervisor moves on, or none moves.                                     *)
OutsidePhase(c) ==
    \/ cpc[c] \in CreatePC /\ cpc'[c] \in CreatePC \cup {"idle", "gone"}
    \/ /\ cpc[c] \in {"supwait", "supjoin", "suphelper"}
       /\ cpc'[c] \in {"supjoin", "suphelper", "close"}
(* Create, the supervisor and the wait for it move at most one caller. *)
LEMMA OutsideMoves ==
    ASSUME TypeOK, Outside
    PROVE  \/ cpc' = cpc
           \/ \E c \in Callers : /\ OutsidePhase(c)
                                 /\ cpc' = [cpc EXCEPT ![c] = cpc'[c]]
                                 /\ \A d \in Callers \ {c} : cpc'[d] = cpc[d]
<1>1. CASE CreateStep
  <2>1. \E l \in CreatePC \cup {"idle", "gone"} : cpc' = [cpc EXCEPT ![Owner] = l]
    BY <1>1 DEF CreateStep, CreateWorker, CreateSupervisor, Rollback, RollbackClose, RollbackJoin,
                RollbackFree, NextWorker, GotoC, CreatePC
  <2>2. Owner \in Callers /\ cpc[Owner] \in CreatePC
    BY <1>1, CreateFrame, PoolAssumption
  <2>3. PICK l \in CreatePC \cup {"idle", "gone"} : cpc' = [cpc EXCEPT ![Owner] = l]
    BY <2>1
  <2>4. cpc'[Owner] = l /\ \A d \in Callers \ {Owner} : cpc'[d] = cpc[d]
    BY <2>2, <2>3 DEF TypeOK
  <2> QED
    BY <2>2, <2>3, <2>4 DEF OutsidePhase
<1>2. CASE SupervisorStep
  BY <1>2, SupervisorFrame DEF callers
<1>3. CASE \E c \in Callers : SupShutdownStep(c)
  <2>1. PICK c \in Callers : SupShutdownStep(c)
    BY <1>3
  <2>2. PICK l \in {"supjoin", "suphelper", "close"} : cpc' = [cpc EXCEPT ![c] = l]
    BY <2>1, SupShutdownFrame
  <2>3. cpc'[c] = l /\ \A d \in Callers \ {c} : cpc'[d] = cpc[d]
    BY <2>2 DEF TypeOK
  <2> QED
    BY <2>1, <2>2, <2>3, SupShutdownFrame DEF OutsidePhase
<1> QED
  BY <1>1, <1>2, <1>3 DEF Outside

(* In create the owner moves along its labels, and the others wait. *)
LEMMA CreateLabels ==
    ASSUME TypeOK, CreateInv, CreateStep
    PROVE  /\ \A c \in Callers : cpc'[c] \in CreatePC \cup {"idle", "gone"}
           /\ \A c \in Callers \ {Owner} : cpc[c] = "idle" /\ cpc'[c] = "idle"
           /\ Owner \in Callers /\ cpc[Owner] \in CreatePC /\ ~Published /\ upc = "none"
<1>1. Owner \in Callers /\ cpc[Owner] \in CreatePC /\ ~Published /\ upc = "none"
  BY CreateFrame, PoolAssumption DEF CreateInv, Published
<1>2. \A c \in Callers \ {Owner} : cpc[c] = "idle"
  BY <1>1 DEF CreateInv
<1>3. \A c \in Callers \ {Owner} : ~OutsidePhase(c)
  BY <1>2 DEF OutsidePhase, CreatePC
<1>4. /\ \A c \in Callers \ {Owner} : cpc'[c] = "idle"
      /\ cpc'[Owner] \in CreatePC \cup {"idle", "gone"}
  BY <1>1, <1>2, <1>3, OutsideMoves DEF Outside, OutsidePhase, CreatePC
<1> QED
  BY <1>1, <1>2, <1>4

(* So the counters, the rings and the frames are as before. *)
LEMMA OutsideCounts ==
    ASSUME SupTypeOK, Counted, EndedInv, FifoInv, FrameInv, ApiInv, CreateInv, WatchInv, Outside
    PROVE  Counted' /\ FifoInv' /\ FrameInv' /\ ApiInv'
<1>1. UNCHANGED <<active_submits, api_refs, submitted, dropped, abandoned, spc, api, shard, spos,
                  enqueue_pos, dequeue_pos, ready, processed, shutdown_waiters>>
  BY OutsideFrame DEF clients, refs, counters, subs, args, queue
<1>2. Waiting' = Waiting
  <2>1. \A c \in Callers : cpc'[c] = "waiting" <=> cpc[c] = "waiting"
    BY OutsideMoves DEF OutsidePhase, CreatePC, SupTypeOK
  <2> QED
    BY <2>1 DEF Waiting
<1>3. Busy' = Busy
  <2>1. \A w \in Workers : wpc'[w] = "process" <=> wpc[w] = "process"
    BY StartsEnded DEF SupTypeOK, TypeOK
  <2> QED
    BY <2>1 DEF Busy
<1>4. Registered' = Registered /\ Inside' = Inside /\ Counting' = Counting
  BY <1>1 DEF Registered, Inside, Counting
<1>5. Taken' = Taken /\ Accepted' = Accepted /\ Handled' = Handled
  BY <1>1 DEF Taken, Accepted, Handled
<1>6. Counted'
  BY <1>1, <1>2, <1>4 DEF Counted, RefsCounted
<1>7. FifoInv'
  BY <1>1 DEF FifoInv, Pending
<1>8. FrameInv'
  BY <1>1, <1>3, <1>4, <1>5 DEF FrameInv
<1>9. ApiInv'
  BY <1>1 DEF ApiInv
<1> QED
  BY <1>6, <1>7, <1>8, <1>9

(* One thread shuts the pool down or creates it. *)
LEMMA OutsideDriver ==
    ASSUME TypeOK, DriverInv, CreateInv, Outside
    PROVE  DriverInv'
<1>1. CASE UNCHANGED <<cpc, lifecycle>>
  BY <1>1 DEF DriverInv
<1>2. ASSUME NEW c \in Callers, SupShutdownStep(c)
      PROVE  DriverInv'
  <2>1. lifecycle' = lifecycle
    BY <1>2, SupShutdownFrame DEF life
  <2>2. PICK l \in {"supjoin", "suphelper", "close"} : cpc' = [cpc EXCEPT ![c] = l]
    BY <1>2, SupShutdownFrame
  <2>3. cpc'[c] \in Drainer /\ \A d \in Callers \ {c} : cpc'[d] = cpc[d]
    BY <2>2 DEF TypeOK, Drainer
  <2>4. cpc[c] \in Drainer
    BY <1>2, SupShutdownFrame DEF Drainer
  <2>5. cpc'[c] \notin Quiescer /\ cpc'[c] # "epilogue"
    BY <2>2 DEF TypeOK, Quiescer
  <2> QED
    BY <2>1, <2>3, <2>4, <2>5 DEF DriverInv
<1>3. CASE CreateStep
  <2>1. /\ \A d \in Callers \ {Owner} : cpc'[d] = "idle"
        /\ cpc'[Owner] \in CreatePC \cup {"idle", "gone"}
    BY <1>3, CreateLabels
  <2>2. cpc'[Owner] \in Drainer => lifecycle' = "DRAINING"
    <3>1. CASE Rollback
      BY <3>1 DEF Rollback
    <3>2. CASE ~Rollback
      <4>1. lifecycle' = lifecycle
        BY <1>3, <3>2 DEF CreateStep, CreateWorker, CreateSupervisor, RollbackClose, RollbackJoin,
                          RollbackFree, flags, life
      <4>2. cpc'[Owner] \in Drainer => cpc[Owner] \in Drainer
        BY <1>3, <3>2, PoolAssumption DEF CreateStep, CreateWorker, CreateSupervisor,
           RollbackClose, RollbackJoin, RollbackFree, NextWorker, GotoC, Drainer, Joining, TypeOK
      <4> QED
        BY <4>1, <4>2, PoolAssumption DEF DriverInv
    <3> QED
      BY <3>1, <3>2
  <2> QED
    BY <2>1, <2>2 DEF DriverInv, CreatePC, Quiescer, Drainer, Joining
<1> QED
  BY <1>1, <1>2, <1>3, SupervisorFrame DEF Outside, life, callers

(* A worker counts as joined, EXITED or JOINED only when it has ended. *)
LEMMA OutsideEnded ==
    ASSUME SupTypeOK, EndedInv, CreateInv, WatchInv, Outside
    PROVE  EndedInv'
<1> USE DEF EndedInv, SupTypeOK, TypeOK
<1>1. CASE CreateStep
  <2>1. CASE CreateWorker
    <3>1. widx \in Workers
      OBVIOUS
    <3>2. CASE Started(widx)
      BY <3>1, <3>2 DEF Started
    <3>3. CASE UNCHANGED <<state, stop, joined, wpc>>
      BY <3>3
    <3> QED
      BY <2>1, <3>2, <3>3 DEF CreateWorker
  <2>2. CASE RollbackJoin
    BY <2>2 DEF RollbackJoin
  <2>3. CASE ~CreateWorker /\ ~RollbackJoin
    BY <1>1, <2>3 DEF CreateStep, CreateSupervisor, Rollback, RollbackClose, RollbackFree, workers
  <2> QED
    BY <2>1, <2>2, <2>3
<1>2. CASE SupervisorStep
  <2>1. CASE RestartCreate
    <3>1. uidx \in Workers /\ ~joined[uidx] /\ wpc[uidx] = "ended"
          /\ state[uidx] \in {"STARTING", "QUARANTINED"}
      BY <2>1 DEF RestartCreate, WatchInv, AtInv
    <3>2. CASE wpc' = [wpc EXCEPT ![uidx] = "start"] /\ UNCHANGED <<state, joined>>
      BY <3>1, <3>2
    <3>3. CASE /\ UNCHANGED wpc /\ joined' = [joined EXCEPT ![uidx] = TRUE]
               /\ state' = [state EXCEPT ![uidx] = "JOINED"]
      BY <3>1, <3>3
    <3> QED
      BY <2>1, <3>2, <3>3 DEF RestartCreate, GotoW, SetState
  <2>2. CASE RestartStart
    BY <2>2 DEF RestartStart, SetState
  <2>3. CASE RestartJoin
    BY <2>3 DEF RestartJoin, SetState
  <2>4. CASE SupCondemn
    BY <2>4 DEF SupCondemn, SetState
  <2>5. CASE ~(RestartCreate \/ RestartStart \/ RestartJoin \/ SupCondemn)
    <3>1. UNCHANGED <<state, joined, wpc>>
      BY <1>2, <2>5 DEF SupervisorStep, RestartStep, Restart, RestartJoinFails, RestartLife, Reopen,
         PostReopenCheck, SupStart, SupLoop, SupIdle, SupStall, SupGraceOver, SupAfter, SupExit,
         SupEnd, SupAsk, SupWithdraw, SupVerdict, SupShut, SupMark, PoolUnchanged, vars, workers
    <3> QED
      BY <3>1
  <2> QED
    BY <2>1, <2>2, <2>3, <2>4, <2>5
<1>3. CASE \E c \in Callers : SupShutdownStep(c)
  BY <1>3, SupShutdownFrame DEF workers
<1> QED
  BY <1>1, <1>2, <1>3 DEF Outside

(* While the supervisor is on duty, shutdown has not joined it, joins no   *)
(* worker and frees nothing.                                               *)
LEMMA OnDuty ==
    ASSUME JoinInv, WatchInv, upc \notin {"none", "ended"}
    PROVE  /\ ~supervisor_joined /\ memory # "freed"
           /\ \A c \in Callers : /\ cpc[c] \notin Joining
                                 /\ cpc[c] = "close" => ~can_close
  BY DEF JoinInv, JoinAt, WatchInv, AwayInv

(* A worker is condemned only once its thread has begun; and nobody joins  *)
(* workers beside these steps.                                             *)
LEMMA OutsideJoin ==
    ASSUME SupTypeOK, DriverInv, EndedInv, JoinInv, CreateInv, WatchInv, Outside
    PROVE  JoinInv'
<1> USE DEF SupTypeOK, TypeOK
<1>0. expired' = expired
  BY OutsideFrame
<1>1. CASE CreateStep
  <2>1. can_close' = can_close
    BY <1>1, CreateFrame
  <2>2. \A c \in Callers : cpc'[c] \in CreatePC \cup {"idle", "gone"}
    BY <1>1, CreateLabels
  <2>3. \A c \in Callers : JoinAt(c)'
    BY <2>2 DEF JoinAt, Joining, CreatePC
  <2>4. \A w \in Workers : \/ state'[w] = state[w] /\ wpc'[w] = wpc[w]
                           \/ state'[w] = "STARTING"
    <3>1. CASE CreateWorker
      <4>1. widx \in Workers
        OBVIOUS
      <4> QED
        BY <3>1, <4>1 DEF CreateWorker, Started
    <3>2. CASE ~CreateWorker
      BY <1>1, <3>2 DEF CreateStep, CreateSupervisor, Rollback, RollbackClose, RollbackJoin,
                        RollbackFree, workers
    <3> QED
      BY <3>1, <3>2
  <2> QED
    BY <1>0, <2>1, <2>3, <2>4 DEF JoinInv
<1>2. CASE SupervisorStep
  <2>1. UNCHANGED <<cpc, can_close, widx>> /\ upc \notin {"none", "ended"}
    BY <1>2, SupervisorFrame DEF callers, locals
  <2>2. \A c \in Callers : cpc[c] \notin Joining
    BY <2>1, OnDuty
  <2>3. \A c \in Callers : JoinAt(c)'
    BY <2>1, <2>2 DEF JoinAt, Joining, JoinInv
  <2>4. \A w \in Workers :
           \/ state'[w] = state[w] /\ wpc'[w] = wpc[w]
           \/ state'[w] \in {"STARTING", "JOINED"}
           \/ state'[w] = "QUARANTINED" /\ (wpc'[w] # "start" \/ ~can_close)
    <3>1. CASE SupCondemn
      BY <3>1 DEF SupCondemn, SetState, WatchInv, AtInv
    <3>2. CASE RestartJoin \/ RestartStart
      BY ZenonT(30), <3>2 DEF RestartJoin, RestartStart, SetState
    <3>3. CASE RestartCreate
      <4>1. uidx \in Workers /\ (state[uidx] = "STARTING" \/ (state[uidx] = "QUARANTINED" /\ ~can_close))
        BY <3>3 DEF RestartCreate, WatchInv, AtInv
      <4>2. CASE wpc' = [wpc EXCEPT ![uidx] = "start"] /\ UNCHANGED state
        BY <4>1, <4>2
      <4>3. CASE UNCHANGED wpc /\ state' = [state EXCEPT ![uidx] = "JOINED"]
        BY <4>1, <4>3
      <4> QED
        BY <3>3, <4>2, <4>3 DEF RestartCreate, GotoW, SetState
    <3>4. CASE ~(SupCondemn \/ RestartJoin \/ RestartStart \/ RestartCreate)
      <4>1. UNCHANGED <<state, wpc>>
        BY <1>2, <3>4 DEF SupervisorStep, RestartStep, Restart, RestartJoinFails, RestartLife,
           Reopen, PostReopenCheck, SupStart, SupLoop, SupIdle, SupStall, SupGraceOver, SupAfter,
           SupExit, SupEnd, SupAsk, SupWithdraw, SupVerdict, SupShut, SupMark, PoolUnchanged,
           vars, workers
      <4> QED
        BY <4>1
    <3> QED
      BY <3>1, <3>2, <3>3, <3>4
  <2> QED
    BY <1>0, <2>1, <2>3, <2>4 DEF JoinInv
<1>3. ASSUME NEW c \in Callers, SupShutdownStep(c)
      PROVE  JoinInv'
  <2>1. UNCHANGED <<state, wpc>> /\ (~can_close => ~can_close')
    BY <1>3, SupShutdownFrame DEF workers
  <2>2. PICK l \in {"supjoin", "suphelper", "close"} : cpc' = [cpc EXCEPT ![c] = l]
    BY <1>3, SupShutdownFrame
  <2>3. cpc[c] \in Drainer
    BY <1>3, SupShutdownFrame DEF Drainer
  <2>4. \A d \in Callers \ {c} : cpc'[d] \notin Drainer
    BY <2>2, <2>3 DEF DriverInv
  <2>5. \A d \in Callers : JoinAt(d)'
    BY <2>2, <2>4 DEF JoinAt, Drainer, Joining
  <2> QED
    BY <1>0, <2>1, <2>5 DEF JoinInv
<1> QED
  BY <1>1, <1>2, <1>3 DEF Outside

(* Whoever aborts or gives up also quarantines the pool; and a pool that   *)
(* is not quarantined has joined the supervisor before it goes on.         *)
LEMMA OutsideClean ==
    ASSUME SupTypeOK, DriverInv, JoinInv, CleanInv, CreateInv, WatchInv, Outside
    PROVE  CleanInv'
<1> USE DEF SupTypeOK, TypeOK
<1>0. /\ EnableSupervisor
      /\ ~can_close => quarantined
      /\ shutdown_aborts # 0 => quarantined
      /\ ~quarantined => \A c \in Callers : CleanAt(c)
      /\ ~quarantined /\ lifecycle = "STOPPED" => supervisor_joined /\ \A w \in Workers : joined[w]
      /\ \A c \in Callers : result[c] = "clean" =>
            supervisor_joined /\ \A w \in Workers : joined[w]
  BY SupervisorAssumption DEF CleanInv, CleanMeansJoined
<1>r. result' = result
  BY OutsideFrame
<1>1. CASE CreateStep
  <2>1. UNCHANGED <<verdict, can_close>>
    BY <1>1, CreateFrame
  <2>2. \A c \in Callers : result[c] = "none" /\ cpc'[c] \in CreatePC \cup {"idle", "gone"}
    BY <1>1, CreateLabels DEF CreateInv
  <2>3. \A c \in Callers : CleanAt(c)'
    BY <2>2 DEF CleanAt, Joining, CreatePC
  <2>4. lifecycle' # "STOPPED"
    <3>1. lifecycle \in {"RUNNING", "DRAINING"}
      BY <1>1, CreateFrame, PoolAssumption DEF CreateInv
    <3>2. lifecycle' = lifecycle \/ lifecycle' = "DRAINING"
      BY <1>1 DEF CreateStep, CreateWorker, CreateSupervisor, Rollback, RollbackClose,
                  RollbackJoin, RollbackFree, flags, life
    <3> QED
      BY <3>1, <3>2
  <2> QED
    BY <1>0, <1>r, <2>1, <2>2, <2>3, <2>4 DEF CleanInv, CleanMeansJoined, verdict
<1>2. CASE SupervisorStep
  <2>1. UNCHANGED <<cpc, can_close, widx, lifecycle, supervisor_joined>>
        /\ upc \notin {"none", "ended"}
    BY <1>2, SupervisorFrame DEF life, callers, locals, env
  <2>2. ~supervisor_joined
    BY <2>1, OnDuty
  <2>3. /\ quarantined => quarantined'
        /\ shutdown_aborts' # 0 => quarantined' \/ shutdown_aborts # 0
    BY <1>2 DEF SupervisorStep, RestartStep, Restart, RestartJoin, RestartJoinFails, RestartLife,
       Reopen, PostReopenCheck, RestartStart, RestartCreate, SupStart, SupLoop, SupIdle, SupStall,
       SupGraceOver, SupAfter, SupExit, SupEnd, SupAsk, SupWithdraw, SupVerdict, SupCondemn,
       SupShut, SupMark, PoolUnchanged, vars, control, flags, verdict
  <2>4. ~quarantined => /\ lifecycle # "STOPPED"
                        /\ \A c \in Callers : cpc[c] \notin Joining \cup {"close", "final", "stop"}
    BY <1>0, <2>2 DEF CleanAt
  <2>5. ~quarantined => \A c \in Callers : CleanAt(c)'
    BY <2>1, <2>4 DEF CleanAt, Joining
  <2> QED
    BY <1>0, <1>r, <2>1, <2>2, <2>3, <2>4, <2>5 DEF CleanInv, CleanMeansJoined
<1>3. ASSUME NEW c \in Callers, SupShutdownStep(c)
      PROVE  CleanInv'
  <2>1. /\ UNCHANGED <<joined, lifecycle>> /\ cpc[c] \in {"supwait", "supjoin", "suphelper"}
        /\ quarantined => quarantined'
        /\ shutdown_aborts' # 0 => quarantined' \/ shutdown_aborts # 0
        /\ supervisor_joined => supervisor_joined'
    BY <1>3, SupShutdownFrame DEF workers, life
  <2>2. ~can_close' => quarantined'
    BY <1>0, <1>3, SupShutdownFrame DEF verdict
  <2>3. ~quarantined' => \A d \in Callers : CleanAt(d)'
    <3> SUFFICES ASSUME ~quarantined', NEW d \in Callers
                 PROVE  CleanAt(d)'
      OBVIOUS
    <3>1. CASE cpc' = [cpc EXCEPT ![c] = "close"] /\ supervisor_joined'
      <4>1. cpc'[c] = "close" /\ \A e \in Callers \ {c} : cpc'[e] = cpc[e]
        BY <3>1
      <4>2. \A e \in Callers \ {c} : cpc[e] \notin Drainer
        BY <2>1 DEF DriverInv, Drainer
      <4> QED
        BY <3>1, <4>1, <4>2 DEF CleanAt, Joining, Drainer
    <3>2. CASE \E l \in {"supjoin", "suphelper"} : cpc' = [cpc EXCEPT ![c] = l]
      <4>1. cpc'[c] \in {"supjoin", "suphelper"} /\ \A e \in Callers \ {c} : cpc'[e] = cpc[e]
        BY <3>2
      <4>2. \A e \in Callers \ {c} : cpc[e] \notin Drainer
        BY <2>1 DEF DriverInv, Drainer
      <4> QED
        BY ZenonT(30), <4>1, <4>2 DEF CleanAt, Joining, Drainer
    <3> QED
      BY <1>3, <3>1, <3>2, SupShutdownFrame
  <2>4. lifecycle' # "STOPPED"
    BY <2>1 DEF DriverInv, Drainer
  <2> QED
    BY <1>0, <1>r, <2>1, <2>2, <2>3, <2>4 DEF CleanInv, CleanMeansJoined
<1> QED
  BY <1>1, <1>2, <1>3 DEF Outside

(* The only free is that of a rollback that has joined every worker. *)
LEMMA OutsideDestroy ==
    ASSUME SupTypeOK, DriverInv, EndedInv, JoinInv, DestroyInv, CreateInv, WatchInv, Outside
    PROVE  DestroyInv'
<1> USE DEF SupTypeOK, TypeOK
<1>0. UNCHANGED <<destroy_started, spc>>
  BY OutsideFrame DEF clients, subs
<1>1. CASE CreateStep
  <2>1. /\ Owner \in Callers /\ cpc[Owner] \in CreatePC /\ ~Published
        /\ ~destroy_started /\ memory = "live"
    BY <1>1, CreateFrame, PoolAssumption DEF CreateInv, DestroyInv, CreatePC
  <2>2. /\ \A s \in Submitters : spc[s] = "idle"
        /\ \A c \in Callers \ {Owner} : cpc'[c] = "idle"
        /\ cpc'[Owner] \in CreatePC \cup {"idle", "gone"}
    BY <1>1, <2>1, CreateLabels DEF CreateInv
  <2>3. /\ memory' # "live" => cpc'[Owner] = "gone"
        /\ memory' = "freed" => \A w \in Workers : wpc'[w] = "ended"
    <3>1. CASE RollbackFree
      BY <2>1, <3>1 DEF RollbackFree, GotoC, CreateInv, EndedInv, workers
    <3>2. CASE RollbackJoin
      BY <2>1, <3>2 DEF RollbackJoin, GotoC
    <3>3. CASE ~RollbackFree /\ ~RollbackJoin
      BY <1>1, <2>1, <3>3 DEF CreateStep, CreateWorker, CreateSupervisor, Rollback, RollbackClose,
                              env
    <3> QED
      BY <3>1, <3>2, <3>3
  <2> QED
    BY <1>0, <2>1, <2>2, <2>3 DEF DestroyInv, NoUseAfterFree, CreatePC
<1>2. CASE SupervisorStep
  <2>1. UNCHANGED <<cpc, memory>> /\ upc \notin {"none", "ended"}
    BY <1>2, SupervisorFrame DEF callers, env
  <2>2. memory # "freed"
    BY <2>1, OnDuty
  <2> QED
    BY <1>0, <2>1, <2>2 DEF DestroyInv, NoUseAfterFree
<1>3. ASSUME NEW c \in Callers, SupShutdownStep(c)
      PROVE  DestroyInv'
  <2>1. memory' = memory /\ cpc[c] \in {"supwait", "supjoin", "suphelper"}
    BY <1>3, SupShutdownFrame
  <2>2. PICK l \in {"supjoin", "suphelper", "close"} : cpc' = [cpc EXCEPT ![c] = l]
    BY <1>3, SupShutdownFrame
  <2>3. cpc'[c] = l /\ \A d \in Callers \ {c} : cpc'[d] = cpc[d]
    BY <2>2
  <2>4. memory # "freed"
    BY <2>1 DEF DestroyInv, NoUseAfterFree
  <2>5. memory # "live" => c # Owner
    BY <2>1 DEF DestroyInv
  <2>6. destroy_started => c = Owner
    BY <2>1 DEF DestroyInv
  <2> QED
    BY <1>0, <2>1, <2>3, <2>4, <2>5, <2>6, PoolAssumption DEF DestroyInv, NoUseAfterFree
<1> QED
  BY <1>1, <1>2, <1>3 DEF Outside

(* Types: what create, the supervisor and the wait for it write. *)
LEMMA NextWorkerType ==
    ASSUME TypeOK, NEW c \in Callers, NEW a, NEW b, NextWorker(c, a, b)
    PROVE  widx' \in Workers
<1>1. NWorkers \in Nat \ {0} /\ widx \in 0 .. NWorkers - 1
  BY PoolAssumption DEF TypeOK, Workers
<1> QED
  BY <1>1 DEF NextWorker, Workers

(* The supervisor goes round the workers: the one after the last is worker 0. *)
LEMMA NextTurnType ==
    ASSUME SupTypeOK
    PROVE  (uidx + 1) % NWorkers \in Workers
<1>1. NWorkers \in Nat \ {0} /\ uidx \in 0 .. NWorkers - 1
  BY PoolAssumption DEF SupTypeOK, Workers
<1>2. \A m \in Nat : m % NWorkers \in 0 .. NWorkers - 1
  BY <1>1
<1> QED
  BY <1>1, <1>2 DEF Workers

(* The types of what create and the supervisor change. *)
WorkerType ==
    /\ closed \in [Workers -> BOOLEAN]
    /\ state \in [Workers -> {"STARTING", "RUNNING", "EXITED", "JOINED", "QUARANTINED"}]
    /\ stop \in [Workers -> BOOLEAN] /\ joined \in [Workers -> BOOLEAN]
    /\ wpc \in [Workers -> {"start", "loop", "pop", "process", "exit", "ended"}]
VerdictType ==
    /\ lifecycle \in {"RUNNING", "QUIESCING", "DRAINING", "STOPPED"}
    /\ shutdown_aborts \in {0, 1} /\ quarantined \in BOOLEAN
    /\ widx \in Workers /\ can_close \in BOOLEAN
    /\ supervisor_joined \in BOOLEAN /\ memory \in {"live", "freed", "leaked"}
WatchType ==
    /\ supervisor_stop \in BOOLEAN /\ supervisor_phase \in 0 .. 3
    /\ progress \in BOOLEAN
    /\ upc \in {"none", "start", "loop", "idle", "ask", "grace", "after", "verdict", "condemn",
                "shut", "mark", "restart", "rjoin", "rlife", "reopen", "rcheck", "rstart",
                "rcreate", "rfail", "rmark", "exit", "leaving", "ended"}
    /\ uidx \in Workers

(* ... create and its rollback, ... *)
LEMMA CreateTyped ==
    ASSUME SupTypeOK, CreateStep
    PROVE  WorkerType' /\ VerdictType' /\ WatchType'
<1>0. 0 \in Workers /\ Owner \in Callers
  BY PoolAssumption DEF Workers
<1>1. widx' \in Workers
  <2>1. CASE widx' = widx \/ widx' = 0
    BY <1>0, <2>1 DEF SupTypeOK, TypeOK
  <2>2. ASSUME NEW a, NEW b, NextWorker(Owner, a, b)
        PROVE  widx' \in Workers
    BY <1>0, <2>2, NextWorkerType DEF SupTypeOK
  <2>3. CASE CreateWorker
    BY <2>1, <2>2, <2>3 DEF CreateWorker
  <2>4. CASE RollbackJoin
    BY <2>1, <2>2, <2>4 DEF RollbackJoin
  <2>5. CASE CreateSupervisor \/ Rollback \/ RollbackClose \/ RollbackFree
    BY <2>1, <2>5 DEF CreateSupervisor, Rollback, RollbackClose, RollbackFree, locals
  <2> QED
    BY <2>3, <2>4, <2>5 DEF CreateStep
<1>2. WorkerType'
  <2> USE DEF SupTypeOK, TypeOK, WorkerType
  <2>0. CASE UNCHANGED <<closed, workers>>
    BY <2>0 DEF workers
  <2>1. CASE CreateWorker
    <3>1. CASE Started(widx)
      BY <2>1, <3>1 DEF CreateWorker, Started, rings
    <3>2. CASE UNCHANGED <<state, stop, joined, wpc>>
      BY <2>1, <3>2 DEF CreateWorker, rings
    <3> QED
      BY <2>1, <3>1, <3>2 DEF CreateWorker
  <2>2. CASE RollbackClose
    BY <2>2 DEF RollbackClose
  <2>3. CASE RollbackJoin
    <3>1. /\ UNCHANGED <<closed, state, stop, wpc>>
          /\ UNCHANGED joined \/ joined' = [joined EXCEPT ![widx] = TRUE]
      BY <2>3 DEF RollbackJoin, rings
    <3> QED
      BY <3>1
  <2>4. CASE CreateSupervisor \/ Rollback \/ RollbackFree
    BY <2>0, <2>4 DEF CreateSupervisor, Rollback, RollbackFree, rings
  <2> QED
    BY <2>1, <2>2, <2>3, <2>4 DEF CreateStep
<1>3. VerdictType'
  <2>1. UNCHANGED <<verdict, can_close>>
    BY CreateFrame
  <2>2. lifecycle' \in {lifecycle, "DRAINING"}
    BY DEF CreateStep, CreateWorker, CreateSupervisor, Rollback, RollbackClose, RollbackJoin,
           RollbackFree, flags, life
  <2>3. supervisor_joined' \in {supervisor_joined, FALSE}
    BY DEF CreateStep, CreateWorker, CreateSupervisor, Rollback, RollbackClose, RollbackJoin,
           RollbackFree, env
  <2>4. memory' \in {memory, "freed", "leaked"}
    BY DEF CreateStep, CreateWorker, CreateSupervisor, Rollback, RollbackClose, RollbackJoin,
           RollbackFree, env
  <2> QED
    BY <1>1, <2>1, <2>2, <2>3, <2>4 DEF SupTypeOK, TypeOK, VerdictType, verdict
<1>4. WatchType'
  <2>1. UNCHANGED <<progress, uidx>>
    BY CreateFrame
  <2>2. upc' \in {upc, "start"}
    BY DEF CreateStep, CreateWorker, CreateSupervisor, Rollback, RollbackClose, RollbackJoin,
           RollbackFree, sup, GotoU
  <2>3. supervisor_stop' \in {supervisor_stop, TRUE} /\ supervisor_phase' \in {supervisor_phase, 1}
    BY DEF CreateStep, CreateWorker, CreateSupervisor, Rollback, RollbackClose, RollbackJoin,
           RollbackFree, sup, watch
  <2>4. supervisor_stop' \in BOOLEAN
    BY <2>3 DEF SupTypeOK
  <2>5. supervisor_phase' \in 0 .. 3
    BY <2>3 DEF SupTypeOK
  <2> QED
    BY <2>1, <2>2, <2>4, <2>5 DEF SupTypeOK, WatchType
<1> QED
  BY <1>2, <1>3, <1>4

(* ... the supervisor ... *)
LEMMA SupervisorTyped ==
    ASSUME SupTypeOK, SupervisorStep
    PROVE  WorkerType' /\ VerdictType' /\ WatchType'
<1>1. WorkerType'
  <2> USE DEF SupTypeOK, TypeOK, WorkerType
  <2>0. CASE UNCHANGED <<closed, workers>>
    BY <2>0 DEF workers
  <2>1. CASE SupAsk \/ SupWithdraw \/ SupCondemn
    BY <2>1 DEF SupAsk, SupWithdraw, SupCondemn, SetStop, SetState, rings
  <2>2. CASE SupVerdict
    <3>1. /\ UNCHANGED <<rings, state, joined, wpc>>
          /\ UNCHANGED stop \/ SetStop(FALSE)
      BY <2>2 DEF SupVerdict
    <3> QED
      BY <3>1 DEF SetStop, rings
  <2>3. CASE RestartJoin
    BY <2>3 DEF RestartJoin, SetState, rings
  <2>8. CASE RestartStart
    BY <2>8 DEF RestartStart, SetStop, SetState, rings
  <2>4. CASE RestartCreate
    <3>1. CASE GotoW(uidx, "start") /\ UNCHANGED <<state, joined>>
      BY <2>4, <3>1 DEF RestartCreate, GotoW, rings
    <3>2. CASE SetState("JOINED") /\ joined' = [joined EXCEPT ![uidx] = TRUE] /\ UNCHANGED wpc
      BY <2>4, <3>2 DEF RestartCreate, SetState, rings
    <3> QED
      BY <2>4, <3>1, <3>2 DEF RestartCreate
  <2>5. CASE SupShut \/ Reopen
    BY <2>5 DEF SupShut, Reopen, SetClosed, workers
  <2>6. CASE RestartLife \/ PostReopenCheck
    <3>1. UNCHANGED workers /\ (UNCHANGED closed \/ SetClosed(TRUE))
      BY <2>6 DEF RestartLife, PostReopenCheck
    <3> QED
      BY <3>1 DEF SetClosed, workers
  <2>7. CASE SupStart \/ SupLoop \/ SupIdle \/ SupStall \/ SupGraceOver \/ SupAfter \/ SupExit
             \/ SupEnd \/ SupMark \/ Restart \/ RestartJoinFails
    BY <2>0, <2>7 DEF SupStart, SupLoop, SupIdle, SupStall, SupGraceOver, SupAfter, SupExit, SupEnd,
       SupMark, Restart, RestartJoinFails, PoolUnchanged, vars, rings
  <2> QED
    BY <2>1, <2>2, <2>3, <2>4, <2>5, <2>6, <2>7, <2>8 DEF SupervisorStep, RestartStep
<1>2. VerdictType'
  <2>1. UNCHANGED <<lifecycle, widx, can_close, supervisor_joined, memory>>
    BY SupervisorFrame DEF life, callers, locals, env
  <2>2. \/ UNCHANGED verdict
        \/ quarantined' = TRUE /\ (Abort \/ UNCHANGED shutdown_aborts)
    BY DEF SupervisorStep, RestartStep, Restart, RestartJoin, RestartJoinFails, RestartLife, Reopen,
       PostReopenCheck, RestartStart, RestartCreate, SupStart, SupLoop, SupIdle, SupStall,
       SupGraceOver, SupAfter, SupExit, SupEnd, SupAsk, SupWithdraw, SupVerdict, SupCondemn,
       SupShut, SupMark, PoolUnchanged, vars, control, flags
  <2> QED
    BY <2>1, <2>2 DEF SupTypeOK, TypeOK, VerdictType, verdict, Abort
<1>3. WatchType'
  <2>1. \/ NextTurn
        \/ /\ UNCHANGED uidx
           /\ \E l \in {"loop", "idle", "ask", "grace", "after", "verdict", "condemn", "shut", "mark",
                        "restart", "rjoin", "rlife", "reopen", "rcheck", "rstart", "rcreate",
                        "rfail", "rmark", "exit", "leaving", "ended"} : GotoU(l)
    <3>1. CASE RestartStep
      BY <3>1 DEF RestartStep, Restart, RestartJoin, RestartJoinFails, RestartLife, Reopen,
                  PostReopenCheck, RestartStart, RestartCreate
    <3>2. CASE SupStart \/ SupLoop \/ SupIdle \/ SupStall \/ SupAsk \/ SupWithdraw \/ SupGraceOver
      BY <3>2 DEF SupStart, SupLoop, SupIdle, SupStall, SupAsk, SupWithdraw, SupGraceOver
    <3>3. CASE SupAfter \/ SupVerdict \/ SupCondemn \/ SupShut \/ SupMark \/ SupExit \/ SupEnd
      BY <3>3 DEF SupAfter, SupVerdict, SupCondemn, SupShut, SupMark, SupExit, SupEnd
    <3> QED
      BY <3>1, <3>2, <3>3 DEF SupervisorStep
  <2>2. uidx' \in Workers
    BY <2>1, NextTurnType DEF NextTurn, SupTypeOK
  <2>3. supervisor_stop' \in BOOLEAN /\ supervisor_phase' \in 0 .. 3 /\ progress' \in BOOLEAN
    <3> USE DEF SupTypeOK, watch
    <3>1. CASE RestartStep
      BY <3>1 DEF RestartStep, Restart, RestartJoin, RestartJoinFails, RestartLife, Reopen,
                  PostReopenCheck, RestartStart, RestartCreate, PoolUnchanged
    <3>2. CASE SupLoop \/ SupStall \/ SupAsk \/ SupWithdraw \/ SupGraceOver \/ SupCondemn \/ SupShut
               \/ SupEnd
      BY <3>2 DEF SupLoop, SupStall, SupAsk, SupWithdraw, SupGraceOver, SupCondemn, SupShut,
                  SupEnd, PoolUnchanged
    <3>3. CASE SupStart \/ SupIdle \/ SupVerdict \/ SupExit
      <4>1. /\ UNCHANGED supervisor_stop
            /\ supervisor_phase' \in {supervisor_phase, 2, 3}
            /\ progress' \in {progress, FALSE}
        BY <3>3 DEF SupStart, SupIdle, SupVerdict, SupExit
      <4>2. supervisor_phase' \in 0 .. 3
        BY <4>1
      <4>3. progress' \in BOOLEAN
        BY <4>1
      <4> QED
        BY <4>1, <4>2, <4>3
    <3>4. CASE SupAfter
      <4>1. UNCHANGED <<supervisor_stop, supervisor_phase>>
            /\ progress' = (progress /\ upc' = "verdict")
        BY <3>4 DEF SupAfter
      <4> QED
        BY <4>1
    <3>5. CASE SupMark
      <4>1. UNCHANGED <<supervisor_phase, progress>>
            /\ supervisor_stop' = (supervisor_stop \/ upc = "rmark")
        BY <3>5 DEF SupMark
      <4> QED
        BY <4>1
    <3> QED
      BY <3>1, <3>2, <3>3, <3>4, <3>5 DEF SupervisorStep
  <2> QED
    BY <2>1, <2>2, <2>3 DEF WatchType, NextTurn, GotoU
<1> QED
  BY <1>1, <1>2, <1>3

(* ... and the wait for it. *)
LEMMA OutsideType ==
    ASSUME SupTypeOK, Outside
    PROVE  SupTypeOK'
<1>1. UNCHANGED <<queue, processed, clients, destroy_started, shutdown_waiters, calls, expired,
                  result>>
  BY OutsideFrame
<1>2. cpc' \in [Callers -> CallerPC]
  <2>1. CASE cpc' = cpc
    BY <2>1 DEF SupTypeOK, TypeOK
  <2>2. ASSUME NEW c \in Callers, OutsidePhase(c), cpc' = [cpc EXCEPT ![c] = cpc'[c]]
        PROVE  cpc' \in [Callers -> CallerPC]
    <3>1. cpc'[c] \in CallerPC
      BY <2>2 DEF OutsidePhase, CreatePC, CallerPC
    <3>2. PICK l \in CallerPC : cpc' = [cpc EXCEPT ![c] = l]
      BY <2>2, <3>1
    <3> QED
      BY <3>2 DEF SupTypeOK, TypeOK
  <2> QED
    BY <2>1, <2>2, OutsideMoves DEF SupTypeOK
<1>3. WorkerType' /\ VerdictType' /\ WatchType'
  <2>1. ASSUME NEW c \in Callers, SupShutdownStep(c)
        PROVE  WorkerType' /\ VerdictType' /\ WatchType'
    <3>1. UNCHANGED <<lifecycle, closed, workers, widx, memory, sup>>
      BY <2>1, SupShutdownFrame DEF life, rings
    <3>2. /\ quarantined' \in BOOLEAN /\ shutdown_aborts' \in {0, 1}
          /\ can_close' \in BOOLEAN /\ supervisor_joined' \in BOOLEAN
      BY <2>1 DEF SupTypeOK, TypeOK, SupShutdownStep, SupWait, SupJoin, SupJoined, SupJoinFails,
                  AbandonSupervisor, Abort, verdict, flags, locals, env
    <3> QED
      BY <3>1, <3>2 DEF SupTypeOK, TypeOK, WorkerType, VerdictType, WatchType, workers, sup, watch
  <2> QED
    BY <2>1, CreateTyped, SupervisorTyped DEF Outside
<1> QED
  BY <1>1, <1>2, <1>3 DEF SupTypeOK, TypeOK, WorkerType, VerdictType, WatchType, queue, clients,
                          refs, counters, subs, args

(* All of the pool's invariant. *)
LEMMA OutsideShared ==
    ASSUME SupInv, Outside
    PROVE  SupTypeOK' /\ SharedInv'
<1>1. /\ SupTypeOK /\ CreateInv /\ WatchInv
      /\ TypeOK /\ Counted /\ DriverInv /\ EndedInv /\ JoinInv /\ CleanInv /\ DestroyInv
      /\ FifoInv /\ FrameInv /\ ApiInv
  BY DEF SupInv, SharedInv
<1>2. SupTypeOK' /\ Counted' /\ FifoInv' /\ FrameInv' /\ ApiInv'
  BY <1>1, OutsideType, OutsideCounts
<1>3. DriverInv' /\ EndedInv' /\ JoinInv' /\ CleanInv' /\ DestroyInv'
  BY <1>1, OutsideDriver, OutsideEnded, OutsideJoin, OutsideClean, OutsideDestroy
<1> QED
  BY <1>2, <1>3 DEF SharedInv, SupTypeOK

(***************************************************************************)
(* Create.                                                                 *)
(***************************************************************************)

(* In create only the owner runs, until it hands out the handle; it leaves its loops *)
(* over the workers when it has been through all of them.                  *)
LEMMA CreateCreate ==
    ASSUME SupTypeOK, EndedInv, CreateInv, CreateStep
    PROVE  CreateInv'
<1> USE DEF SupTypeOK, TypeOK
<1>0. /\ Owner \in Callers /\ cpc[Owner] \in CreatePC /\ ~Published /\ upc = "none"
      /\ NWorkers \in Nat \ {0} /\ widx \in 0 .. NWorkers - 1 /\ Workers = 0 .. NWorkers - 1
  BY CreateFrame, PoolAssumption DEF CreateInv, Published, Workers
<1>1. /\ \A c \in Callers \ {Owner} : cpc[c] = "idle" /\ cpc'[c] = "idle"
      /\ \A c \in Callers : result'[c] = "none"
      /\ \A s \in Submitters : spc'[s] = "idle"
      /\ lifecycle' \in {"RUNNING", "DRAINING"} /\ ~destroy_started' /\ supervisor_joined
  <2>1. /\ \A c \in Callers \ {Owner} : cpc[c] = "idle"
        /\ \A c \in Callers : result[c] = "none"
        /\ \A s \in Submitters : spc[s] = "idle"
        /\ lifecycle \in {"RUNNING", "DRAINING"} /\ ~destroy_started /\ supervisor_joined
    BY <1>0 DEF CreateInv
  <2>2. UNCHANGED <<result, spc, destroy_started>>
    BY OutsideFrame DEF Outside, clients, subs
  <2>3. lifecycle' \in {lifecycle, "DRAINING"}
    BY DEF CreateStep, CreateWorker, CreateSupervisor, Rollback, RollbackClose, RollbackJoin,
           RollbackFree, flags, life
  <2>4. \A c \in Callers \ {Owner} : cpc'[c] = "idle"
    BY CreateLabels
  <2> QED
    BY <2>1, <2>2, <2>3, <2>4
<1>2. CASE CreateSupervisor /\ cpc' = [cpc EXCEPT ![Owner] = "idle"]
  <2>1. upc' = "start"
    BY <1>0, <1>2 DEF CreateSupervisor, GotoC, GotoU
  <2>2. cpc'[Owner] = "idle"
    BY <1>0, <1>2
  <2> QED
    BY <1>1, <2>1, <2>2 DEF CreateInv, Published, CreatePC, GoneInv
<1>3. ASSUME upc' = "none", supervisor_joined', cpc'[Owner] \in CreatePC \cup {"gone"},
             cpc'[Owner] = "create" => \A w \in Workers :
                IF w < widx' THEN wpc'[w] = "ended" => state'[w] = "EXITED" ELSE joined'[w],
             cpc'[Owner] = "createsup" =>
                \A w \in Workers : wpc'[w] = "ended" => state'[w] = "EXITED",
             cpc'[Owner] \in {"createsup", "rollback"} => widx' = 0,
             cpc'[Owner] \in {"rbclose", "rbjoin"} => \A w \in Workers : w < widx' => joined'[w],
             cpc'[Owner] = "rbfree" => \A w \in Workers : joined'[w]
      PROVE  CreateInv'
  <2>1. \A c \in Callers : cpc'[c] \in CreatePC => c = Owner
    BY <1>1 DEF CreatePC
  <2> QED
    BY <1>1, <1>3, <2>1 DEF CreateInv, Published
<1>4. CASE CreateWorker
  <2>0. UNCHANGED <<upc, supervisor_joined>> /\ cpc[Owner] = "create"
    BY <1>4 DEF CreateWorker, sup, env
  <2>1. CASE GotoC(Owner, "rollback") /\ widx' = 0
    <3>1. cpc'[Owner] = "rollback"
      BY <1>0, <2>1 DEF GotoC
    <3> QED
      BY <1>0, <1>1, <1>3, <2>0, <2>1, <3>1 DEF CreatePC
  <2>2. CASE Started(widx) /\ NextWorker(Owner, "create", "createsup")
    <3>1. \A w \in Workers : w < widx => (wpc[w] = "ended" => state[w] = "EXITED")
      BY <2>0 DEF CreateInv
    <3>2. \A w \in Workers : w > widx => joined[w]
      BY <1>0, <2>0 DEF CreateInv
    <3>3. /\ \A w \in Workers : w <= widx => (wpc'[w] = "ended" => state'[w] = "EXITED")
          /\ \A w \in Workers : w > widx => joined'[w]
      <4>1. \A w \in Workers \ {widx} : /\ wpc'[w] = wpc[w] /\ state'[w] = state[w]
                                        /\ joined'[w] = joined[w]
        BY <1>0, <2>2 DEF Started
      <4>2. wpc'[widx] = "start"
        BY <1>0, <2>2 DEF Started
      <4>4. ASSUME NEW w \in Workers, w <= widx, wpc'[w] = "ended"
            PROVE  state'[w] = "EXITED"
        <5>1. w # widx
          BY <4>2, <4>4
        <5>2. w < widx
          BY <1>0, <4>4, <5>1
        <5> QED
          BY <3>1, <4>1, <4>4, <5>1, <5>2
      <4>5. ASSUME NEW w \in Workers, w > widx
            PROVE  joined'[w]
        <5>1. w # widx
          BY <1>0, <4>5
        <5> QED
          BY <3>2, <4>1, <4>5, <5>1
      <4> QED
        BY <4>4, <4>5
    <3>4. CASE widx + 1 < NWorkers
      <4>1. widx' = widx + 1 /\ cpc'[Owner] = "create"
        BY <1>0, <2>2, <3>4 DEF NextWorker, GotoC
      <4>2. \A w \in Workers :
               IF w < widx' THEN wpc'[w] = "ended" => state'[w] = "EXITED" ELSE joined'[w]
        <5>1. \A w \in Workers : IF w < widx' THEN w <= widx ELSE w > widx
          BY <1>0, <4>1
        <5> QED
          BY <3>3, <5>1
      <4> QED
        BY <1>0, <1>1, <1>3, <2>0, <4>1, <4>2 DEF CreatePC
    <3>5. CASE ~(widx + 1 < NWorkers)
      <4>1. widx' = 0 /\ cpc'[Owner] = "createsup"
        BY <1>0, <2>2, <3>5 DEF NextWorker, GotoC
      <4>2. \A w \in Workers : wpc'[w] = "ended" => state'[w] = "EXITED"
        <5>1. \A w \in Workers : w <= widx
          BY <1>0, <3>5
        <5> QED
          BY <3>3, <5>1
      <4> QED
        BY <1>0, <1>1, <1>3, <2>0, <4>1, <4>2 DEF CreatePC
    <3> QED
      BY <3>4, <3>5
  <2> QED
    BY <1>4, <2>1, <2>2 DEF CreateWorker
<1>5. CASE CreateSupervisor /\ ~(cpc' = [cpc EXCEPT ![Owner] = "idle"])
  <2>1. UNCHANGED <<upc, supervisor_joined, widx>> /\ cpc[Owner] = "createsup"
        /\ GotoC(Owner, "rollback")
    BY <1>5 DEF CreateSupervisor, locals, GotoC
  <2>2. cpc'[Owner] = "rollback" /\ widx = 0
    BY <1>0, <2>1 DEF GotoC, CreateInv
  <2> QED
    BY <1>0, <1>1, <1>3, <2>1, <2>2 DEF CreatePC
<1>6. CASE Rollback
  <2>1. UNCHANGED <<upc, supervisor_joined, widx>> /\ cpc[Owner] = "rollback"
        /\ GotoC(Owner, "rbclose")
    BY <1>6 DEF Rollback, locals, env
  <2>2. cpc'[Owner] = "rbclose" /\ widx = 0
    BY <1>0, <2>1 DEF GotoC, CreateInv
  <2> QED
    BY <1>0, <1>1, <1>3, <2>1, <2>2 DEF CreatePC
<1>7. CASE RollbackClose
  <2>1. UNCHANGED <<upc, supervisor_joined, widx, joined>> /\ cpc[Owner] = "rbclose"
        /\ GotoC(Owner, "rbjoin")
    BY <1>7 DEF RollbackClose, locals, env, sup
  <2>2. cpc'[Owner] = "rbjoin" /\ \A w \in Workers : w < widx => joined[w]
    BY <1>0, <2>1 DEF GotoC, CreateInv
  <2> QED
    BY <1>0, <1>1, <1>3, <2>1, <2>2 DEF CreatePC
<1>8. CASE RollbackJoin
  <2>1. UNCHANGED <<upc, supervisor_joined>> /\ cpc[Owner] = "rbjoin"
    BY <1>8 DEF RollbackJoin, sup
  <2>2. CASE GotoC(Owner, "gone")
    <3>1. cpc'[Owner] = "gone"
      BY <1>0, <2>2 DEF GotoC
    <3> QED
      BY <1>0, <1>1, <1>3, <2>1, <3>1
  <2>3. CASE joined' = [joined EXCEPT ![widx] = TRUE] /\ NextWorker(Owner, "rbclose", "rbfree")
    <3>1. \A w \in Workers : w < widx => joined[w]
      BY <2>1 DEF CreateInv
    <3>2. \A w \in Workers : w <= widx => joined'[w]
      <4>1. \A w \in Workers \ {widx} : joined'[w] = joined[w]
        BY <1>0, <2>3
      <4>2. joined'[widx]
        BY <1>0, <2>3
      <4>3. \A w \in Workers : w <= widx => w = widx \/ w < widx
        BY <1>0
      <4> QED
        BY <3>1, <4>1, <4>2, <4>3
    <3>4. CASE widx + 1 < NWorkers
      <4>1. widx' = widx + 1 /\ cpc'[Owner] = "rbclose"
        BY <1>0, <2>3, <3>4 DEF NextWorker, GotoC
      <4> QED
        BY <1>0, <1>1, <1>3, <2>1, <3>2, <4>1 DEF CreatePC
    <3>5. CASE ~(widx + 1 < NWorkers)
      <4>1. widx' = 0 /\ cpc'[Owner] = "rbfree"
        BY <1>0, <2>3, <3>5 DEF NextWorker, GotoC
      <4> QED
        BY <1>0, <1>1, <1>3, <2>1, <3>2, <3>5, <4>1 DEF CreatePC
    <3> QED
      BY <3>4, <3>5
  <2> QED
    BY <1>8, <2>2, <2>3 DEF RollbackJoin
<1>9. CASE RollbackFree
  <2>1. UNCHANGED <<upc, supervisor_joined>> /\ cpc'[Owner] = "gone"
    BY <1>0, <1>9 DEF RollbackFree, GotoC, sup
  <2> QED
    BY <1>0, <1>1, <1>3, <2>1
<1> QED
  BY <1>2, <1>4, <1>5, <1>6, <1>7, <1>8, <1>9 DEF CreateStep

(* The others run when the handle has been handed out. *)
LEMMA OutsideCreate ==
    ASSUME SupTypeOK, EndedInv, CreateInv, Outside
    PROVE  CreateInv'
<1>1. CASE SupervisorStep
  <2>1. Published /\ UNCHANGED cpc
    BY <1>1, SupervisorFrame DEF Published, callers
  <2>2. upc' # "none"
    BY <1>1 DEF SupervisorStep, RestartStep, Restart, RestartJoin, RestartJoinFails, RestartLife,
       Reopen, PostReopenCheck, RestartStart, RestartCreate, SupStart, SupLoop, SupIdle, SupStall,
       SupGraceOver, SupAfter, SupExit, SupEnd, SupAsk, SupWithdraw, SupVerdict, SupCondemn,
       SupShut, SupMark, GotoU, NextTurn
  <2>3. \A c \in Callers : cpc[c] \notin CreatePC
    BY <2>1 DEF CreateInv
  <2>4. GoneInv'
    BY <1>1, <2>1, OutsideFrame DEF CreateInv, GoneInv
  <2> QED
    BY <2>1, <2>2, <2>3, <2>4, PoolAssumption DEF CreateInv, CreatePC, Published
<1>2. ASSUME NEW c \in Callers, SupShutdownStep(c)
      PROVE  CreateInv'
  <2>1. upc' = upc /\ cpc[c] \in {"supwait", "supjoin", "suphelper"}
    BY <1>2, SupShutdownFrame DEF sup
  <2>2. Published
    BY <2>1 DEF CreateInv, CreatePC
  <2>3. PICK l \in {"supjoin", "suphelper", "close"} : cpc' = [cpc EXCEPT ![c] = l]
    BY <1>2, SupShutdownFrame
  <2>4. cpc'[c] = l /\ \A d \in Callers \ {c} : cpc'[d] = cpc[d]
    BY <2>3 DEF SupTypeOK, TypeOK
  <2>5. \A d \in Callers : cpc'[d] \notin CreatePC
    BY <2>2, <2>4 DEF CreateInv, CreatePC
  <2>6. GoneInv'
    BY <1>2, <2>2, <2>4, OutsideFrame, PoolAssumption DEF Outside, CreateInv, GoneInv
  <2> QED
    BY <2>1, <2>2, <2>5, <2>6, PoolAssumption DEF CreateInv, CreatePC, Published
<1> QED
  BY <1>1, <1>2, CreateCreate DEF Outside

(***************************************************************************)
(* What the supervisor has seen.                                           *)
(***************************************************************************)

(* No thread is started for a worker that is RUNNING. *)
LEMMA OutsideBegun ==
    ASSUME SupTypeOK, EndedInv, CreateInv, WatchInv, Outside
    PROVE  BegunInv'
<1> USE DEF SupTypeOK, TypeOK
<1>0. BegunInv
  BY DEF WatchInv
<1>1. CASE CreateWorker
  <2>1. CASE Started(widx)
    BY <1>0, <2>1 DEF BegunInv, Started
  <2>2. CASE UNCHANGED <<state, stop, joined, wpc>>
    BY <1>0, <2>2 DEF BegunInv
  <2> QED
    BY <1>1, <2>1, <2>2 DEF CreateWorker
<1>2. CASE RestartCreate
  <2>1. uidx \in Workers /\ state[uidx] \in {"STARTING", "QUARANTINED"}
    BY <1>2 DEF RestartCreate, WatchInv, AtInv
  <2>2. CASE wpc' = [wpc EXCEPT ![uidx] = "start"] /\ UNCHANGED state
    BY <1>0, <2>1, <2>2 DEF BegunInv
  <2>3. CASE UNCHANGED wpc /\ state' = [state EXCEPT ![uidx] = "JOINED"]
    BY <1>0, <2>1, <2>3 DEF BegunInv
  <2> QED
    BY <1>2, <2>2, <2>3 DEF RestartCreate, GotoW, SetState
<1>3. CASE SupCondemn \/ RestartJoin \/ RestartStart
  <2>1. wpc' = wpc /\ \E x \in {"QUARANTINED", "JOINED", "STARTING"} : state' = [state EXCEPT ![uidx] = x]
    BY <1>3 DEF SupCondemn, RestartJoin, RestartStart, SetState
  <2> QED
    BY <1>0, <2>1 DEF BegunInv
<1>4. CASE ~CreateWorker /\ ~RestartCreate /\ ~(SupCondemn \/ RestartJoin \/ RestartStart)
  <2>1. UNCHANGED <<state, wpc>>
    <3>1. CASE CreateStep
      BY <1>4, <3>1 DEF CreateStep, CreateSupervisor, Rollback, RollbackClose, RollbackJoin,
                        RollbackFree, workers
    <3>2. CASE SupervisorStep
      BY <1>4, <3>2 DEF SupervisorStep, RestartStep, Restart, RestartJoinFails, RestartLife,
         Reopen, PostReopenCheck, SupStart, SupLoop, SupIdle, SupStall, SupGraceOver, SupAfter,
         SupExit, SupEnd, SupAsk, SupWithdraw, SupVerdict, SupShut, SupMark, PoolUnchanged,
         vars, workers
    <3>3. CASE \E c \in Callers : SupShutdownStep(c)
      BY <3>3, SupShutdownFrame DEF workers
    <3> QED
      BY <3>1, <3>2, <3>3 DEF Outside
  <2> QED
    BY <1>0, <2>1 DEF BegunInv
<1> QED
  BY <1>1, <1>2, <1>3, <1>4

(* The supervisor acts on what it has seen. *)
LEMMA SupervisorAt ==
    ASSUME SupTypeOK, EndedInv, WatchInv, SupervisorStep
    PROVE  AtInv'
<1> USE DEF SupTypeOK, TypeOK
<1>0. AtInv /\ BegunInv
  BY DEF WatchInv
<1>1. ASSUME upc' \notin {"rlife", "reopen", "rcheck", "rstart", "rfail", "rcreate", "condemn"}
      PROVE  AtInv'
  BY <1>1 DEF AtInv
<1>2. CASE SupStart \/ SupLoop \/ SupIdle \/ SupStall \/ SupGraceOver \/ SupAfter \/ SupExit
           \/ SupEnd \/ SupAsk \/ SupWithdraw \/ SupCondemn \/ SupShut \/ SupMark
  <2>1. upc' \in {"loop", "idle", "restart", "exit", "ask", "after", "verdict", "leaving", "ended",
                  "grace", "shut", "mark", "rmark"}
    BY <1>2 DEF SupStart, SupLoop, SupIdle, SupStall, SupGraceOver, SupAfter, SupExit, SupEnd,
                SupAsk, SupWithdraw, SupCondemn, SupShut, SupMark, GotoU, NextTurn
  <2> QED
    BY <1>1, <2>1
<1>3. CASE SupVerdict
  <2>1. CASE state[uidx] = "RUNNING" /\ stop[uidx] /\ ~progress
    <3>1. upc' = "condemn" /\ UNCHANGED <<uidx, wpc>>
      BY <1>3, <2>1 DEF SupVerdict, GotoU
    <3>2. wpc[uidx] # "start"
      BY <1>0, <2>1 DEF BegunInv
    <3> QED
      BY <3>1, <3>2 DEF AtInv
  <2>2. CASE ~(state[uidx] = "RUNNING" /\ stop[uidx] /\ ~progress)
    <3>1. upc' = "loop"
      BY <1>3, <2>2 DEF SupVerdict, NextTurn
    <3> QED
      BY <1>1, <3>1
  <2> QED
    BY <2>1, <2>2
<1>4. CASE Restart \/ RestartJoinFails
  <2>1. upc' \in {"loop", "rjoin"}
    BY <1>4 DEF Restart, RestartJoinFails, NextTurn, GotoU
  <2> QED
    BY <1>1, <2>1
<1>5. CASE RestartJoin
  <2>1. upc' = "rlife" /\ uidx' = uidx /\ joined'[uidx]
    BY <1>5 DEF RestartJoin, GotoU
  <2> QED
    BY <2>1 DEF AtInv
<1>6. CASE RestartLife \/ Reopen \/ PostReopenCheck
  <2>1. upc' = "loop" \/ (upc' \in {"reopen", "rcheck", "rstart"} /\ uidx' = uidx)
    BY <1>6 DEF RestartLife, Reopen, PostReopenCheck, NextTurn, GotoU
  <2>2. joined[uidx] /\ UNCHANGED joined
    BY <1>0, <1>6 DEF RestartLife, Reopen, PostReopenCheck, AtInv, workers
  <2> QED
    BY <1>1, <2>1, <2>2 DEF AtInv
<1>7. CASE RestartStart
  <2>1. joined[uidx] /\ wpc[uidx] = "ended"
    BY <1>0, <1>7 DEF RestartStart, AtInv, EndedInv
  <2>2. upc' = "rcreate" /\ UNCHANGED <<uidx, wpc>> /\ ~joined'[uidx] /\ state'[uidx] = "STARTING"
    BY <1>7 DEF RestartStart, GotoU, SetState
  <2> QED
    BY <2>1, <2>2 DEF AtInv
<1>8. CASE RestartCreate
  <2>1. upc' = "loop" \/ (upc' = "rfail" /\ uidx' = uidx /\ joined'[uidx])
    BY <1>8 DEF RestartCreate, NextTurn, GotoU
  <2> QED
    BY <1>1, <2>1 DEF AtInv
<1> QED
  BY <1>2, <1>3, <1>4, <1>5, <1>6, <1>7, <1>8 DEF SupervisorStep, RestartStep

(* Create, the supervisor and the wait for it keep the watch invariant: what  *)
(* the supervisor read of a worker before it acts is still true when it acts. *)
LEMMA OutsideWatch ==
    ASSUME SupTypeOK, DriverInv, EndedInv, JoinInv, DestroyInv, CreateInv, WatchInv, Outside
    PROVE  WatchInv'
<1> USE DEF SupTypeOK, TypeOK
<1>0. BegunInv'
  BY OutsideBegun
<1>1. CASE CreateStep
  <2>1. /\ upc = "none" /\ memory = "live" /\ supervisor_joined
    <3>1. upc = "none" /\ cpc[Owner] \in CreatePC /\ ~Published
      BY <1>1, CreateLabels
    <3> QED
      BY <3>1 DEF CreateInv, DestroyInv, CreatePC
  <2>2. \A c \in Callers : cpc'[c] \in CreatePC \cup {"idle", "gone"}
    BY <1>1, CreateLabels
  <2>3. upc' = "none" \/ (upc' = "start" /\ ~supervisor_joined' /\ memory' = memory)
    BY <1>1, <2>1 DEF CreateStep, CreateWorker, CreateSupervisor, Rollback, RollbackClose,
                      RollbackJoin, RollbackFree, sup, GotoU
  <2>4. AtInv' /\ AwayInv'
    BY <2>1, <2>2, <2>3 DEF AtInv, AwayInv, CreatePC, Joining
  <2> QED
    BY <1>0, <2>4 DEF WatchInv
<1>2. CASE SupervisorStep
  <2>1. UNCHANGED <<supervisor_joined, memory, cpc, can_close>> /\ upc \notin {"none", "ended"}
    BY <1>2, SupervisorFrame DEF env, callers, locals
  <2>2. AwayInv'
    BY <2>1, OnDuty DEF AwayInv
  <2> QED
    BY SMTT(30), <1>0, <1>2, <2>2, SupervisorAt DEF WatchInv
<1>3. ASSUME NEW c \in Callers, SupShutdownStep(c)
      PROVE  WatchInv'
  <2>1. UNCHANGED <<joined, wpc, state, upc, uidx, memory>> /\ (~can_close => ~can_close')
    BY <1>3, SupShutdownFrame DEF workers, sup
  <2>2. AtInv'
    BY <2>1 DEF WatchInv, AtInv
  <2>3. \A d \in Callers \ {c} : cpc'[d] = cpc[d]
    <3>1. \E l : cpc' = [cpc EXCEPT ![c] = l]
      BY ZenonT(30), <1>3, SupShutdownFrame
    <3> QED
      BY <3>1 DEF SupTypeOK, TypeOK
  <2>4. /\ supervisor_joined' => supervisor_joined \/ upc = "ended"
        /\ cpc'[c] \in Joining \cup {"close"} /\ can_close' => upc = "ended"
    <3>1. CASE ~can_close'
      BY <1>3, <3>1, SupShutdownFrame
    <3>2. CASE cpc' = [cpc EXCEPT ![c] = "close"] /\ supervisor_joined' /\ upc = "ended"
      BY <3>2
    <3>3. CASE \E l \in {"supjoin", "suphelper"} : cpc' = [cpc EXCEPT ![c] = l]
      <4>1. cpc'[c] \in {"supjoin", "suphelper"}
        BY <3>3
      <4> QED
        BY <1>3, <4>1, SupShutdownFrame DEF Joining
    <3> QED
      BY <1>3, <3>1, <3>2, <3>3, SupShutdownFrame
  <2>5. AwayInv'
    BY <2>1, <2>3, <2>4 DEF WatchInv, AwayInv
  <2> QED
    BY <1>0, <2>2, <2>5 DEF WatchInv
<1> QED
  BY <1>1, <1>2, <1>3 DEF Outside

(***************************************************************************)
(* The rings.                                                              *)
(***************************************************************************)

(* Once the lifecycle has left RUNNING the supervisor opens a ring only to *)
(* close it at its next step.                                              *)
LEMMA SupervisorShut ==
    ASSUME SupTypeOK, SupervisorStep, lifecycle # "RUNNING", NEW w \in Workers, Shut(w)
    PROVE  Shut(w)'
<1> USE DEF SupTypeOK, TypeOK, Shut
<1>1. CASE PostReopenCheck
  <2>1. closed' = [closed EXCEPT ![uidx] = TRUE]
    BY <1>1 DEF PostReopenCheck, life_is_running, SetClosed
  <2> QED
    BY <1>1, <2>1 DEF PostReopenCheck
<1>2. CASE Reopen
  <2>1. closed' = [closed EXCEPT ![uidx] = FALSE] /\ upc' = "rcheck" /\ uidx' = uidx /\ upc # "rcheck"
    BY <1>2 DEF Reopen, SetClosed, GotoU
  <2> QED
    BY <2>1
<1>3. CASE ~PostReopenCheck /\ ~Reopen
  <2>1. upc # "rcheck"
    BY <1>3 DEF SupervisorStep, RestartStep, Restart, RestartJoin, RestartJoinFails, RestartLife,
       RestartStart, RestartCreate, SupStart, SupLoop, SupIdle, SupStall,
       SupGraceOver, SupAfter, SupExit, SupEnd, SupAsk, SupWithdraw, SupVerdict, SupCondemn,
       SupShut, SupMark
  <2>2. UNCHANGED closed \/ closed' = [closed EXCEPT ![uidx] = TRUE]
    <3>1. CASE RestartStep
      BY <1>3, <3>1 DEF RestartStep, Restart, RestartJoin, RestartJoinFails, RestartLife,
         RestartStart, RestartCreate, PoolUnchanged, vars, rings, SetClosed
    <3>2. CASE ~RestartStep
      BY <3>2 DEF SupervisorStep, SupStart, SupLoop, SupIdle, SupStall,
         SupGraceOver, SupAfter, SupExit, SupEnd, SupAsk, SupWithdraw, SupVerdict, SupCondemn,
         SupShut, SupMark, PoolUnchanged, vars, rings, SetClosed
    <3> QED
      BY <3>1, <3>2
  <2> QED
    BY <2>1, <2>2
<1> QED
  BY <1>1, <1>2, <1>3

(* They keep the rings of a stopped pool closed: a restart that reopens one *)
(* after shutdown has begun closes it again.                                *)
LEMMA OutsideShut ==
    ASSUME SupTypeOK, DriverInv, CreateInv, ShutInv, Outside
    PROVE  ShutInv'
<1> USE DEF SupTypeOK, TypeOK
<1>1. CASE CreateStep
  <2>1. \A c \in Callers : cpc'[c] \in CreatePC \cup {"idle", "gone"}
    BY <1>1, CreateLabels
  <2>2. lifecycle' # "STOPPED"
    <3>1. lifecycle \in {"RUNNING", "DRAINING"}
      BY <1>1, CreateFrame, PoolAssumption DEF CreateInv
    <3>2. lifecycle' \in {lifecycle, "DRAINING"}
      BY <1>1 DEF CreateStep, CreateWorker, CreateSupervisor, Rollback, RollbackClose,
                  RollbackJoin, RollbackFree, flags, life
    <3> QED
      BY <3>1, <3>2
  <2> QED
    BY <2>1, <2>2 DEF ShutInv, ShutAt, RingsReclosed, CreatePC, Joining, SupPC
<1>2. CASE SupervisorStep
  <2>1. UNCHANGED <<cpc, widx, lifecycle>>
    BY <1>2, SupervisorFrame DEF callers, locals, life
  <2>2. CASE lifecycle = "RUNNING"
    <3>1. \A c \in Callers : cpc[c] \notin Drainer
      BY <2>2 DEF DriverInv
    <3> QED
      BY <2>1, <2>2, <3>1 DEF ShutInv, ShutAt, RingsReclosed, Drainer, Joining, SupPC
  <2>3. CASE lifecycle # "RUNNING"
    <3>1. \A w \in Workers : Shut(w) => Shut(w)'
      BY <1>2, <2>3, SupervisorShut
    <3>2. lifecycle = "STOPPED" => \A w \in Workers : Shut(w)
      BY DEF ShutInv, RingsReclosed, Shut
    <3>3. lifecycle' = "STOPPED" => \A w \in Workers : Shut(w)'
      BY <2>1, <3>1, <3>2
    <3>4. RingsReclosed'
      BY <3>3 DEF RingsReclosed, Shut
    <3> QED
      BY <2>1, <3>1, <3>4 DEF ShutInv, ShutAt
  <2> QED
    BY <2>2, <2>3
<1>3. ASSUME NEW c \in Callers, SupShutdownStep(c)
      PROVE  ShutInv'
  <2>1. /\ UNCHANGED <<lifecycle, closed, widx, uidx, upc>>
        /\ cpc[c] \in {"supwait", "supjoin", "suphelper"}
    BY <1>3, SupShutdownFrame DEF life, rings, sup
  <2>2. PICK l \in {"supjoin", "suphelper", "close"} : cpc' = [cpc EXCEPT ![c] = l]
    BY <1>3, SupShutdownFrame
  <2>3. cpc'[c] = l /\ \A d \in Callers \ {c} : cpc'[d] = cpc[d]
    BY <2>2
  <2>4. widx = 0 /\ \A w \in Workers : ~(w < 0)
    BY <2>1 DEF ShutInv, ShutAt, SupPC, Workers
  <2>5. RingsReclosed'
    BY <2>1 DEF ShutInv, RingsReclosed
  <2> QED
    BY SMTT(30), <2>1, <2>3, <2>4, <2>5 DEF ShutInv, ShutAt, Shut, Joining, SupPC
<1> QED
  BY <1>1, <1>2, <1>3 DEF Outside

(***************************************************************************)
(* No worker is forgotten.                                                 *)
(***************************************************************************)
Dealing == {"shut", "rlife", "reopen", "rcheck", "rstart", "rcreate", "rfail"}
Known(w) == closed[w] \/ state[w] = "EXITED" \/ (uidx = w /\ upc \in Dealing)

(* A worker that has ended stays known to the supervisor, until there is a *)
(* new one.                                                                *)
LEMMA SupervisorKnows ==
    ASSUME SupTypeOK, SupervisorStep, life_is_running, NEW w \in Workers, Known(w),
           wpc'[w] = "ended"
    PROVE  Known(w)'
<1> USE DEF SupTypeOK, TypeOK, Known, Dealing
<1>1. CASE RestartCreate
  <2>1. uidx \in Workers /\ UNCHANGED closed /\ upc \in Dealing
    BY <1>1 DEF RestartCreate, rings
  <2>2. CASE wpc' = [wpc EXCEPT ![uidx] = "start"] /\ UNCHANGED state
    BY <2>1, <2>2
  <2>3. CASE upc' = "rfail" /\ uidx' = uidx /\ state' = [state EXCEPT ![uidx] = "JOINED"]
    BY <2>1, <2>3
  <2> QED
    BY <1>1, <2>2, <2>3 DEF RestartCreate, GotoW, GotoU, SetState
<1>2. CASE SupCondemn \/ RestartJoin \/ RestartStart
  <2>1. /\ uidx' = uidx /\ upc' \in Dealing /\ UNCHANGED closed
        /\ \E x \in {"QUARANTINED", "JOINED", "STARTING"} : state' = [state EXCEPT ![uidx] = x]
    BY <1>2 DEF SupCondemn, RestartJoin, RestartStart, SetState, GotoU, rings
  <2> QED
    BY <2>1
<1>3. CASE SupShut
  <2>1. state' = state /\ closed' = [closed EXCEPT ![uidx] = TRUE]
    BY <1>3 DEF SupShut, workers, SetClosed
  <2> QED
    BY <2>1
<1>4. CASE RestartLife \/ PostReopenCheck
  <2>1. UNCHANGED <<uidx, state, closed>> /\ upc' \in Dealing
    BY <1>4 DEF RestartLife, PostReopenCheck, GotoU, workers
  <2> QED
    BY <2>1
<1>5. CASE Reopen
  <2>1. /\ UNCHANGED <<uidx, state>> /\ upc' \in Dealing
        /\ closed' = [closed EXCEPT ![uidx] = FALSE]
    BY <1>5 DEF Reopen, GotoU, workers, SetClosed
  <2> QED
    BY <2>1
<1>6. CASE ~(RestartCreate \/ SupCondemn \/ RestartJoin \/ RestartStart \/ SupShut \/ RestartLife
             \/ PostReopenCheck \/ Reopen)
  <2>1. UNCHANGED <<state, closed>> /\ upc \notin Dealing
    <3>1. CASE RestartStep
      BY <1>6, <3>1 DEF RestartStep, Restart, RestartJoinFails, PoolUnchanged, vars, rings, workers
    <3>2. CASE SupStart \/ SupLoop \/ SupIdle \/ SupStall \/ SupGraceOver \/ SupAfter \/ SupExit \/ SupEnd
      BY <3>2 DEF SupStart, SupLoop, SupIdle, SupStall, SupGraceOver, SupAfter, SupExit, SupEnd,
                  PoolUnchanged, vars, rings, workers
    <3>3. CASE SupAsk \/ SupWithdraw \/ SupVerdict \/ SupMark
      BY <3>3 DEF SupAsk, SupWithdraw, SupVerdict, SupMark, rings, workers
    <3> QED
      BY <1>6, <3>1, <3>2, <3>3 DEF SupervisorStep
  <2> QED
    BY <2>1
<1> QED
  BY <1>1, <1>2, <1>3, <1>4, <1>5, <1>6

(* They forget no worker that has ended. *)
LEMMA OutsideKnown ==
    ASSUME SupTypeOK, EndedInv, DriverInv, CreateInv, WatchInv, NoForgottenWorker, Outside
    PROVE  NoForgottenWorker'
<1> USE DEF SupTypeOK, TypeOK
<1>s. SUFFICES ASSUME Published', life_is_running', NEW w \in Workers, wpc'[w] = "ended"
               PROVE  Known(w)'
  BY DEF NoForgottenWorker, Known, Dealing
<1>1. CASE CreateStep
  <2>1. CreateSupervisor
    BY <1>1, <1>s, CreateLabels DEF CreateStep, CreateWorker, Rollback, RollbackClose,
       RollbackJoin, RollbackFree, sup, Published
  <2> QED
    BY <1>s, <2>1 DEF CreateSupervisor, CreateInv, Known, workers
<1>2. CASE SupervisorStep
  <2>1. Published /\ UNCHANGED lifecycle
    BY <1>2, SupervisorFrame DEF Published, life
  <2>2. supervisor_stop => supervisor_stop'
    BY <1>2 DEF SupervisorStep, RestartStep, Restart, RestartJoin, RestartJoinFails, RestartLife,
       Reopen, PostReopenCheck, RestartStart, RestartCreate, SupStart, SupLoop, SupIdle, SupStall,
       SupGraceOver, SupAfter, SupExit, SupEnd, SupAsk, SupWithdraw, SupVerdict, SupCondemn,
       SupShut, SupMark, PoolUnchanged, watch
  <2>3. wpc[w] = "ended"
    BY <1>2, <1>s, StartsEnded DEF Outside
  <2>4. Known(w) /\ life_is_running
    BY <1>s, <2>1, <2>2, <2>3 DEF NoForgottenWorker, Known, Dealing, life_is_running
  <2> QED
    BY <1>2, <1>s, <2>4, SupervisorKnows
<1>3. ASSUME NEW c \in Callers, SupShutdownStep(c)
      PROVE  Known(w)'
  <2>1. lifecycle' = lifecycle /\ cpc[c] \in Drainer
    BY <1>3, SupShutdownFrame DEF life, Drainer
  <2> QED
    BY <1>s, <2>1 DEF DriverInv, life_is_running
<1> QED
  BY <1>1, <1>2, <1>3 DEF Outside

(***************************************************************************)
(* The steps of the pool's own threads, beside the supervisor.             *)
(***************************************************************************)
Lifted == Lift((Published /\ ClientCall) \/ Running)

(* A step of the pool leaves the supervisor where it is. *)
LEMMA LiftFrame ==
    ASSUME Lifted
    PROVE  /\ UNCHANGED <<upc, uidx, supervisor_phase>> /\ Next
           /\ (Published /\ ClientCall) \/ Running
           /\ supervisor_stop => supervisor_stop'
  BY DEF Lifted, Lift, Next

(* Shutdown leaves the labels of create and of the wait for the supervisor *)
(* to those; with a supervisor it closes rings only after that wait.       *)
LEMMA ShutdownLabels ==
    ASSUME TypeOK, NEW c \in Callers, ShutdownCall(c) \/ ShutdownStep(c)
    PROVE  /\ cpc[c] \notin CreatePC \cup SupPC \cup {"gone"}
           /\ cpc'[c] \notin CreatePC \cup {"gone"}
           /\ cpc'[c] \in SupPC => widx' = 0
           /\ cpc'[c] \in Joining \cup {"close"} => cpc[c] \in Joining \cup {"close", "mark"}
           /\ ~can_close => ~can_close'
<1> USE SupervisorAssumption DEF TypeOK, CreatePC, SupPC, Joining, GotoC, locals
<1>1. CASE ShutdownCall(c) \/ ShutdownLoad(c)
  BY <1>1 DEF ShutdownCall, ShutdownLoad, AfterShutdown
<1>2. CASE WaitEnter(c) \/ WaitStopped(c) \/ ShutdownReturn(c)
  BY <1>2 DEF WaitEnter, WaitStopped, ShutdownReturn, AfterShutdown
<1>3. CASE ShutdownCas(c) \/ Quiesced(c) \/ QuiesceResult(c) \/ Drain(c)
  BY <1>3 DEF ShutdownCas, Quiesced, QuiesceResult, Drain
<1>4. CASE CloseRing(c) \/ MarkWorker(c)
  BY <1>4 DEF CloseRing, MarkWorker, NextWorker
<1>5. CASE JoinWorker(c) \/ JoinExited(c) \/ JoinFailed(c)
  BY <1>5 DEF JoinWorker, JoinExited, JoinFailed, Quarantine
<1>6. CASE JoinDone(c) \/ JoinTimeout(c) \/ JoinLate(c) \/ WriteOff(c)
  BY <1>6 DEF JoinDone, JoinTimeout, JoinLate, WriteOff, Quarantine
<1>7. CASE Residual(c) \/ ResidualPop(c)
  <2>1. /\ cpc[c] \in {"residual", "rpop"} /\ can_close' = can_close
        /\ GotoC(c, "rpop") \/ GotoC(c, "residual") \/ NextWorker(c, "worker", "final")
    BY <1>7 DEF Residual, ResidualPop
  <2>2. \E l \in {"rpop", "residual", "worker", "final"} : cpc' = [cpc EXCEPT ![c] = l]
    BY <2>1 DEF NextWorker
  <2> QED
    BY <2>1, <2>2
<1>8. CASE Final(c) \/ SetStopped(c)
  <2>1. /\ cpc[c] \in {"final", "stop"} /\ can_close' = can_close
        /\ \E l \in {"stop", "epilogue"} : cpc' = [cpc EXCEPT ![c] = l]
    BY <1>8 DEF Final, SetStopped
  <2> QED
    BY <2>1
<1> QED
  BY <1>1, <1>2, <1>3, <1>4, <1>5, <1>6, <1>7, <1>8 DEF ShutdownStep

(* What a step of the pool does to worker w's thread, state and join. *)
Threads(w) ==
    /\ wpc[w] = "ended" => wpc'[w] = "ended"
    /\ wpc'[w] = "start" => wpc[w] = "start"
    /\ wpc'[w] = "ended" => wpc[w] = "ended" \/ state'[w] = "EXITED"
    /\ \/ state'[w] = state[w]
       \/ wpc[w] # "ended" /\ (state'[w] = "RUNNING" => wpc'[w] # "start")
       \/ state'[w] = "QUARANTINED" /\ \E c \in Callers : cpc[c] \in Joining \cup {"mark"}
       \/ state'[w] = "JOINED" /\ \E c \in Callers : cpc[c] \in Joining
    /\ joined'[w] = joined[w] \/ \E c \in Callers : cpc[c] \in Joining

(* Every step of the pool changes a worker in one of these ways. *)
LEMMA ThreadsStep ==
    ASSUME TypeOK, [Next]_vars, NEW w \in Workers
    PROVE  Threads(w)
<1> USE DEF TypeOK, Threads
<1>1. ASSUME NEW c \in Callers, ShutdownCall(c) \/ ShutdownStep(c)
      PROVE  Threads(w)
  <2>0. wpc' = wpc
    BY <1>1, ShutdownFrame
  <2>1. CASE MarkWorker(c) \/ JoinExited(c) \/ JoinTimeout(c) \/ WriteOff(c)
    <3>1. /\ cpc[c] \in Joining \cup {"mark"} /\ joined' = joined
          /\ UNCHANGED state \/ state' = [state EXCEPT ![widx] = "QUARANTINED"]
      BY <2>1 DEF MarkWorker, JoinExited, JoinTimeout, WriteOff, Quarantine, Joining
    <3> QED
      BY <2>0, <3>1
  <2>2. CASE JoinWorker(c)
    <3>1. /\ cpc[c] \in Joining /\ joined' = joined
          /\ UNCHANGED state \/ state' = [state EXCEPT ![widx] = "QUARANTINED"]
      BY <2>2 DEF JoinWorker, Quarantine, Joining
    <3> QED
      BY <2>0, <3>1
  <2>3. CASE JoinDone(c)
    <3>1. cpc[c] \in Joining /\ state' = [state EXCEPT ![widx] = "JOINED"]
      BY <2>3 DEF JoinDone, Joining
    <3> QED
      BY <2>0, <3>1
  <2>4. CASE ~(MarkWorker(c) \/ JoinExited(c) \/ JoinTimeout(c) \/ WriteOff(c) \/ JoinWorker(c)
               \/ JoinDone(c))
    <3>1. UNCHANGED <<state, joined>>
      BY <1>1, <2>4 DEF ShutdownStep, ShutdownCall, ShutdownLoad, WaitEnter, WaitStopped,
         ShutdownCas, Quiesced, QuiesceResult, Drain, CloseRing, JoinFailed, JoinLate, Residual,
         ResidualPop, Final, SetStopped, ShutdownReturn, workers
    <3> QED
      BY <2>0, <3>1
  <2> QED
    BY <2>1, <2>2, <2>3, <2>4
<1>2. ASSUME NEW v \in Workers, Working(v)
      PROVE  Threads(w)
  <2>0. joined' = joined
    BY <1>2, WorkFrame
  <2>1. CASE WorkerStart(v)
    BY <2>0, <2>1 DEF WorkerStart, GotoW
  <2>2. CASE WorkerExit(v)
    BY <2>0, <2>2 DEF WorkerExit, GotoW
  <2>3. CASE WorkerLoop(v) \/ WorkerPop(v) \/ WorkerDrained(v) \/ WorkerProcessed(v)
    <3>1. /\ UNCHANGED state /\ wpc[v] \in {"loop", "pop", "process"}
          /\ \E l \in {"loop", "pop", "process", "exit"} : wpc' = [wpc EXCEPT ![v] = l]
      BY <2>3 DEF WorkerLoop, WorkerPop, WorkerDrained, WorkerProcessed, GotoW
    <3> QED
      BY <2>0, <3>1
  <2> QED
    BY <1>2, <2>1, <2>2, <2>3 DEF Working, WorkerStep
<1>3. ASSUME \/ UNCHANGED vars \/ Expire \/ DestroyCall \/ DestroyStep
             \/ \E v \in Workers : CallbackDestroy(v)
             \/ \E s \in Submitters : Submitting(s)
      PROVE  Threads(w)
  <2>1. UNCHANGED <<state, wpc, joined>>
    BY <1>3, CallbackFrame, ExpireFrame, SubmitFrame, DestroyFrame DEF vars, workers
  <2> QED
    BY <2>1
<1> QED
  BY <1>1, <1>2, <1>3, Kinds

(* Before the handle is handed out only the workers run. *)
LEMMA Unpublished ==
    ASSUME TypeOK, CreateInv, Running, ~Published
    PROVE  Expire \/ \E w \in Workers : Working(w) \/ CallbackDestroy(w)
<1>1. \A s \in Submitters : ~(SubmitStep(s) \/ Commit(s))
  <2> SUFFICES ASSUME NEW s \in Submitters, spc[s] = "idle"
               PROVE  ~(SubmitStep(s) \/ Commit(s))
    BY DEF CreateInv
  <2> QED
    BY DEF SubmitStep, SubmitRegister, SubmitCheck, SubmitClosed, SubmitReserve, SubmitUnpark,
           Publish, Count, Unregister, Leave, ClaimAdmit, ClaimClosed, Claim, ClaimRegister,
           KeyedRetry, Commit
<1>2. \A c \in Callers : cpc[c] \in CreatePC \cup {"idle", "gone"}
  BY DEF CreateInv
<1>3. \A c \in Callers : ~ShutdownStep(c)
  <2> SUFFICES ASSUME NEW c \in Callers, ShutdownStep(c)
               PROVE  FALSE
    OBVIOUS
  <2>1. cpc[c] = "idle"
    BY <1>2, ShutdownLabels
  <2> QED
    BY <2>1 DEF ShutdownStep, ShutdownLoad, WaitEnter, WaitStopped, ShutdownCas, Quiesced,
       QuiesceResult, Drain, CloseRing, MarkWorker, JoinWorker, JoinExited, JoinFailed, JoinDone,
       JoinTimeout, JoinLate, WriteOff, Residual, ResidualPop, Final, SetStopped, ShutdownReturn
<1>4. ~DestroyStep
  <2>1. cpc[Owner] \notin {"dwait", "drefs", "dcheck"}
    BY <1>2, PoolAssumption DEF CreatePC
  <2> QED
    BY <2>1 DEF DestroyStep, DestroyWait, DestroyRefs, DestroyTimeout, Destroy
<1> QED
  BY <1>1, <1>3, <1>4 DEF Running, Working

(* Where the callers are before the handle is handed out, and that they    *)
(* stay out of create afterwards.                                          *)
LEMMA LiftCreate ==
    ASSUME SupTypeOK, EndedInv, DestroyInv, CreateInv, Lifted
    PROVE  CreateInv'
<1> USE DEF SupTypeOK
<1>0. upc' = upc /\ [Next]_vars /\ ((Published /\ ClientCall) \/ Running)
  BY LiftFrame
<1>1. CASE Published
  <2>1. \A c \in Callers : cpc[c] \notin CreatePC
    BY <1>1 DEF CreateInv
  <2>2. \A c \in Callers : cpc'[c] \notin CreatePC
    <3>1. ASSUME NEW c \in Callers, ShutdownCall(c) \/ ShutdownStep(c)
          PROVE  \A d \in Callers : cpc'[d] \notin CreatePC
      <4>1. cpc'[c] \notin CreatePC
        BY <3>1, ShutdownLabels
      <4>2. \A d \in Callers \ {c} : cpc'[d] = cpc[d]
        BY <3>1, ShutdownMoves DEF TypeOK
      <4> QED
        BY <2>1, <4>1, <4>2
    <3>2. ASSUME DestroyCall \/ DestroyStep
          PROVE  \A d \in Callers : cpc'[d] \notin CreatePC
      BY SMTT(30), <2>1, <3>2, DestroyMoves DEF TypeOK, CreatePC
    <3>3. ASSUME \/ UNCHANGED vars \/ Expire
                 \/ \E w \in Workers : Working(w) \/ CallbackDestroy(w)
                 \/ \E s \in Submitters : Submitting(s)
          PROVE  cpc' = cpc
      BY <3>3, WorkFrame, CallbackFrame, ExpireFrame, SubmitFrame DEF vars, control, callers
    <3> QED
      BY <1>0, <2>1, <3>1, <3>2, <3>3, Kinds
  <2>3. GoneInv'
    BY <1>0, <1>1, GoneStep DEF CreateInv
  <2> QED
    BY <1>0, <1>1, <2>2, <2>3, PoolAssumption DEF CreateInv, CreatePC, Published
<1>2. CASE ~Published
  <2>1. Expire \/ \E w \in Workers : Working(w) \/ CallbackDestroy(w)
    BY <1>0, <1>2, Unpublished
  <2>2. UNCHANGED <<callers, life, clients, joined, supervisor_joined>>
    BY <2>1, WorkFrame, CallbackFrame, ExpireFrame
       DEF control, callers, flags, workers, env
  <2>3. \A w \in Workers : (wpc[w] = "ended" => state[w] = "EXITED") =>
                              (wpc'[w] = "ended" => state'[w] = "EXITED")
    <3> SUFFICES ASSUME NEW w \in Workers, wpc[w] = "ended" => state[w] = "EXITED",
                        wpc'[w] = "ended"
                 PROVE  state'[w] = "EXITED"
      OBVIOUS
    <3>1. Threads(w)
      BY <1>0, ThreadsStep
    <3>2. \A c \in Callers : cpc[c] \notin Joining \cup {"mark"}
      BY <1>2 DEF CreateInv, CreatePC, Joining
    <3> QED
      BY <3>1, <3>2 DEF Threads
  <2> QED
    BY <1>0, <1>2, <2>2, <2>3 DEF CreateInv, Published, callers, locals, life, clients, subs
<1> QED
  BY <1>1, <1>2

(* The steps of shutdown that change workers are those of a caller that    *)
(* joins or marks them, and the supervisor is then away or the pool is     *)
(* given up.                                                               *)
LEMMA LiftWatch ==
    ASSUME SupTypeOK, DriverInv, EndedInv, JoinInv, WatchInv, Lifted
    PROVE  WatchInv'
<1> USE DEF SupTypeOK
<1>0. UNCHANGED <<upc, uidx>> /\ [Next]_vars
  BY LiftFrame
<1>1. /\ \A w \in Workers : Threads(w)
      /\ UNCHANGED supervisor_joined
      /\ \A w \in Workers : joined[w] => joined'[w]
  BY <1>0, ThreadsStep, SettledStep DEF Settled
<1>2. ~can_close => ~can_close'
  <2>1. ASSUME NEW c \in Callers, ShutdownCall(c) \/ ShutdownStep(c)
        PROVE  ~can_close => ~can_close'
    BY <2>1, ShutdownLabels
  <2>2. ASSUME \/ UNCHANGED vars \/ Expire \/ DestroyCall \/ DestroyStep
               \/ \E w \in Workers : Working(w) \/ CallbackDestroy(w)
               \/ \E s \in Submitters : Submitting(s)
        PROVE  can_close' = can_close
    BY <2>2, WorkFrame, CallbackFrame, ExpireFrame, SubmitFrame, DestroyFrame
       DEF vars, control, callers, locals
  <2> QED
    BY <1>0, <2>1, <2>2, Kinds
<1>3. BegunInv'
  BY <1>1 DEF WatchInv, BegunInv, Threads
<1>4. AtInv'
  <2>1. upc \in {"rlife", "reopen", "rcheck", "rstart", "rfail"} => joined'[uidx]
    BY <1>1 DEF WatchInv, AtInv
  <2>2. upc = "condemn" => wpc'[uidx] # "start"
    BY <1>1 DEF WatchInv, AtInv, Threads
  <2>3. ASSUME upc = "rcreate"
        PROVE  /\ ~joined'[uidx] /\ wpc'[uidx] = "ended"
               /\ state'[uidx] = "STARTING" \/ (state'[uidx] = "QUARANTINED" /\ ~can_close')
    <3>1. /\ ~joined[uidx] /\ wpc[uidx] = "ended"
          /\ state[uidx] = "STARTING" \/ (state[uidx] = "QUARANTINED" /\ ~can_close)
      BY <2>3 DEF WatchInv, AtInv
    <3>2. \A c \in Callers : cpc[c] \notin Joining
      BY <2>3, OnDuty
    <3>3. (\E c \in Callers : cpc[c] = "mark") => ~can_close
      BY DEF JoinInv, JoinAt
    <3> QED
      BY <1>1, <1>2, <3>1, <3>2, <3>3 DEF Threads
  <2> QED
    BY <1>0, <2>1, <2>2, <2>3 DEF AtInv
<1>5. AwayInv'
  <2>1. \A c \in Callers : cpc'[c] \in Joining \cup {"close"} =>
                              cpc[c] \in Joining \cup {"close", "mark"}
    <3>1. ASSUME NEW c \in Callers, ShutdownCall(c) \/ ShutdownStep(c)
          PROVE  \A d \in Callers : cpc'[d] \in Joining \cup {"close"} =>
                                       cpc[d] \in Joining \cup {"close", "mark"}
      <4>1. \A d \in Callers \ {c} : cpc'[d] = cpc[d]
        BY <3>1, ShutdownMoves DEF TypeOK
      <4>2. cpc'[c] \in Joining \cup {"close"} => cpc[c] \in Joining \cup {"close", "mark"}
        BY <3>1, ShutdownLabels
      <4> QED
        BY <4>1, <4>2
    <3>2. ASSUME DestroyCall \/ DestroyStep
          PROVE  \A d \in Callers : cpc'[d] \in Joining \cup {"close"} => cpc'[d] = cpc[d]
      BY <3>2, DestroyMoves DEF TypeOK, Joining
    <3>3. ASSUME \/ UNCHANGED vars \/ Expire
                 \/ \E w \in Workers : Working(w) \/ CallbackDestroy(w)
                 \/ \E s \in Submitters : Submitting(s)
          PROVE  cpc' = cpc
      BY <3>3, WorkFrame, CallbackFrame, ExpireFrame, SubmitFrame DEF vars, control, callers
    <3> QED
      BY <1>0, <3>1, <3>2, <3>3, Kinds
  <2>2. \A c \in Callers : cpc[c] = "mark" => ~can_close
    BY DEF JoinInv, JoinAt
  <2>3. \A c \in Callers : cpc'[c] \in Joining \cup {"close"} /\ can_close' => upc = "ended"
    BY <1>2, <2>1, <2>2 DEF WatchInv, AwayInv
  <2>4. memory' = "freed" => memory = "freed" \/ supervisor_joined
    <3>1. ASSUME DestroyCall \/ DestroyStep, ~supervisor_joined
          PROVE  memory' = "freed" => memory = "freed"
      BY <3>1 DEF DestroyCall, DestroyStep, DestroyWait, DestroyRefs, DestroyTimeout, Destroy,
                  LiveReferences, env
    <3>2. ASSUME \/ UNCHANGED vars \/ Expire
                 \/ \E c \in Callers : ShutdownCall(c) \/ ShutdownStep(c)
                 \/ \E w \in Workers : Working(w) \/ CallbackDestroy(w)
                 \/ \E s \in Submitters : Submitting(s)
          PROVE  memory' = memory
      BY <3>2, WorkFrame, CallbackFrame, ExpireFrame, SubmitFrame, ShutdownFrame DEF vars, env
    <3> QED
      BY <1>0, <3>1, <3>2, Kinds
  <2> QED
    BY <1>0, <1>1, <2>3, <2>4 DEF WatchInv, AwayInv
<1> QED
  BY <1>3, <1>4, <1>5 DEF WatchInv

(* The pool forgets no worker that has ended: it leaves its state EXITED. *)
LEMMA LiftKnown ==
    ASSUME SupTypeOK, DriverInv, NoForgottenWorker, Lifted
    PROVE  NoForgottenWorker'
<1> USE DEF SupTypeOK
<1>0. UNCHANGED <<upc, uidx>> /\ [Next]_vars /\ (supervisor_stop => supervisor_stop')
  BY LiftFrame
<1>s. SUFFICES ASSUME Published', life_is_running', NEW w \in Workers, wpc'[w] = "ended"
               PROVE  Known(w)'
  BY DEF NoForgottenWorker, Known, Dealing
<1>1. lifecycle = "RUNNING"
  <2>1. lifecycle' = "RUNNING"
    BY <1>s DEF life_is_running
  <2>2. ASSUME NEW c \in Callers, ShutdownCall(c) \/ ShutdownStep(c)
        PROVE  lifecycle = "RUNNING"
    BY <2>1, <2>2, Phases DEF Phase, DriverInv
  <2>3. ASSUME \/ UNCHANGED vars \/ Expire \/ DestroyCall \/ DestroyStep
               \/ \E v \in Workers : Working(v) \/ CallbackDestroy(v)
               \/ \E s \in Submitters : Submitting(s)
        PROVE  lifecycle' = lifecycle
    BY <2>3, WorkFrame, CallbackFrame, ExpireFrame, SubmitFrame, DestroyFrame
       DEF vars, control, flags, life
  <2> QED
    BY <1>0, <2>1, <2>2, <2>3, Kinds
<1>2. Published /\ life_is_running
  BY <1>0, <1>1, <1>s DEF Published, life_is_running
<1>3. Threads(w) /\ (closed[w] => closed'[w])
  BY <1>0, ThreadsStep, ClosedStep
<1>4. \A c \in Callers : cpc[c] \notin Joining \cup {"mark"}
  BY <1>1 DEF DriverInv, Drainer
<1>5. wpc[w] = "ended" => Known(w)
  BY <1>2 DEF NoForgottenWorker, Known, Dealing
<1> QED
  BY <1>0, <1>3, <1>4, <1>5, <1>s DEF Known, Threads

(* The pool keeps the types. *)
LEMMA LiftType ==
    ASSUME SupTypeOK, TypeOK', Lifted
    PROVE  SupTypeOK'
<1>1. UNCHANGED <<upc, uidx, supervisor_phase>>
  BY LiftFrame
<1>2. progress' \in BOOLEAN /\ supervisor_stop' \in BOOLEAN
  BY DEF Lifted, Lift
<1> QED
  BY <1>1, <1>2 DEF SupTypeOK

(* The loop that closes the rings leaves none out. *)
LEMMA ShutDriver ==
    ASSUME TypeOK, NEW c \in Callers, ShutdownStep(c), ShutAt(c),
           cpc[c] \in Quiescer \cup Drainer, UNCHANGED <<upc, uidx>>,
           \A w \in Workers : closed[w] => closed'[w]
    PROVE  /\ ShutAt(c)'
           /\ lifecycle' = "STOPPED" => lifecycle = "STOPPED" \/ \A w \in Workers : Shut(w)
<1> USE DEF TypeOK
<1>0. /\ \A w \in Workers : Shut(w) => Shut(w)'
      /\ NWorkers \in Nat \ {0} /\ widx \in 0 .. NWorkers - 1 /\ Workers = 0 .. NWorkers - 1
  BY PoolAssumption DEF Shut, Workers
<1>1. CASE Quiesced(c) \/ QuiesceResult(c) \/ Drain(c)
  <2>1. cpc'[c] \in {"quiesced", "drain"} \cup SupPC /\ (cpc'[c] \in SupPC => widx' = 0)
    BY <1>1, SupervisorAssumption DEF Quiesced, QuiesceResult, Drain, GotoC, SupPC
  <2>2. lifecycle' = lifecycle \/ lifecycle' = "DRAINING"
    BY <1>1 DEF Quiesced, QuiesceResult, Drain, flags, life
  <2> QED
    BY <2>1, <2>2 DEF ShutAt, SupPC, Joining
<1>n. ASSUME NEW a \in {"close", "worker"}, NEW b \in {"worker", "final"}, NextWorker(c, a, b),
             a = "close" => \A w \in Workers : w <= widx => Shut(w)',
             a = "worker" => \A w \in Workers : Shut(w)'
      PROVE  ShutAt(c)'
  <2>1. CASE widx + 1 < NWorkers
    <3>1. widx' = widx + 1 /\ cpc'[c] = a
      BY <1>n, <2>1 DEF NextWorker, GotoC
    <3>2. \A w \in Workers : w < widx + 1 => w <= widx
      BY <1>0
    <3> QED
      BY <1>n, <3>1, <3>2 DEF ShutAt, SupPC, Joining
  <2>2. CASE ~(widx + 1 < NWorkers)
    <3>1. cpc'[c] = b
      BY <1>n, <2>2 DEF NextWorker, GotoC
    <3>2. \A w \in Workers : w <= widx
      BY <1>0, <2>2
    <3> QED
      BY <1>n, <3>1, <3>2 DEF ShutAt, SupPC, Joining
  <2> QED
    BY <2>1, <2>2
<1>k. PICK k \in Workers : k = widx
  BY <1>0
<1>2. CASE CloseRing(c)
  <2>1. closed'[k] /\ lifecycle' = lifecycle /\ cpc[c] = "close"
    BY <1>0, <1>k, <1>2 DEF CloseRing, flags, life
  <2>2. \A w \in Workers : w <= widx => Shut(w)'
    <3>1. \A w \in Workers : w <= widx => w < widx \/ w = widx
      BY <1>0
    <3>2. \A w \in Workers : w < widx => Shut(w)'
      BY <1>0, <2>1 DEF ShutAt
    <3>3. Shut(k)'
      BY <2>1 DEF Shut
    <3> QED
      BY <1>k, <3>1, <3>2, <3>3
  <2>3. CASE GotoC(c, "mark") /\ UNCHANGED widx
    <3>1. cpc'[c] = "mark"
      BY <2>3 DEF GotoC
    <3>2. \A w \in Workers : w < widx => w <= widx
      BY <1>0
    <3> QED
      BY <1>k, <2>1, <2>2, <2>3, <3>1, <3>2 DEF ShutAt, SupPC, Joining, Shut
  <2>4. CASE NextWorker(c, "close", IF can_close THEN "worker" ELSE "final")
    BY <1>n, <2>1, <2>2, <2>4
  <2> QED
    BY <1>2, <2>1, <2>3, <2>4 DEF CloseRing
<1>3. CASE MarkWorker(c)
  <2>1. lifecycle' = lifecycle /\ NextWorker(c, "close", "final")
    BY <1>3 DEF MarkWorker, flags, life
  <2>2. \A w \in Workers : w <= widx => Shut(w)'
    <3>1. \A w \in Workers : w <= widx => w < widx \/ w = widx
      BY <1>0
    <3> QED
      BY <1>0, <1>3, <3>1 DEF MarkWorker, ShutAt
  <2> QED
    BY <1>n, <2>1, <2>2
<1>4. ASSUME cpc[c] \in Joining \cup {"final"}, lifecycle' = lifecycle,
             cpc'[c] \in Joining \cup {"final", "stop"}
      PROVE  /\ ShutAt(c)'
             /\ lifecycle' = "STOPPED" => lifecycle = "STOPPED" \/ \A w \in Workers : Shut(w)
  <2>1. \A w \in Workers : Shut(w)'
    BY <1>0, <1>4 DEF ShutAt
  <2> QED
    BY <1>4, <2>1 DEF ShutAt, SupPC, Joining
<1>5. CASE JoinWorker(c) \/ JoinExited(c) \/ JoinFailed(c) \/ JoinDone(c)
  <2>1. /\ cpc[c] \in {"worker", "exited", "helper"} /\ lifecycle' = lifecycle
        /\ \E l \in {"residual", "exited", "late", "helper"} : cpc' = [cpc EXCEPT ![c] = l]
    BY <1>5 DEF JoinWorker, JoinExited, JoinFailed, JoinDone, GotoC, Quarantine, flags, life
  <2> QED
    BY <1>4, <2>1 DEF Joining
<1>6. CASE JoinTimeout(c) \/ JoinLate(c) \/ WriteOff(c) \/ Final(c)
  <2>1. /\ cpc[c] \in {"helper", "late", "writeoff", "final"} /\ lifecycle' = lifecycle
        /\ \E l \in {"residual", "writeoff", "stop"} : cpc' = [cpc EXCEPT ![c] = l]
    BY <1>6 DEF JoinTimeout, JoinLate, WriteOff, Final, GotoC, Quarantine, flags, life
  <2> QED
    BY <1>4, <2>1 DEF Joining
<1>7. CASE Residual(c) \/ ResidualPop(c)
  <2>1. /\ cpc[c] \in {"residual", "rpop"} /\ lifecycle' = lifecycle
        /\ GotoC(c, "rpop") \/ GotoC(c, "residual") \/ NextWorker(c, "worker", "final")
    BY <1>7 DEF Residual, ResidualPop, flags, life
  <2>2. \E l \in {"rpop", "residual", "worker", "final"} : cpc' = [cpc EXCEPT ![c] = l]
    BY <2>1 DEF NextWorker, GotoC
  <2> QED
    BY <1>4, <2>1, <2>2 DEF Joining
<1>8. CASE SetStopped(c)
  <2>1. cpc[c] = "stop" /\ cpc'[c] = "epilogue"
    BY <1>8 DEF SetStopped, GotoC
  <2> QED
    BY <2>1 DEF ShutAt, SupPC, Joining
<1>9. CASE ShutdownLoad(c) \/ WaitEnter(c) \/ WaitStopped(c) \/ ShutdownCas(c) \/ ShutdownReturn(c)
  BY <1>9 DEF ShutdownLoad, WaitEnter, WaitStopped, ShutdownCas, ShutdownReturn, Quiescer, Drainer,
              Joining
<1> QED
  BY <1>1, <1>2, <1>3, <1>5, <1>6, <1>7, <1>8, <1>9 DEF ShutdownStep

(* Shutdown leaves no ring open when it stops the pool. *)
LEMMA LiftShut ==
    ASSUME SupTypeOK, DriverInv, ShutInv, Lifted
    PROVE  ShutInv'
<1> USE DEF SupTypeOK
<1>0. UNCHANGED <<upc, uidx>> /\ [Next]_vars
  BY LiftFrame
<1>1. \A w \in Workers : (closed[w] => closed'[w]) /\ (Shut(w) => Shut(w)')
  BY <1>0, ClosedStep DEF Shut
<1>2. ASSUME lifecycle' = "STOPPED" => lifecycle = "STOPPED" \/ \A w \in Workers : Shut(w)
      PROVE  RingsReclosed'
  <2>1. lifecycle' = "STOPPED" => \A w \in Workers : Shut(w)
    BY <1>2 DEF ShutInv, RingsReclosed, Shut
  <2>2. lifecycle' = "STOPPED" => \A w \in Workers : Shut(w)'
    BY <1>1, <2>1
  <2> QED
    BY <2>2 DEF RingsReclosed, Shut
<1>3. ASSUME NEW d \in Callers, cpc'[d] \notin Drainer
      PROVE  ShutAt(d)'
  BY <1>3 DEF ShutAt, SupPC, Drainer, Joining
<1>4. ASSUME NEW d \in Callers, ShutAt(d), cpc'[d] = cpc[d], UNCHANGED widx
      PROVE  ShutAt(d)'
  <2>1. PICK k \in Workers : k = widx
    BY DEF TypeOK
  <2>2. /\ cpc[d] = "mark" => Shut(k)
        /\ Shut(k) => Shut(k)'
    BY <1>1, <1>4, <2>1 DEF ShutAt
  <2>3. cpc'[d] = "mark" => Shut(widx)'
    BY <1>4, <2>1, <2>2 DEF Shut
  <2>4. /\ cpc'[d] \in SupPC => widx' = 0
        /\ cpc'[d] \in {"close", "mark"} => \A w \in Workers : w < widx' => Shut(w)'
        /\ cpc'[d] \in Joining \cup {"final", "stop"} => \A w \in Workers : Shut(w)'
    BY <1>1, <1>4 DEF ShutAt
  <2> QED
    BY <2>3, <2>4 DEF ShutAt, SupPC, Joining
<1>5. ASSUME NEW c \in Callers, ShutdownCall(c) \/ ShutdownStep(c)
      PROVE  ShutInv'
  <2>1. \A d \in Callers \ {c} : cpc'[d] = cpc[d]
    BY <1>5, ShutdownMoves DEF TypeOK
  <2>2. CASE cpc[c] \in Quiescer \cup Drainer
    <3>1. ShutdownStep(c) /\ ShutAt(c)
      BY <1>5, <2>2 DEF ShutdownCall, Quiescer, Drainer, Joining, ShutInv
    <3>2. /\ ShutAt(c)'
          /\ lifecycle' = "STOPPED" => lifecycle = "STOPPED" \/ \A w \in Workers : Shut(w)
      BY <1>0, <1>1, <2>2, <3>1, ShutDriver
    <3>3. \A d \in Callers \ {c} : cpc'[d] \notin Drainer
      BY <2>1, <2>2 DEF DriverInv
    <3>4. \A d \in Callers : ShutAt(d)'
      BY <1>3, <3>2, <3>3
    <3> QED
      BY <1>2, <3>2, <3>4 DEF ShutInv
  <2>3. CASE cpc[c] \notin Quiescer \cup Drainer
    <3>1. UNCHANGED <<rings, widx>> /\ cpc'[c] \notin Drainer
      BY <1>5, <2>3, Bystander DEF Drainer, Joining
    <3>2. lifecycle' = "STOPPED" => lifecycle = "STOPPED"
      BY <1>5, <2>3, Phases DEF Phase, Drainer
    <3>3. \A d \in Callers \ {c} : ShutAt(d)'
      BY <1>4, <2>1, <3>1 DEF ShutInv, rings
    <3>4. \A d \in Callers : ShutAt(d)'
      BY <1>3, <3>1, <3>3
    <3> QED
      BY <1>2, <3>2, <3>4 DEF ShutInv
  <2> QED
    BY <2>2, <2>3
<1>6. ASSUME DestroyCall \/ DestroyStep
      PROVE  ShutInv'
  <2>1. UNCHANGED <<lifecycle, widx>>
    BY <1>6, DestroyFrame DEF locals
  <2>2. cpc'[Owner] \notin Drainer /\ \A d \in Callers \ {Owner} : cpc'[d] = cpc[d]
    BY <1>6, DestroyMoves, PoolAssumption DEF TypeOK, Drainer, Joining
  <2>3. \A d \in Callers \ {Owner} : ShutAt(d)'
    BY <1>4, <2>1, <2>2 DEF ShutInv
  <2>4. \A d \in Callers : ShutAt(d)'
    BY <1>3, <2>2, <2>3
  <2> QED
    BY <1>2, <2>1, <2>4 DEF ShutInv
<1>7. ASSUME \/ UNCHANGED vars \/ Expire
             \/ \E w \in Workers : Working(w) \/ CallbackDestroy(w)
             \/ \E s \in Submitters : Submitting(s)
      PROVE  ShutInv'
  <2>1. UNCHANGED <<cpc, widx, lifecycle>>
    BY <1>7, WorkFrame, CallbackFrame, ExpireFrame, SubmitFrame
       DEF vars, control, flags, life, callers, locals
  <2>2. \A d \in Callers : ShutAt(d)'
    BY <1>4, <2>1 DEF ShutInv
  <2> QED
    BY <1>2, <2>1, <2>2 DEF ShutInv
<1> QED
  BY <1>0, <1>5, <1>6, <1>7, Kinds

(***************************************************************************)
(* The theorems.                                                           *)
(***************************************************************************)

(* A pool whose workers have not been created satisfies the invariant. *)
LEMMA SupInitially ==
    ASSUME SupInit
    PROVE  SupInv
<1>0. /\ NWorkers \in Nat \ {0} /\ Capacity \in Nat \ {0, 1} /\ Owner \in Callers
      /\ MaxCalls \in Nat
  BY PoolAssumption
<1> USE DEF SupInit, InitStorage
<1>1. TypeOK
  <2>1. 0 \in Workers
    BY <1>0 DEF Workers
  <2>2. spc \in [Submitters -> SubmitPC] /\ cpc \in [Callers -> CallerPC]
    BY DEF SubmitPC, CallerPC
  <2>3. store \in [Workers -> [0 .. Capacity - 1 -> Nat \cup {NoFrame}]]
    OBVIOUS
  <2>4. /\ calls \in 0 .. MaxCalls /\ widx \in Workers
        /\ shard \in [Submitters -> Workers] /\ spos \in [Submitters -> Nat]
        /\ api \in [Submitters -> Apis \cup {"none"}]
    BY <1>0, <2>1
  <2>5. /\ enqueue_pos \in [Workers -> Nat] /\ dequeue_pos \in [Workers -> Nat]
        /\ ready \in [Workers -> SUBSET Nat] /\ processed \in [Workers -> Nat]
        /\ closed \in [Workers -> BOOLEAN] /\ stop \in [Workers -> BOOLEAN]
        /\ joined \in [Workers -> BOOLEAN]
    OBVIOUS
  <2>6. /\ state \in [Workers -> {"STARTING", "RUNNING", "EXITED", "JOINED", "QUARANTINED"}]
        /\ wpc \in [Workers -> {"start", "loop", "pop", "process", "exit", "ended"}]
        /\ result \in [Callers -> {"none", "clean", "late"}]
    OBVIOUS
  <2>7. /\ lifecycle \in {"RUNNING", "QUIESCING", "DRAINING", "STOPPED"}
        /\ active_submits \in Nat /\ api_refs \in Nat
        /\ shutdown_waiters \in Nat /\ shutdown_aborts \in {0, 1}
        /\ quarantined \in BOOLEAN /\ destroy_started \in BOOLEAN
        /\ submitted \in Nat /\ dropped \in Nat /\ abandoned \in Nat /\ can_close \in BOOLEAN
        /\ supervisor_joined \in BOOLEAN /\ expired \in BOOLEAN
        /\ memory \in {"live", "freed", "leaked"}
    OBVIOUS
  <2> HIDE DEF SupInit, InitStorage
  <2> QED
    BY <2>2, <2>3, <2>4, <2>5, <2>6, <2>7 DEF TypeOK
<1>2. Counted
  <2>1. Registered = {} /\ Inside = {} /\ Waiting = {}
    BY DEF Registered, Inside, Waiting
  <2> QED
    BY <2>1, FS_EmptySet DEF Counted, RefsCounted
<1>3. DriverInv /\ EndedInv /\ ApiInv
  BY DEF DriverInv, EndedInv, ApiInv, Quiescer, Drainer, Joining
<1>4. JoinInv
  BY DEF JoinInv, JoinAt, Joining
<1>5. CleanInv
  BY DEF CleanInv, CleanAt, CleanMeansJoined, Joining
<1>6. DestroyInv
  BY <1>0 DEF DestroyInv, NoUseAfterFree
<1>7. FifoInv
  BY DEF FifoInv, Pending
<1>8. FrameInv
  <2>1. Accepted = {} /\ Taken = {} /\ Handled = {} /\ Counting = {} /\ Busy = {}
    <3>1. \A w \in Workers : /\ 0 .. dequeue_pos[w] - 1 = {} /\ ready[w] = {}
                             /\ 1 .. processed[w] = {}
      OBVIOUS
    <3> QED
      BY <3>1, Members DEF Counting, Busy
  <2> QED
    BY <2>1, FS_EmptySet DEF FrameInv
<1>9. CreateInv
  BY <1>0 DEF CreateInv, CreatePC, Published, Workers
<1>10. WatchInv /\ ShutInv /\ NoForgottenWorker
  <2>0. /\ upc = "none" /\ lifecycle = "RUNNING"
        /\ \A c \in Callers : cpc[c] \in {"create", "idle"}
        /\ \A w \in Workers : state[w] = "JOINED"
    OBVIOUS
  <2> HIDE DEF SupInit, InitStorage
  <2>1. BegunInv /\ AtInv /\ AwayInv
    BY <2>0 DEF BegunInv, AtInv, AwayInv, Joining
  <2>2. ShutInv
    BY <2>0 DEF ShutInv, ShutAt, SupPC, RingsReclosed, Joining
  <2>3. NoForgottenWorker
    BY <2>0 DEF NoForgottenWorker, Published
  <2> QED
    BY <2>1, <2>2, <2>3 DEF WatchInv
<1>11. SupTypeOK
  <2>1. /\ supervisor_stop = FALSE /\ supervisor_phase = 0 /\ progress = FALSE
        /\ upc = "none" /\ uidx = 0
    OBVIOUS
  <2> HIDE DEF SupInit, InitStorage
  <2>2. uidx \in Workers
    BY <1>0, <2>1 DEF Workers
  <2>3. supervisor_stop \in BOOLEAN /\ progress \in BOOLEAN
    BY <2>1, Zenon
  <2>4. supervisor_phase \in 0 .. 3
    BY <2>1
  <2> QED
    BY <1>1, <2>1, <2>2, <2>3, <2>4, Zenon DEF SupTypeOK
<1> QED
  BY <1>1, <1>2, <1>3, <1>4, <1>5, <1>6, <1>7, <1>8, <1>9, <1>10, <1>11 DEF SupInv, SharedInv

(* The invariant is inductive. *)
LEMMA SupStep ==
    ASSUME SupInv, [SupNext]_svars
    PROVE  SupInv'
<1>0. /\ SupTypeOK /\ CreateInv /\ WatchInv /\ ShutInv /\ NoForgottenWorker
      /\ SharedInv /\ TypeOK /\ DriverInv /\ EndedInv /\ JoinInv /\ DestroyInv
  BY DEF SupInv, SharedInv
<1>1. CASE Outside
  BY <1>0, <1>1, OutsideShared, OutsideCreate, OutsideWatch, OutsideShut, OutsideKnown DEF SupInv
<1>2. CASE Lifted
  <2>1. SharedInv'
    BY <1>0, <1>2, LiftFrame, SharedStep DEF CreateInv
  <2>2. SupTypeOK'
    BY <1>0, <1>2, <2>1, LiftType DEF SharedInv
  <2> QED
    BY <1>0, <1>2, <2>1, <2>2, LiftCreate, LiftWatch, LiftShut, LiftKnown DEF SupInv
<1>3. CASE UNCHANGED svars
  <2>1. SharedInv'
    BY <1>0, <1>3, SharedStep DEF svars
  <2>2. CreateInv' /\ WatchInv' /\ ShutInv' /\ NoForgottenWorker' /\ SupTypeOK'
    <3>1. UNCHANGED <<cpc, widx, joined, wpc, state, upc, uidx, result, spc, lifecycle, closed,
                      destroy_started, supervisor_joined, can_close, memory, supervisor_stop,
                      supervisor_phase, progress>>
      BY <1>3 DEF svars, vars, sup, watch, callers, locals, workers, subs, flags, life, rings, env
    <3>2. CreateInv'
      BY <1>0, <3>1 DEF CreateInv, Published, GoneInv
    <3>3. WatchInv'
      BY <1>0, <3>1 DEF WatchInv, BegunInv, AtInv, AwayInv
    <3>4. ShutInv'
      BY <1>0, <3>1 DEF ShutInv, ShutAt, RingsReclosed, Shut
    <3>5. NoForgottenWorker'
      BY <1>0, <3>1 DEF NoForgottenWorker, Published, life_is_running
    <3>6. SupTypeOK'
      BY <1>0, <2>1, <3>1 DEF SupTypeOK, SharedInv
    <3> QED
      BY <3>2, <3>3, <3>4, <3>5, <3>6
  <2> QED
    BY <2>1, <2>2 DEF SupInv
<1> QED
  BY <1>1, <1>2, <1>3 DEF SupNext, Outside, Lifted

(* The invariant holds in every reachable state. *)
LEMMA SupInvariant == SupSpec => []SupInv
<1>1. SupInit => SupInv
  BY SupInitially
<1>2. SupInv /\ [SupNext]_svars => SupInv'
  BY SupStep
<1> QED
  BY <1>1, <1>2, PTL DEF SupSpec

(* Type correctness of the pool with its supervisor: worker indices stay   *)
(* workers, awp_supervisor_main and restart_worker stay on their labels.   *)
THEOREM SupTypeCorrect == SupSpec => []SupTypeOK
<1>1. SupInv => SupTypeOK
  BY DEF SupInv
<1> QED
  BY <1>1, SupInvariant, PTL

(* Neither awp_pool_destroy nor the rollback of awp_pool_create frees the  *)
(* pool under a worker, a call or the supervisor.                          *)
THEOREM SupNoUseAfterFreed == SupSpec => []SupNoUseAfterFree
<1>1. SupInv => SupNoUseAfterFree
  BY DEF SupInv, SharedInv, DestroyInv, WatchInv, AwayInv, SupNoUseAfterFree
<1> QED
  BY <1>1, SupInvariant, PTL

(* restart_worker starts a thread only in place of one that has ended, and *)
(* never while awp_pool_shutdown joins workers and drains rings.           *)
THEOREM SupRestartAlone == SupSpec => []RestartAlone
<1>1. SupInv => RestartAlone
  <2> SUFFICES ASSUME SupInv, upc = "rcreate"
               PROVE  /\ wpc[uidx] = "ended"
                      /\ \A c \in Callers : cpc[c] \notin {"worker", "exited", "helper",
                                                           "residual", "rpop"}
    BY DEF RestartAlone
  <2>1. \A c \in Callers : cpc[c] \notin Joining
    BY OnDuty DEF SupInv, SharedInv
  <2> QED
    BY <2>1 DEF SupInv, WatchInv, AtInv, Joining
<1> QED
  BY <1>1, SupInvariant, PTL

(* With restarts too, the residual drain of awp_pool_shutdown never pops   *)
(* from the ring of a worker that is running.                              *)
THEOREM SupSingleConsumer == SupSpec => []SingleConsumer
<1>1. SupInv => SingleConsumer
  BY DEF SupInv, SharedInv, JoinInv, JoinAt, SingleConsumer
<1> QED
  BY <1>1, SupInvariant, PTL

(* awp_pool_shutdown returns 0 only when it has joined the supervisor and  *)
(* every worker, restarted ones included.                                  *)
THEOREM SupCleanMeansJoined == SupSpec => []CleanMeansJoined
<1>1. SupInv => CleanMeansJoined
  BY DEF SupInv, SharedInv, CleanInv
<1> QED
  BY <1>1, SupInvariant, PTL

(* Once the pool has stopped, a ring that restart_worker has reopened is   *)
(* closed again by the test that follows the reopen.                       *)
THEOREM SupRingsReclosed == SupSpec => []RingsReclosed
<1>1. SupInv => RingsReclosed
  BY DEF SupInv, ShutInv
<1> QED
  BY <1>1, SupInvariant, PTL

(* awp_supervisor_main and restart_worker lose track of no worker that has *)
(* ended, although they overwrite states they have read a while ago.       *)
THEOREM SupNoForgottenWorker == SupSpec => []NoForgottenWorker
<1>1. SupInv => NoForgottenWorker
  BY DEF SupInv
<1> QED
  BY <1>1, SupInvariant, PTL

=============================================================================
