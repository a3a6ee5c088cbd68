----------------------------- MODULE PoolProofs -----------------------------
(***************************************************************************)
(* Proofs about module Pool, for any number of threads, workers and calls. *)
(***************************************************************************)
EXTENDS Pool, FiniteSetTheorems, TLAPS

(***************************************************************************)
(* The inductive invariant.  The first group holds with a supervisor too.  *)
(***************************************************************************)

(* The counters that shutdown and destroy wait for. *)
Waiting == {c \in Callers : cpc[c] = "waiting"}
Counted == RefsCounted /\ shutdown_waiters = Cardinality(Waiting)

(* One caller does the work of shutdown, and the lifecycle says how far it *)
(* has got.                                                                *)
Joining  == {"worker", "exited", "helper", "late", "writeoff", "residual", "rpop"}
Quiescer == {"quiesce", "quiesced", "drain"}
Drainer  == {"supwait", "supjoin", "suphelper", "close", "mark", "final", "stop",
             "rbclose", "rbjoin", "rbfree"} \cup Joining

DriverInv ==
    /\ \A c, d \in Callers :
          cpc[c] \in Quiescer \cup Drainer /\ cpc[d] \in Quiescer \cup Drainer => c = d
    /\ \A c \in Callers :
          /\ cpc[c] \in Quiescer => lifecycle = "QUIESCING"
          /\ cpc[c] \in Drainer => lifecycle = "DRAINING"
          /\ cpc[c] = "epilogue" => lifecycle = "STOPPED"

(* A worker that is joined, or says that it has exited, has ended. *)
EndedInv ==
    \A w \in Workers : joined[w] \/ state[w] \in {"EXITED", "JOINED"} => wpc[w] = "ended"

(* Where the shutdown is with worker widx: a worker that is not known to   *)
(* have ended is written off for good, or the deadline has passed.         *)
JoinAt(c) ==
    /\ cpc[c] \in Joining => can_close
    /\ cpc[c] = "mark" => ~can_close
    /\ cpc[c] \in {"exited", "helper", "rpop"} => wpc[widx] = "ended"
    /\ cpc[c] \in {"late", "writeoff"} => expired
    /\ cpc[c] = "residual" => \/ wpc[widx] = "ended" \/ expired
                              \/ state[widx] = "QUARANTINED" /\ wpc[widx] # "start"
JoinInv ==
    /\ \A w \in Workers : state[w] = "QUARANTINED" => expired \/ ~can_close \/ wpc[w] # "start"
    /\ \A c \in Callers : JoinAt(c)

(* A pool that is not quarantined has joined the workers up to widx, and   *)
(* all of them, and the supervisor, once shutdown has been through them.   *)
CleanAt(c) ==
    /\ cpc[c] \in Joining \cup {"close", "final", "stop"} => supervisor_joined
    /\ cpc[c] \in Joining => \A w \in Workers : w < widx => joined[w]
    /\ cpc[c] \in {"residual", "rpop"} => joined[widx]
    /\ cpc[c] \in {"final", "stop"} => \A w \in Workers : joined[w]
CleanInv ==
    /\ EnableSupervisor \/ supervisor_joined
    /\ ~can_close => quarantined
    /\ shutdown_aborts # 0 => quarantined
    /\ ~quarantined => \A c \in Callers : CleanAt(c)
    /\ ~quarantined /\ lifecycle = "STOPPED" => supervisor_joined /\ \A w \in Workers : joined[w]
    /\ CleanMeansJoined

(* Destroy begins when everybody else is outside, and nobody comes in. *)
DestroyInv ==
    /\ destroy_started => /\ \A s \in Submitters : spc[s] \in {"idle", "holding"}
                          /\ \A c \in Callers \ {Owner} : cpc[c] \in {"idle", "returned"}
    /\ \A c \in Callers : /\ cpc[c] \in {"dwait", "drefs", "dcheck"} => destroy_started
                          /\ cpc[c] \in {"dwait", "drefs", "dcheck", "gone"} => c = Owner
    /\ memory # "live" => cpc[Owner] = "gone"
    /\ NoUseAfterFree
GoneInv == cpc[Owner] = "gone" => destroy_started

(* A ring holds the published positions and those that somebody has        *)
(* reserved and will publish, each once.                                   *)
Pending(s) == spc[s] \in {"publish", "cregister", "holding"}
FifoInv ==
    /\ \A w \in Workers :
          /\ dequeue_pos[w] <= enqueue_pos[w]
          /\ \A i \in ready[w] : dequeue_pos[w] <= i /\ i < enqueue_pos[w]
          /\ \A i \in Nat : dequeue_pos[w] <= i /\ i < enqueue_pos[w] =>
                i \in ready[w] \/ \E s \in Submitters : Pending(s) /\ shard[s] = w /\ spos[s] = i
    /\ \A s \in Submitters : Pending(s) =>
          /\ dequeue_pos[shard[s]] <= spos[s] /\ spos[s] < enqueue_pos[shard[s]]
          /\ spos[s] \notin ready[shard[s]]
    /\ \A s, t \in Submitters :
          Pending(s) /\ Pending(t) /\ shard[s] = shard[t] /\ spos[s] = spos[t] => s = t

(* The frames: those published are the submitted ones and those about to   *)
(* be counted; those taken out are processed, being processed or abandoned. *)
Taken    == UNION {{w} \X (0 .. dequeue_pos[w] - 1) : w \in Workers}
Accepted == UNION {{w} \X ((0 .. dequeue_pos[w] - 1) \cup ready[w]) : w \in Workers}
Counting == {s \in Submitters : spc[s] = "count"}
Busy     == {w \in Workers : wpc[w] = "process"}
FrameInv ==
    /\ IsFiniteSet(Accepted) /\ Cardinality(Accepted) = submitted + Cardinality(Counting)
    /\ IsFiniteSet(Taken) /\ IsFiniteSet(Handled)
    /\ Cardinality(Taken) = Cardinality(Handled) + Cardinality(Busy) + abandoned

(* Which call is at which label. *)
ApiInv ==
    \A s \in Submitters :
        /\ spc[s] # "idle" => api[s] # "none"
        /\ spc[s] \in {"register", "check", "closed", "reserve", "park"} => api[s] = "submit"
        /\ spc[s] \in {"admit", "cclosed", "claim", "cregister", "holding", "retry", "kpark"} =>
              api[s] \in {"claim", "keyed"}

SharedInv ==
    /\ TypeOK /\ Counted /\ DriverInv /\ EndedInv /\ JoinInv /\ CleanInv /\ DestroyInv
    /\ FifoInv /\ FrameInv /\ ApiInv

(* Without a supervisor, rings are closed only after admission has ended, *)
(* unless the pool is quarantined.                                        *)
AdmissionOver == lifecycle \in {"DRAINING", "STOPPED"} \/ \E c \in Callers : cpc[c] = "drain"
Admitted(s) == api[s] = "submit" /\ spc[s] \in {"closed", "reserve", "park", "publish", "count"}
AdmissionInv ==
    /\ \A w \in Workers : closed[w] => lifecycle \in {"DRAINING", "STOPPED"} \/ quarantined
    /\ AdmissionOver /\ ~quarantined => \A s \in Submitters : ~Admitted(s)
    /\ NoDrops

(* A worker leaves an open ring, or one with frames in it, only when it is *)
(* about to be written off.                                                *)
WrittenOff == quarantined \/ \E c \in Callers : cpc[c] = "writeoff"
ExitInv ==
    \A w \in Workers :
        /\ stop[w] => WrittenOff
        /\ wpc[w] \in {"exit", "ended"} =>
              WrittenOff \/ (closed[w] /\ enqueue_pos[w] = dequeue_pos[w])

(***************************************************************************)
(* What the steps of each kind of thread leave alone.                      *)
(***************************************************************************)
Submitting(s) == SubmitStep(s) \/ Commit(s) \/ \E a \in Apis, w \in Workers : Call(s, a, w)
Working(w)    == WorkerStep(w) \/ WorkerProcessed(w)

(* Every step is one of a submitter, of a worker, of a caller of shutdown, *)
(* of destroy, or of the clock.                                            *)
LEMMA Kinds ==
    Next <=> \/ \E s \in Submitters : Submitting(s)
             \/ \E w \in Workers : Working(w) \/ CallbackDestroy(w)
             \/ \E c \in Callers : ShutdownCall(c) \/ ShutdownStep(c)
             \/ DestroyCall \/ DestroyStep \/ Expire
  BY DEF Next, ClientCall, Running, Submitting, Working

(* A submitter touches the rings' tails and the counters of admission. *)
LEMMA SubmitFrame ==
    ASSUME NEW s \in Submitters, Submitting(s)
    PROVE  UNCHANGED <<control, abandoned, dequeue_pos, closed, workers, supervisor_joined,
                       expired, memory>>
<1> USE DEF control, flags, life, verdict, callers, locals, counters, rings, queue, workers, env, refs,
            args
<1>1. CASE \E a \in Apis, w \in Workers : Call(s, a, w)
  BY <1>1 DEF Call
<1>2. CASE SubmitRegister(s) \/ SubmitCheck(s) \/ SubmitClosed(s) \/ SubmitReserve(s)
           \/ SubmitUnpark(s) \/ Publish(s)
  BY <1>2 DEF SubmitRegister, SubmitCheck, SubmitClosed, SubmitReserve, SubmitUnpark, Publish
<1>3. CASE Count(s) \/ Unregister(s) \/ Leave(s) \/ ClaimAdmit(s) \/ ClaimClosed(s)
  BY <1>3 DEF Count, Unregister, Leave, ClaimAdmit, ClaimClosed
<1>4. CASE Claim(s) \/ ClaimRegister(s) \/ KeyedRetry(s) \/ Commit(s)
  BY <1>4 DEF Claim, ClaimRegister, KeyedRetry, Commit
<1> QED
  BY <1>1, <1>2, <1>3, <1>4 DEF Submitting, SubmitStep

(* A worker touches its own fields and the head of its ring. *)
LEMMA WorkFrame ==
    ASSUME NEW w \in Workers, Working(w)
    PROVE  UNCHANGED <<control, clients, enqueue_pos, store, closed, stop, joined, env>>
<1> USE DEF rings, queue
<1> QED
  BY DEF Working, WorkerStep, WorkerStart, WorkerLoop, WorkerPop, WorkerDrained, WorkerExit,
         WorkerProcessed

(* A shutdown leaves the submitters, their rings' tails and the threads of *)
(* the workers alone.                                                      *)
LEMMA ShutdownFrame ==
    ASSUME NEW c \in Callers, ShutdownCall(c) \/ ShutdownStep(c)
    PROVE  UNCHANGED <<destroy_started, refs, submitted, dropped, subs, enqueue_pos, store,
                       processed, wpc, env>>
<1> USE DEF flags, life, clients, counters, rings, queue, workers, env, refs, subs, args
<1>1. CASE ShutdownCall(c) \/ ShutdownLoad(c) \/ WaitEnter(c) \/ WaitStopped(c) \/ ShutdownCas(c)
           \/ Quiesced(c) \/ QuiesceResult(c) \/ Drain(c)
  BY <1>1 DEF ShutdownCall, ShutdownLoad, WaitEnter, WaitStopped, ShutdownCas, Quiesced,
              QuiesceResult, Drain
<1>2. CASE CloseRing(c) \/ MarkWorker(c) \/ JoinWorker(c) \/ JoinExited(c) \/ JoinFailed(c)
  BY <1>2 DEF CloseRing, MarkWorker, JoinWorker, JoinExited, JoinFailed
<1>3. CASE JoinDone(c) \/ JoinTimeout(c) \/ JoinLate(c) \/ WriteOff(c) \/ Residual(c)
  BY <1>3 DEF JoinDone, JoinTimeout, JoinLate, WriteOff, Residual
<1>4. CASE ResidualPop(c) \/ Final(c) \/ SetStopped(c) \/ ShutdownReturn(c)
  BY <1>4 DEF ResidualPop, Final, SetStopped, ShutdownReturn
<1> QED
  BY <1>1, <1>2, <1>3, <1>4 DEF ShutdownStep

(* A destroy called from process() only quarantines the pool. *)
LEMMA CallbackFrame ==
    ASSUME NEW w \in Workers, CallbackDestroy(w)
    PROVE  /\ UNCHANGED <<life, clients, rings, workers, callers, env>>
           /\ quarantined' = TRUE /\ shutdown_aborts' = 1
  BY DEF CallbackDestroy, Abort

(* Destroy moves the owner, and may quarantine or end the pool. *)
LEMMA DestroyFrame ==
    ASSUME DestroyCall \/ DestroyStep
    PROVE  UNCHANGED <<lifecycle, shutdown_waiters, shutdown_aborts, clients, rings, workers,
                       locals, supervisor_joined, expired, calls>>
<1> USE DEF flags, life, verdict, env
<1> QED
  BY DEF DestroyCall, DestroyStep, DestroyWait, DestroyRefs, DestroyTimeout, Destroy

(* Time only raises the deadline. *)
LEMMA ExpireFrame ==
    ASSUME Expire
    PROVE  /\ UNCHANGED <<control, clients, rings, workers, supervisor_joined, memory, calls>>
           /\ expired' = TRUE
  BY DEF Expire

(***************************************************************************)
(* The counters.                                                           *)
(***************************************************************************)

(* Sets of threads are finite. *)
LEMMA Finite ==
    /\ \A S \in SUBSET Submitters : IsFiniteSet(S) /\ Cardinality(S) \in Nat
    /\ \A S \in SUBSET Callers : IsFiniteSet(S) /\ Cardinality(S) \in Nat
    /\ \A S \in SUBSET Workers : IsFiniteSet(S) /\ Cardinality(S) \in Nat
<1>1. IsFiniteSet(Submitters) /\ IsFiniteSet(Callers)
  BY PoolAssumption
<1>2. IsFiniteSet(Workers)
  <2>1. 0 \in Int /\ NWorkers - 1 \in Int
    BY PoolAssumption
  <2> QED
    BY <2>1, FS_Interval DEF Workers
<1>3. ASSUME NEW T, IsFiniteSet(T)
      PROVE  \A S \in SUBSET T : IsFiniteSet(S) /\ Cardinality(S) \in Nat
  BY <1>3, FS_Subset, FS_CardinalityType
<1> QED
  BY <1>1, <1>2, <1>3

(* One element enters a finite set, leaves it or stays where it is. *)
LEMMA OneMoves ==
    ASSUME NEW S, NEW T, NEW x, IsFiniteSet(S),
           S \ {x} = T \ {x}
    PROVE  /\ IsFiniteSet(T)
           /\ Cardinality(S) \in Nat
           /\ Cardinality(T) = Cardinality(S) + (IF x \in T THEN 1 ELSE 0)
                                              - (IF x \in S THEN 1 ELSE 0)
<1>0. Cardinality(S) \in Nat
  BY FS_CardinalityType
<1>1. CASE x \in S /\ x \in T
  <2>1. S = T
    BY <1>1
  <2> QED
    BY <2>1, <1>0
<1>2. CASE x \notin S /\ x \notin T
  <2>1. S = T
    BY <1>2
  <2> QED
    BY <2>1, <1>0
<1>3. CASE x \notin S /\ x \in T
  <2>1. T = S \cup {x}
    BY <1>3
  <2> QED
    BY <2>1, <1>0, <1>3, FS_AddElement
<1>4. CASE x \in S /\ x \notin T
  <2>1. T = S \ {x}
    BY <1>4
  <2> QED
    BY <2>1, <1>0, <1>4, FS_RemoveElement
<1> QED
  BY <1>1, <1>2, <1>3, <1>4

RegisteredPC == {"check", "closed", "reserve", "park", "publish", "count", "unregister", "holding"}
OutsidePC    == {"idle", "retry", "kpark"}

(* A submitter moves to another label, and the counters follow. *)
Moves(s, l) ==
    /\ spc' = [spc EXCEPT ![s] = l]
    /\ active_submits' = active_submits + (IF l \in RegisteredPC THEN 1 ELSE 0)
                           - (IF spc[s] \in RegisteredPC THEN 1 ELSE 0)
    /\ api_refs' = api_refs + (IF l \in OutsidePC THEN 0 ELSE 1)
                       - (IF spc[s] \in OutsidePC THEN 0 ELSE 1)

(* Every step of a submit is one of these moves. *)
LEMMA SubmitMoves ==
    ASSUME TypeOK, NEW s \in Submitters, Submitting(s)
    PROVE  \E l \in SubmitPC : Moves(s, l)
<1>0. /\ spc \in [Submitters -> SubmitPC]
      /\ active_submits \in Nat /\ api_refs \in Nat
  BY DEF TypeOK
<1> USE <1>0 DEF SubmitPC, RegisteredPC, OutsidePC, GotoS, refs, Moves
<1>1. CASE \E a \in Apis, w \in Workers : Call(s, a, w)
  BY <1>1 DEF Call
<1>2. CASE SubmitRegister(s)
  BY <1>2 DEF SubmitRegister
<1>3. CASE SubmitCheck(s)
  <2>1. CASE Admitting
    <3>1. Moves(s, "closed")
      BY <1>3, <2>1 DEF SubmitCheck
    <3> QED
      BY <3>1
  <2>2. CASE ~Admitting
    <3>1. Moves(s, "unregister")
      BY <1>3, <2>2 DEF SubmitCheck
    <3> QED
      BY <3>1
  <2> QED
    BY <2>1, <2>2
<1>4. CASE SubmitClosed(s)
  BY <1>4 DEF SubmitClosed
<1>5. CASE SubmitReserve(s)
  BY <1>5 DEF SubmitReserve
<1>6. CASE SubmitUnpark(s)
  BY <1>6 DEF SubmitUnpark
<1>7. CASE Publish(s) \/ Count(s)
  BY <1>7 DEF Publish, Count
<1>8. CASE Unregister(s) \/ Leave(s)
  BY <1>8 DEF Unregister, Leave, LeaveTo
<1>9. CASE ClaimAdmit(s)
  BY <1>9 DEF ClaimAdmit, LeaveTo, Again
<1>10. CASE ClaimClosed(s)
  BY <1>10 DEF ClaimClosed, LeaveTo
<1>11. CASE Claim(s)
  BY <1>11 DEF Claim, LeaveTo, Again
<1>12. CASE ClaimRegister(s)
  <2>1. CASE api[s] = "keyed"
    <3>1. Moves(s, "publish")
      BY <1>12, <2>1 DEF ClaimRegister
    <3> QED
      BY <3>1
  <2>2. CASE api[s] # "keyed"
    <3>1. Moves(s, "holding")
      BY <1>12, <2>2 DEF ClaimRegister
    <3> QED
      BY <3>1
  <2> QED
    BY <2>1, <2>2
<1>13. CASE KeyedRetry(s)
  BY <1>13 DEF KeyedRetry
<1>14. CASE Commit(s)
  BY <1>14 DEF Commit
<1> QED
  BY <1>1, <1>2, <1>3, <1>4, <1>5, <1>6, <1>7, <1>8, <1>9, <1>10, <1>11, <1>12, <1>13, <1>14
     DEF Submitting, SubmitStep

(* The callers that wait for STOPPED are counted: a caller moves. *)
LEMMA ShutdownMoves ==
    ASSUME TypeOK, NEW c \in Callers, ShutdownCall(c) \/ ShutdownStep(c)
    PROVE  \E l \in CallerPC :
              /\ cpc' = [cpc EXCEPT ![c] = l]
              /\ shutdown_waiters' = shutdown_waiters + (IF l = "waiting" THEN 1 ELSE 0)
                                       - (IF cpc[c] = "waiting" THEN 1 ELSE 0)
<1>0. cpc \in [Callers -> CallerPC] /\ shutdown_waiters \in Nat
  BY DEF TypeOK
<1> USE <1>0 DEF CallerPC, GotoC, flags, life, NextWorker, AfterShutdown, Quarantine
<1>1. CASE ShutdownCall(c) \/ ShutdownLoad(c)
  BY <1>1 DEF ShutdownCall, ShutdownLoad
<1>2. CASE WaitEnter(c) \/ WaitStopped(c)
  BY <1>2 DEF WaitEnter, WaitStopped
<1>3. CASE ShutdownCas(c) \/ Quiesced(c) \/ QuiesceResult(c) \/ Drain(c)
  BY <1>3 DEF ShutdownCas, Quiesced, QuiesceResult, Drain
<1>4. CASE CloseRing(c) \/ MarkWorker(c)
  BY <1>4 DEF CloseRing, MarkWorker
<1>5. CASE JoinWorker(c)
  BY <1>5 DEF JoinWorker
<1>6. CASE JoinExited(c) \/ JoinFailed(c) \/ JoinDone(c) \/ JoinTimeout(c)
  BY <1>6 DEF JoinExited, JoinFailed, JoinDone, JoinTimeout
<1>7. CASE JoinLate(c) \/ WriteOff(c) \/ Residual(c) \/ ResidualPop(c)
  BY <1>7 DEF JoinLate, WriteOff, Residual, ResidualPop
<1>8. CASE Final(c) \/ SetStopped(c)
  <2>1. UNCHANGED shutdown_waiters /\ cpc[c] # "waiting"
    BY <1>8 DEF Final, SetStopped
  <2>2. GotoC(c, "stop") \/ GotoC(c, "epilogue")
    BY <1>8 DEF Final, SetStopped
  <2> QED
    BY <2>1, <2>2
<1>9. CASE ShutdownReturn(c)
  <2>1. UNCHANGED shutdown_waiters /\ cpc[c] # "waiting"
    BY <1>9 DEF ShutdownReturn
  <2>2. GotoC(c, "dwait") \/ GotoC(c, "returned")
    BY <1>9 DEF ShutdownReturn
  <2> QED
    BY <2>1, <2>2
<1> QED
  BY <1>1, <1>2, <1>3, <1>4, <1>5, <1>6, <1>7, <1>8, <1>9 DEF ShutdownStep

(* Destroy moves the owner, from outside or along its own labels. *)
LEMMA DestroyMoves ==
    ASSUME TypeOK, DestroyCall \/ DestroyStep
    PROVE  \E l \in {"load", "dwait", "drefs", "dcheck", "gone"} :
              /\ cpc[Owner] \in {"idle", "returned", "dwait", "drefs", "dcheck"}
              /\ cpc' = [cpc EXCEPT ![Owner] = l]
  BY DEF TypeOK, GotoC, DestroyCall, DestroyStep, DestroyWait, DestroyRefs, DestroyTimeout, Destroy

(* A move of one submitter keeps active_submits and api_refs exact. *)
LEMMA MovesCounted ==
    ASSUME TypeOK, RefsCounted, NEW s \in Submitters, NEW l \in SubmitPC, Moves(s, l)
    PROVE  RefsCounted'
<1>0. spc \in [Submitters -> SubmitPC]
  BY DEF TypeOK
<1>1. /\ Registered \ {s} = Registered' \ {s}
      /\ s \in Registered <=> spc[s] \in RegisteredPC
      /\ s \in Registered' <=> l \in RegisteredPC
  BY <1>0 DEF Moves, Registered, RegisteredPC
<1>2. /\ Inside \ {s} = Inside' \ {s}
      /\ s \in Inside <=> spc[s] \notin OutsidePC
      /\ s \in Inside' <=> l \notin OutsidePC
  BY <1>0 DEF Moves, Inside, OutsidePC
<1>3. IsFiniteSet(Registered) /\ IsFiniteSet(Inside)
  BY Finite DEF Registered, Inside
<1>4. Cardinality(Registered') = Cardinality(Registered) + (IF s \in Registered' THEN 1 ELSE 0)
                                                         - (IF s \in Registered THEN 1 ELSE 0)
  BY <1>1, <1>3, OneMoves
<1>5. Cardinality(Inside') = Cardinality(Inside) + (IF s \in Inside' THEN 1 ELSE 0)
                                                 - (IF s \in Inside THEN 1 ELSE 0)
  BY <1>2, <1>3, OneMoves
<1>6. active_submits' = Cardinality(Registered')
  BY <1>1, <1>4 DEF Moves, RefsCounted
<1>7. api_refs' = Cardinality(Inside')
  <2>1. api_refs' = api_refs + (IF l \in OutsidePC THEN 0 ELSE 1)
                             - (IF spc[s] \in OutsidePC THEN 0 ELSE 1)
    BY DEF Moves
  <2> QED
    BY <2>1, <1>2, <1>5 DEF RefsCounted
<1> QED
  BY <1>6, <1>7 DEF RefsCounted

(* Every step keeps the three counters exact. *)
LEMMA CountedStep ==
    ASSUME TypeOK, Counted, [Next]_vars
    PROVE  Counted'
<1>1. ASSUME NEW s \in Submitters, Submitting(s)
      PROVE  Counted'
  <2>1. RefsCounted'
    BY <1>1, SubmitMoves, MovesCounted DEF Counted
  <2>2. UNCHANGED <<shutdown_waiters, cpc>>
    BY <1>1, SubmitFrame DEF control, flags, life, callers
  <2> QED
    BY <2>1, <2>2 DEF Counted, Waiting
<1>2. ASSUME NEW c \in Callers, ShutdownCall(c) \/ ShutdownStep(c)
      PROVE  Counted'
  <2>1. RefsCounted'
    BY <1>2, ShutdownFrame DEF Counted, RefsCounted, refs, subs, Registered, Inside
  <2>2. PICK l \in CallerPC :
              /\ cpc' = [cpc EXCEPT ![c] = l]
              /\ shutdown_waiters' = shutdown_waiters + (IF l = "waiting" THEN 1 ELSE 0)
                                       - (IF cpc[c] = "waiting" THEN 1 ELSE 0)
    BY <1>2, ShutdownMoves
  <2>3. /\ Waiting \ {c} = Waiting' \ {c}
        /\ c \in Waiting <=> cpc[c] = "waiting"
        /\ c \in Waiting' <=> l = "waiting"
    BY <2>2 DEF TypeOK, Waiting
  <2>4. IsFiniteSet(Waiting)
    BY Finite DEF Waiting
  <2>5. Cardinality(Waiting') = Cardinality(Waiting) + (IF c \in Waiting' THEN 1 ELSE 0)
                                                     - (IF c \in Waiting THEN 1 ELSE 0)
    BY <2>3, <2>4, OneMoves
  <2> QED
    BY <2>1, <2>2, <2>3, <2>5 DEF Counted
<1>3. ASSUME DestroyCall \/ DestroyStep
      PROVE  Counted'
  <2>1. RefsCounted'
    BY <1>3, DestroyFrame DEF Counted, RefsCounted, clients, refs, subs, Registered, Inside
  <2>2. UNCHANGED shutdown_waiters /\ Waiting' = Waiting
    BY <1>3, DestroyFrame, DestroyMoves DEF Waiting, TypeOK
  <2> QED
    BY <2>1, <2>2 DEF Counted
<1>4. ASSUME \/ UNCHANGED vars \/ Expire
             \/ \E w \in Workers : Working(w) \/ CallbackDestroy(w)
      PROVE  Counted'
  <2>1. UNCHANGED <<refs, subs, cpc, shutdown_waiters>>
    BY <1>4, WorkFrame, CallbackFrame, ExpireFrame DEF vars, control, flags, life, callers, clients
  <2> QED
    BY <2>1 DEF Counted, RefsCounted, Waiting, Registered, Inside, refs, subs
<1> QED
  BY <1>1, <1>2, <1>3, <1>4, Kinds

(***************************************************************************)
(* Types.                                                                  *)
(***************************************************************************)

(* The parts of the type invariant that each kind of thread can disturb;   *)
(* the counters, which are also decremented, are natural because they      *)
(* count a finite set.                                                     *)
CountType == active_submits \in Nat /\ api_refs \in Nat /\ shutdown_waiters \in Nat
SubmitType ==
    /\ submitted \in Nat /\ dropped \in Nat
    /\ enqueue_pos \in [Workers -> Nat]
    /\ ready \in [Workers -> SUBSET Nat]
    /\ store \in [Workers -> [0 .. Capacity - 1 -> Nat \cup {NoFrame}]]
    /\ api \in [Submitters -> Apis \cup {"none"}]
    /\ shard \in [Submitters -> Workers]
    /\ spos \in [Submitters -> Nat]
    /\ calls \in 0 .. MaxCalls
WorkType ==
    /\ dequeue_pos \in [Workers -> Nat]
    /\ ready \in [Workers -> SUBSET Nat]
    /\ state \in [Workers -> {"STARTING", "RUNNING", "EXITED", "JOINED", "QUARANTINED"}]
    /\ processed \in [Workers -> Nat]
    /\ wpc \in [Workers -> {"start", "loop", "pop", "process", "exit", "ended"}]
ShutdownType ==
    /\ lifecycle \in {"RUNNING", "QUIESCING", "DRAINING", "STOPPED"}
    /\ quarantined \in BOOLEAN /\ shutdown_aborts \in {0, 1}
    /\ abandoned \in Nat
    /\ dequeue_pos \in [Workers -> Nat]
    /\ ready \in [Workers -> SUBSET Nat]
    /\ closed \in [Workers -> BOOLEAN]
    /\ state \in [Workers -> {"STARTING", "RUNNING", "EXITED", "JOINED", "QUARANTINED"}]
    /\ stop \in [Workers -> BOOLEAN] /\ joined \in [Workers -> BOOLEAN]
    /\ result \in [Callers -> {"none", "clean", "late"}]
    /\ widx \in Workers /\ can_close \in BOOLEAN

(* An exact counter is a natural number. *)
LEMMA CountTyped ==
    ASSUME Counted
    PROVE  CountType
<1>1. /\ Registered \in SUBSET Submitters /\ Inside \in SUBSET Submitters
      /\ Waiting \in SUBSET Callers
  BY DEF Registered, Inside, Waiting
<1> QED
  BY <1>1, Finite DEF Counted, RefsCounted, CountType

(* What a submitter writes has its type: a position taken from the ring's  *)
(* tail, a slot of the ring's storage, a counter that only grows.          *)
LEMMA SubmitTyped ==
    ASSUME TypeOK, NEW s \in Submitters, Submitting(s)
    PROVE  SubmitType'
<1> USE DEF TypeOK, SubmitType, counters, rings, queue, args, env
<1>0. NWorkers \in Nat \ {0} /\ Capacity \in Nat \ {0, 1} /\ MaxCalls \in Nat
  BY PoolAssumption
<1>z. 0 \in Workers
  BY <1>0 DEF Workers
<1>1. ASSUME NEW a \in Apis, NEW w \in Workers, Call(s, a, w)
      PROVE  SubmitType'
  BY <1>1, <1>0 DEF Call
<1>2. CASE SubmitRegister(s) \/ SubmitCheck(s) \/ SubmitUnpark(s) \/ Unregister(s)
           \/ ClaimRegister(s) \/ Commit(s) \/ KeyedRetry(s)
  BY <1>2 DEF SubmitRegister, SubmitCheck, SubmitUnpark, Unregister, ClaimRegister, Commit, KeyedRetry
<1>3. CASE SubmitClosed(s)
  BY <1>3 DEF SubmitClosed
<1>c. CASE Count(s)
  BY <1>c DEF Count
<1>t. ASSUME TakePosition(s)
      PROVE  enqueue_pos' \in [Workers -> Nat] /\ spos' \in [Submitters -> Nat]
  <2>1. shard[s] \in Workers /\ enqueue_pos[shard[s]] \in Nat /\ enqueue_pos[shard[s]] + 1 \in Nat
    OBVIOUS
  <2> QED
    BY <1>t, <2>1 DEF TakePosition
<1>l. ASSUME NEW l, LeaveTo(s, l)
      PROVE  /\ api' \in [Submitters -> Apis \cup {"none"}]
             /\ shard' \in [Submitters -> Workers]
             /\ spos' \in [Submitters -> Nat]
  <2>1. CASE l = "idle"
    <3>1. /\ api' = [api EXCEPT ![s] = "none"] /\ shard' = [shard EXCEPT ![s] = 0]
          /\ spos' = [spos EXCEPT ![s] = 0]
      BY <1>l, <2>1 DEF LeaveTo
    <3> QED
      BY <3>1, <1>z
  <2>2. CASE l # "idle"
    BY <1>l, <2>2 DEF LeaveTo
  <2> QED
    BY <2>1, <2>2
<1>4. CASE SubmitReserve(s)
  BY <1>4, <1>t DEF SubmitReserve
<1>5. CASE Publish(s)
  <2>1. Slot(spos[s]) \in 0 .. Capacity - 1
    BY <1>0 DEF Slot
  <2> QED
    BY <1>5, <2>1 DEF Publish
<1>6. CASE Leave(s) \/ ClaimAdmit(s) \/ ClaimClosed(s)
  <2>1. UNCHANGED args \/ \E l \in SubmitPC : LeaveTo(s, l)
    BY <1>6 DEF Leave, ClaimAdmit, ClaimClosed, Again, SubmitPC
  <2>2. UNCHANGED <<counters, rings, env>>
    BY <1>6 DEF Leave, ClaimAdmit, ClaimClosed
  <2> QED
    BY <2>1, <2>2, <1>l
<1>7. CASE Claim(s)
  <2>1. \/ TakePosition(s) /\ UNCHANGED <<api, shard>>
        \/ UNCHANGED enqueue_pos /\ \E l \in SubmitPC : LeaveTo(s, l)
    BY <1>7 DEF Claim, Again, SubmitPC
  <2>2. UNCHANGED <<counters, dequeue_pos, ready, store, closed, env>>
    BY <1>7 DEF Claim
  <2> QED
    BY <2>1, <2>2, <1>t, <1>l
<1> QED
  BY <1>1, <1>2, <1>3, <1>c, <1>4, <1>5, <1>6, <1>7 DEF Submitting, SubmitStep

(* What a worker writes has its type. *)
LEMMA WorkTyped ==
    ASSUME TypeOK, NEW w \in Workers, Working(w)
    PROVE  WorkType'
<1> USE DEF TypeOK, WorkType, rings, queue, GotoW
<1>1. CASE WorkerStart(w)
  BY <1>1 DEF WorkerStart
<1>6. CASE WorkerExit(w)
  BY <1>6 DEF WorkerExit
<1>5. CASE WorkerDrained(w)
  BY <1>5 DEF WorkerDrained
<1>4. CASE WorkerLoop(w)
  <2>1. GotoW(w, "exit") \/ GotoW(w, "pop")
    BY <1>4 DEF WorkerLoop
  <2>2. UNCHANGED <<rings, state, processed>>
    BY <1>4 DEF WorkerLoop
  <2> QED
    BY <2>1, <2>2
<1>2. CASE WorkerPop(w)
  BY <1>2 DEF WorkerPop
<1>3. CASE WorkerProcessed(w)
  BY <1>3 DEF WorkerProcessed
<1> QED
  BY <1>1, <1>2, <1>3, <1>4, <1>5, <1>6 DEF Working, WorkerStep

(* What a shutdown writes has its type: the loop's index stays a worker. *)
LEMMA ShutdownTyped ==
    ASSUME TypeOK, NEW c \in Callers, ShutdownCall(c) \/ ShutdownStep(c)
    PROVE  ShutdownType'
<1> USE DEF TypeOK, ShutdownType, flags, life, verdict, clients, counters, rings, queue, workers,
            locals, Sample, NextWorker, Abort, Quarantine
<1>0. NWorkers \in Nat \ {0}
  BY PoolAssumption
<1>n. 0 \in Workers /\ (widx + 1 < NWorkers => widx + 1 \in Workers)
  BY <1>0 DEF Workers
<1>1. CASE ShutdownCall(c) \/ ShutdownLoad(c) \/ WaitEnter(c) \/ WaitStopped(c) \/ ShutdownCas(c)
           \/ Quiesced(c)
  BY <1>1 DEF ShutdownCall, ShutdownLoad, WaitEnter, WaitStopped, ShutdownCas, Quiesced
<1>2. CASE QuiesceResult(c) \/ Drain(c)
  BY <1>2, <1>n DEF QuiesceResult, Drain
<1>3. CASE CloseRing(c)
  BY <1>3, <1>n DEF CloseRing
<1>4. CASE MarkWorker(c)
  BY <1>4, <1>n DEF MarkWorker
<1>5. CASE JoinWorker(c) \/ JoinExited(c) \/ JoinFailed(c)
  BY <1>5 DEF JoinWorker, JoinExited, JoinFailed
<1>6. CASE JoinDone(c)
  BY <1>6 DEF JoinDone
<1>d. CASE JoinTimeout(c)
  BY <1>d DEF JoinTimeout
<1>l. CASE JoinLate(c)
  BY <1>l DEF JoinLate
<1>w. CASE WriteOff(c)
  BY <1>w DEF WriteOff
<1>7. CASE Residual(c)
  BY <1>7, <1>n DEF Residual
<1>8. CASE ResidualPop(c)
  <2>1. abandoned' \in Nat /\ dequeue_pos' \in [Workers -> Nat] /\ ready' \in [Workers -> SUBSET Nat]
    <3>1. CASE HeadReady(widx)
      <4>1. /\ dequeue_pos' = [dequeue_pos EXCEPT ![widx] = @ + 1]
            /\ ready' = [ready EXCEPT ![widx] = @ \ {dequeue_pos[widx]}]
            /\ abandoned' = abandoned + 1
        BY <1>8, <3>1 DEF ResidualPop
      <4> QED
        BY <4>1
    <3>2. CASE ~HeadReady(widx)
      BY <1>8, <3>2 DEF ResidualPop
    <3> QED
      BY <3>1, <3>2
  <2>2. widx' \in Workers
    BY <1>8, <1>n DEF ResidualPop
  <2>3. UNCHANGED <<flags, closed, workers, result, can_close>>
    BY <1>8 DEF ResidualPop
  <2> QED
    BY <2>1, <2>2, <2>3
<1>9. CASE Final(c)
  BY <1>9 DEF Final
<1>10. CASE SetStopped(c) \/ ShutdownReturn(c)
  BY <1>10 DEF SetStopped, ShutdownReturn
<1> QED
  BY <1>1, <1>2, <1>3, <1>4, <1>5, <1>6, <1>d, <1>l, <1>w, <1>7, <1>8, <1>9, <1>10
  DEF ShutdownStep

(* Every step keeps the types. *)
LEMMA TypeStep ==
    ASSUME TypeOK, Counted, [Next]_vars
    PROVE  TypeOK'
<1>0. CountType'
  <2>1. Counted'
    BY CountedStep
  <2>2. /\ Registered' \in SUBSET Submitters /\ Inside' \in SUBSET Submitters
        /\ Waiting' \in SUBSET Callers
    BY DEF Registered, Inside, Waiting
  <2> QED
    BY <2>1, <2>2, Finite DEF Counted, RefsCounted, CountType
<1> USE <1>0 DEF TypeOK, CountType
<1>1. ASSUME NEW s \in Submitters, Submitting(s)
      PROVE  TypeOK'
  <2>1. SubmitType'
    BY <1>1, SubmitTyped
  <2>2. spc' \in [Submitters -> SubmitPC]
    BY <1>1, SubmitMoves DEF Moves
  <2>3. UNCHANGED <<control, abandoned, dequeue_pos, closed, workers, supervisor_joined,
                    expired, memory>>
    BY <1>1, SubmitFrame
  <2>4. /\ UNCHANGED <<lifecycle, shutdown_aborts, quarantined, destroy_started, cpc, result, widx,
                       can_close>>
        /\ UNCHANGED <<state, stop, joined, processed, wpc>>
    <3> HIDE <1>0 DEF TypeOK, CountType
    <3> QED
      BY <2>3 DEF control, flags, life, verdict, callers, locals, workers
  <2>5. UNCHANGED <<abandoned, dequeue_pos, closed, supervisor_joined, expired, memory>>
    BY <2>3
  <2>6. (/\ lifecycle \in {"RUNNING", "QUIESCING", "DRAINING", "STOPPED"} /\ shutdown_aborts \in {0, 1}
         /\ quarantined \in BOOLEAN /\ destroy_started \in BOOLEAN /\ cpc \in [Callers -> CallerPC]
         /\ result \in [Callers -> {"none", "clean", "late"}] /\ widx \in Workers
         /\ can_close \in BOOLEAN)'
    BY <2>4
  <2>7. (/\ state \in [Workers -> {"STARTING", "RUNNING", "EXITED", "JOINED", "QUARANTINED"}]
         /\ stop \in [Workers -> BOOLEAN] /\ joined \in [Workers -> BOOLEAN]
         /\ processed \in [Workers -> Nat]
         /\ wpc \in [Workers -> {"start", "loop", "pop", "process", "exit", "ended"}])'
    BY <2>4
  <2>8. (/\ abandoned \in Nat /\ dequeue_pos \in [Workers -> Nat] /\ closed \in [Workers -> BOOLEAN]
         /\ supervisor_joined \in BOOLEAN /\ expired \in BOOLEAN
         /\ memory \in {"live", "freed", "leaked"})'
    BY <2>5
  <2> QED
    BY ZenonT(30), <2>1, <2>2, <2>6, <2>7, <2>8 DEF SubmitType
<1>2. ASSUME NEW w \in Workers, Working(w)
      PROVE  TypeOK'
  <2>1. WorkType'
    BY <1>2, WorkTyped
  <2>2. UNCHANGED <<control, clients, enqueue_pos, store, closed, stop, joined, env>>
    BY <1>2, WorkFrame
  <2> QED
    BY SMTT(30), <2>1, <2>2 DEF WorkType, control, flags, life, verdict, callers, locals, clients, counters,
                      subs, args, env
<1>3. ASSUME NEW c \in Callers, ShutdownCall(c) \/ ShutdownStep(c)
      PROVE  TypeOK'
  <2>1. ShutdownType'
    BY <1>3, ShutdownTyped
  <2>2. cpc' \in [Callers -> CallerPC]
    BY <1>3, ShutdownMoves
  <2>3. UNCHANGED <<destroy_started, refs, submitted, dropped, subs, enqueue_pos, store,
                    processed, wpc, env>>
    BY <1>3, ShutdownFrame
  <2> QED
    BY SMTT(30), <2>1, <2>2, <2>3 DEF ShutdownType, subs, args, env
<1>4. ASSUME DestroyCall \/ DestroyStep
      PROVE  TypeOK'
  <2>1. UNCHANGED <<lifecycle, shutdown_aborts, clients, rings, workers, locals,
                    supervisor_joined, expired, calls>>
    BY <1>4, DestroyFrame
  <2>2. cpc' \in [Callers -> CallerPC]
    <3>1. PICK l \in {"load", "dwait", "drefs", "dcheck", "gone"} : cpc' = [cpc EXCEPT ![Owner] = l]
      BY ZenonT(30), <1>4, DestroyMoves
    <3>2. l \in CallerPC
      BY DEF CallerPC
    <3> QED
      BY <3>1, <3>2
  <2>3. quarantined' \in BOOLEAN /\ destroy_started' \in BOOLEAN
        /\ memory' \in {"live", "freed", "leaked"}
    BY <1>4 DEF DestroyCall, DestroyStep, DestroyWait, DestroyRefs, DestroyTimeout, Destroy,
                flags, life, verdict, env
  <2> QED
    BY SMTT(30), <2>1, <2>2, <2>3 DEF clients, counters, subs, args, rings, queue, workers, locals
<1>5. ASSUME NEW w \in Workers, CallbackDestroy(w)
      PROVE  TypeOK'
  BY ZenonT(30), <1>5, CallbackFrame
     DEF life, clients, counters, subs, args, rings, queue, workers, callers, locals, env
<1>6. ASSUME Expire
      PROVE  TypeOK'
  BY SMTT(30), <1>6, ExpireFrame
     DEF control, flags, life, verdict, callers, locals, clients, counters, subs, args, rings,
         queue, workers
<1>7. ASSUME UNCHANGED vars
      PROVE  TypeOK'
  BY <1>7 DEF vars, flags, life, verdict, counters, rings, queue, workers, subs, args, callers,
              locals, env
<1> QED
  BY <1>1, <1>2, <1>3, <1>4, <1>5, <1>6, <1>7, Kinds

(***************************************************************************)
(* Who does the work of shutdown, and how far it has got.                  *)
(***************************************************************************)

(* How a step of shutdown moves its caller, and the lifecycle with it. *)
Phase(c, l) ==
    \/ /\ cpc[c] \notin Quiescer \cup Drainer /\ l \notin Quiescer \cup Drainer \cup {"epilogue"}
       /\ lifecycle' = lifecycle
    \/ cpc[c] = "cas" /\ l = "quiesce" /\ lifecycle = "RUNNING" /\ lifecycle' = "QUIESCING"
    \/ cpc[c] \in Quiescer /\ l \in Quiescer /\ lifecycle' = lifecycle
    \/ cpc[c] = "drain" /\ l \in {"supwait", "close"} /\ lifecycle' = "DRAINING"
    \/ cpc[c] \in Drainer /\ l \in Drainer /\ lifecycle' = lifecycle
    \/ cpc[c] = "stop" /\ l = "epilogue" /\ lifecycle' = "STOPPED"

(* Only the caller that wins the compare-and-swap goes through the phases. *)
LEMMA Phases ==
    ASSUME TypeOK, NEW c \in Callers, ShutdownCall(c) \/ ShutdownStep(c)
    PROVE  \E l \in CallerPC : cpc' = [cpc EXCEPT ![c] = l] /\ Phase(c, l)
<1>0. ASSUME NEW l \in CallerPC, GotoC(c, l), Phase(c, l)
      PROVE  \E m \in CallerPC : cpc' = [cpc EXCEPT ![c] = m] /\ Phase(c, m)
  BY <1>0 DEF GotoC
<1> USE DEF CallerPC, flags, life, NextWorker, AfterShutdown, Quarantine
<1>s. SUFFICES \E l \in CallerPC : GotoC(c, l) /\ Phase(c, l)
  BY <1>0
<1> USE DEF Phase, Quiescer, Drainer, Joining
<1>1. CASE ShutdownCall(c) \/ ShutdownLoad(c)
  BY <1>1 DEF ShutdownCall, ShutdownLoad
<1>2. CASE WaitEnter(c) \/ WaitStopped(c)
  BY <1>2 DEF WaitEnter, WaitStopped
<1>3. CASE ShutdownCas(c)
  BY <1>3 DEF ShutdownCas
<1>4. CASE Quiesced(c) \/ QuiesceResult(c) \/ Drain(c)
  BY <1>4 DEF Quiesced, QuiesceResult, Drain
<1>5. CASE CloseRing(c)
  BY <1>5 DEF CloseRing
<1>6. CASE MarkWorker(c)
  BY <1>6 DEF MarkWorker
<1>7. CASE JoinWorker(c)
  BY <1>7 DEF JoinWorker
<1>8. CASE JoinExited(c) \/ JoinFailed(c) \/ JoinDone(c) \/ JoinTimeout(c)
  BY <1>8 DEF JoinExited, JoinFailed, JoinDone, JoinTimeout
<1>9. CASE JoinLate(c) \/ WriteOff(c)
  BY <1>9 DEF JoinLate, WriteOff
<1>10. CASE Residual(c) \/ ResidualPop(c)
  BY <1>10 DEF Residual, ResidualPop
<1>11. CASE Final(c) \/ SetStopped(c)
  BY <1>11 DEF Final, SetStopped
<1>12. CASE ShutdownReturn(c)
  BY <1>12 DEF ShutdownReturn
<1> QED
  BY <1>1, <1>2, <1>3, <1>4, <1>5, <1>6, <1>7, <1>8, <1>9, <1>10, <1>11, <1>12 DEF ShutdownStep

(* Nothing but a shutdown moves a caller into or along these phases. *)
LEMMA DriverStep ==
    ASSUME TypeOK, DriverInv, [Next]_vars
    PROVE  DriverInv'
<1>1. ASSUME NEW c \in Callers, ShutdownCall(c) \/ ShutdownStep(c)
      PROVE  DriverInv'
  <2>1. PICK l \in CallerPC : cpc' = [cpc EXCEPT ![c] = l] /\ Phase(c, l)
    BY <1>1, Phases
  <2>2. cpc'[c] = l /\ \A d \in Callers \ {c} : cpc'[d] = cpc[d]
    BY <2>1 DEF TypeOK
  <2>3. CASE cpc[c] \in Quiescer \cup Drainer
    <3>1. \A d \in Callers \ {c} : cpc[d] \notin Quiescer \cup Drainer
      BY <2>3 DEF DriverInv
    <3> QED
      BY <2>1, <2>2, <2>3, <3>1 DEF DriverInv, Phase, Quiescer, Drainer, Joining
  <2>4. CASE cpc[c] = "cas" /\ l = "quiesce" /\ lifecycle = "RUNNING" /\ lifecycle' = "QUIESCING"
    <3>1. \A d \in Callers \ {c} : cpc[d] \notin Quiescer \cup Drainer
      BY <2>4 DEF DriverInv
    <3> QED
      BY <2>4, <2>2, <3>1 DEF DriverInv, Quiescer, Drainer, Joining
  <2>5. CASE l \notin Quiescer \cup Drainer \cup {"epilogue"} /\ lifecycle' = lifecycle
    BY <2>5, <2>2 DEF DriverInv
  <2> QED
    BY <2>1, <2>3, <2>4, <2>5 DEF Phase, Quiescer, Drainer
<1>2. ASSUME DestroyCall \/ DestroyStep
      PROVE  DriverInv'
  <2>1. lifecycle' = lifecycle
    BY <1>2, DestroyFrame
  <2>2. cpc'[Owner] \notin Quiescer \cup Drainer \cup {"epilogue"} /\ \A d \in Callers \ {Owner} : cpc'[d] = cpc[d]
    BY <1>2, DestroyMoves, PoolAssumption DEF TypeOK, Quiescer, Drainer, Joining
  <2> QED
    BY <2>1, <2>2 DEF DriverInv
<1>3. ASSUME \/ UNCHANGED vars \/ Expire
             \/ \E w \in Workers : Working(w) \/ CallbackDestroy(w)
             \/ \E s \in Submitters : Submitting(s)
      PROVE  DriverInv'
  <2>1. UNCHANGED <<cpc, lifecycle>>
    BY <1>3, WorkFrame, CallbackFrame, ExpireFrame, SubmitFrame
       DEF vars, control, flags, life, callers
  <2> QED
    BY <2>1 DEF DriverInv
<1> QED
  BY <1>1, <1>2, <1>3, Kinds

(* A worker that is joined, or says that it has exited, has ended: it says *)
(* so in its last step, and only shutdown joins it, having seen it end.    *)
LEMMA EndedStep ==
    ASSUME TypeOK, EndedInv, [Next]_vars
    PROVE  EndedInv'
<1>1. ASSUME NEW c \in Callers, ShutdownCall(c) \/ ShutdownStep(c)
      PROVE  EndedInv'
  <2>1. wpc' = wpc
    BY <1>1, ShutdownFrame
  <2>2. \/ UNCHANGED <<joined, state>>
        \/ joined' = joined /\ state' = [state EXCEPT ![widx] = "QUARANTINED"]
        \/ /\ wpc[widx] = "ended"
           /\ joined' = [joined EXCEPT ![widx] = TRUE]
           /\ state' = [state EXCEPT ![widx] = "JOINED"]
    <3> USE DEF workers, Quarantine
    <3>1. CASE ShutdownCall(c) \/ ShutdownLoad(c) \/ WaitEnter(c) \/ WaitStopped(c) \/ ShutdownCas(c)
               \/ Quiesced(c) \/ QuiesceResult(c) \/ Drain(c) \/ CloseRing(c) \/ MarkWorker(c)
      BY <3>1 DEF ShutdownCall, ShutdownLoad, WaitEnter, WaitStopped, ShutdownCas, Quiesced,
                  QuiesceResult, Drain, CloseRing, MarkWorker
    <3>2. CASE JoinWorker(c) \/ JoinExited(c) \/ JoinFailed(c) \/ JoinDone(c) \/ JoinTimeout(c)
      BY <3>2 DEF JoinWorker, JoinExited, JoinFailed, JoinDone, JoinTimeout
    <3>3. CASE JoinLate(c) \/ WriteOff(c) \/ Residual(c) \/ ResidualPop(c) \/ Final(c)
               \/ SetStopped(c) \/ ShutdownReturn(c)
      BY <3>3 DEF JoinLate, WriteOff, Residual, ResidualPop, Final, SetStopped, ShutdownReturn
    <3> QED
      BY <1>1, <3>1, <3>2, <3>3 DEF ShutdownStep
  <2> QED
    BY <2>1, <2>2 DEF TypeOK, EndedInv
<1>2. ASSUME NEW w \in Workers, Working(w)
      PROVE  EndedInv'
  <2>1. joined' = joined
    BY <1>2, WorkFrame
  <2>2. CASE WorkerStart(w) \/ WorkerExit(w)
    BY <2>1, <2>2 DEF WorkerStart, WorkerExit, GotoW, TypeOK, EndedInv
  <2>3. CASE WorkerLoop(w) \/ WorkerPop(w) \/ WorkerDrained(w) \/ WorkerProcessed(w)
    <3>1. /\ state' = state
          /\ wpc[w] # "ended" /\ \A v \in Workers \ {w} : wpc'[v] = wpc[v]
      BY <2>3 DEF WorkerLoop, WorkerPop, WorkerDrained, WorkerProcessed, GotoW, TypeOK
    <3> QED
      BY <2>1, <3>1 DEF EndedInv
  <2> QED
    BY <1>2, <2>2, <2>3 DEF Working, WorkerStep
<1>3. ASSUME \/ UNCHANGED vars \/ Expire \/ DestroyCall \/ DestroyStep
             \/ \E w \in Workers : CallbackDestroy(w)
             \/ \E s \in Submitters : Submitting(s)
      PROVE  EndedInv'
  <2>1. UNCHANGED workers
    BY <1>3, CallbackFrame, ExpireFrame, SubmitFrame, DestroyFrame DEF vars
  <2> QED
    BY <2>1 DEF EndedInv, workers
<1> QED
  BY <1>1, <1>2, <1>3, Kinds

(***************************************************************************)
(* Joining the workers.                                                    *)
(***************************************************************************)

(* A caller that does not do the work changes nothing that the invariants  *)
(* of the one that does look at.                                           *)
LEMMA Bystander ==
    ASSUME TypeOK, NEW c \in Callers, ShutdownCall(c) \/ ShutdownStep(c),
           cpc[c] \notin Quiescer \cup Drainer
    PROVE  /\ UNCHANGED <<verdict, abandoned, rings, workers, widx, can_close>>
           /\ cpc'[c] \in (CallerPC \ (Quiescer \cup Drainer)) \cup {"quiesce"}
           /\ \A d \in Callers \ {c} : cpc'[d] = cpc[d]
<1>1. PICK l \in CallerPC : cpc' = [cpc EXCEPT ![c] = l] /\ Phase(c, l)
  BY Phases
<1>2. /\ cpc'[c] \in (CallerPC \ (Quiescer \cup Drainer)) \cup {"quiesce"}
      /\ \A d \in Callers \ {c} : cpc'[d] = cpc[d]
  BY <1>1 DEF Phase, TypeOK, Quiescer, Drainer
<1>3. ShutdownCall(c) \/ ShutdownLoad(c) \/ WaitEnter(c) \/ WaitStopped(c) \/ ShutdownCas(c)
      \/ ShutdownReturn(c)
  BY DEF ShutdownStep, Quiescer, Drainer, Joining, Quiesced, QuiesceResult, Drain, CloseRing,
         MarkWorker, JoinWorker, JoinExited, JoinFailed, JoinDone, JoinTimeout, JoinLate, WriteOff,
         Residual, ResidualPop, Final, SetStopped
<1>4. UNCHANGED <<verdict, abandoned, rings, workers, widx, can_close>>
  BY <1>3 DEF ShutdownCall, ShutdownLoad, WaitEnter, WaitStopped, ShutdownCas, ShutdownReturn,
              flags, clients, counters, locals
<1> QED
  BY <1>2, <1>4

(* A worker that is written off while the workers are joined is not about  *)
(* to start; a ring is drained only when its worker has ended.             *)
LEMMA JoinStep ==
    ASSUME TypeOK, DriverInv, EndedInv, JoinInv, [Next]_vars
    PROVE  JoinInv'
<1>1. ASSUME NEW c \in Callers, ShutdownCall(c) \/ ShutdownStep(c)
      PROVE  JoinInv'
  <2>0. wpc' = wpc /\ expired' = expired
    BY <1>1, ShutdownFrame DEF env
  <2>1. CASE cpc[c] \notin Quiescer \cup Drainer
    <3>1. /\ UNCHANGED <<state, widx, can_close>>
          /\ cpc'[c] \in (CallerPC \ (Quiescer \cup Drainer)) \cup {"quiesce"}
          /\ \A d \in Callers \ {c} : cpc'[d] = cpc[d]
      BY <1>1, <2>1, Bystander DEF workers
    <3> QED
      BY <2>0, <3>1 DEF JoinInv, JoinAt, Quiescer, Drainer, Joining
  <2>2. CASE cpc[c] \in Quiescer \cup Drainer
    <3>1. \A d \in Callers \ {c} : cpc[d] \notin Quiescer \cup Drainer
      BY <2>2 DEF DriverInv
    <3>2. \A d \in Callers \ {c} : cpc'[d] = cpc[d]
      BY <1>1, ShutdownMoves DEF TypeOK
    <3>3. \A d \in Callers \ {c} : JoinAt(d)'
      BY <3>1, <3>2 DEF JoinAt, Quiescer, Drainer, Joining
    <3> SUFFICES /\ \A w \in Workers : state'[w] = "QUARANTINED" =>
                       expired \/ ~can_close' \/ wpc[w] # "start"
                 /\ JoinAt(c)'
      BY <2>0, <3>3 DEF JoinInv
    <3>0. /\ widx \in Workers /\ cpc \in [Callers -> CallerPC]
          /\ state \in [Workers -> {"STARTING", "RUNNING", "EXITED", "JOINED", "QUARANTINED"}]
          /\ \A w \in Workers : state[w] = "QUARANTINED" => expired \/ ~can_close \/ wpc[w] # "start"
          /\ JoinAt(c)
      BY DEF TypeOK, JoinInv
    <3> USE <2>0, <3>0 DEF JoinAt, Joining, GotoC, NextWorker, workers, locals
    <3>4. CASE Quiesced(c) \/ QuiesceResult(c)
      BY <3>4 DEF Quiesced, QuiesceResult
    <3>5. CASE Drain(c)
      BY <3>5 DEF Drain
    <3>6. CASE CloseRing(c)
      BY <3>6 DEF CloseRing
    <3>7. CASE MarkWorker(c)
      BY <3>7 DEF MarkWorker
    <3>8. CASE JoinWorker(c)
      BY <3>8 DEF JoinWorker, EndedInv, Quarantine
    <3>9. CASE JoinExited(c) \/ JoinTimeout(c) \/ WriteOff(c)
      BY <3>9 DEF JoinExited, JoinTimeout, WriteOff, Quarantine
    <3>10. CASE JoinFailed(c) \/ JoinLate(c)
      BY <3>10 DEF JoinFailed, JoinLate
    <3>11. CASE JoinDone(c)
      BY <3>11 DEF JoinDone
    <3>12. CASE Residual(c)
      BY <3>12 DEF Residual
    <3>13. CASE ResidualPop(c)
      BY <3>13 DEF ResidualPop
    <3>14. CASE Final(c) \/ SetStopped(c)
      <4>1. UNCHANGED <<workers, locals>> /\ (GotoC(c, "stop") \/ GotoC(c, "epilogue"))
        BY <3>14 DEF Final, SetStopped
      <4> QED
        BY <4>1
    <3>15. CASE ShutdownCall(c) \/ ShutdownLoad(c) \/ WaitEnter(c) \/ WaitStopped(c)
                \/ ShutdownCas(c) \/ ShutdownReturn(c)
      BY <2>2, <3>15 DEF ShutdownCall, ShutdownLoad, WaitEnter, WaitStopped, ShutdownCas,
                         ShutdownReturn, Quiescer, Drainer
    <3> QED
      BY <1>1, <3>4, <3>5, <3>6, <3>7, <3>8, <3>9, <3>10, <3>11, <3>12, <3>13, <3>14, <3>15
         DEF ShutdownStep
  <2> QED
    BY <2>1, <2>2
<1>2. ASSUME NEW w \in Workers, Working(w)
      PROVE  JoinInv'
  <2>1. UNCHANGED <<cpc, widx, can_close, expired>>
    BY <1>2, WorkFrame DEF control, callers, locals, env
  <2>2. /\ \A v \in Workers : wpc[v] = "ended" => wpc'[v] = "ended"
        /\ \A v \in Workers : wpc[v] # "start" => wpc'[v] # "start"
        /\ \A v \in Workers : state'[v] = "QUARANTINED" => state[v] = "QUARANTINED"
        /\ \A v \in Workers : state[v] = "QUARANTINED" /\ wpc[v] # "start" =>
              state'[v] = "QUARANTINED" \/ wpc'[v] = "ended"
    <3> USE DEF TypeOK, GotoW
    <3>1. CASE WorkerStart(w)
      BY <3>1 DEF WorkerStart
    <3>2. CASE WorkerLoop(w)
      BY <3>2 DEF WorkerLoop
    <3>3. CASE WorkerPop(w) \/ WorkerDrained(w)
      BY <3>3 DEF WorkerPop, WorkerDrained
    <3>4. CASE WorkerExit(w)
      BY <3>4 DEF WorkerExit
    <3>5. CASE WorkerProcessed(w)
      BY <3>5 DEF WorkerProcessed
    <3> QED
      BY <1>2, <3>1, <3>2, <3>3, <3>4, <3>5 DEF Working, WorkerStep
  <2>3. widx \in Workers
    BY DEF TypeOK
  <2> QED
    BY <2>1, <2>2, <2>3 DEF JoinInv, JoinAt
<1>3. ASSUME DestroyCall \/ DestroyStep
      PROVE  JoinInv'
  <2>1. UNCHANGED <<state, wpc, widx, can_close, expired>>
    BY <1>3, DestroyFrame DEF workers, locals
  <2>2. /\ cpc'[Owner] \in {"load", "dwait", "drefs", "dcheck", "gone"}
        /\ \A d \in Callers \ {Owner} : cpc'[d] = cpc[d]
    BY <1>3, DestroyMoves, PoolAssumption DEF TypeOK
  <2> QED
    BY <2>1, <2>2 DEF JoinInv, JoinAt, Joining
<1>4. ASSUME Expire
      PROVE  JoinInv'
  BY <1>4, ExpireFrame DEF JoinInv, JoinAt, control, callers, locals, workers
<1>5. ASSUME \/ UNCHANGED vars
             \/ \E w \in Workers : CallbackDestroy(w)
             \/ \E s \in Submitters : Submitting(s)
      PROVE  JoinInv'
  <2>1. UNCHANGED <<state, wpc, cpc, widx, can_close, expired>>
    BY <1>5, CallbackFrame, SubmitFrame DEF vars, control, callers, locals, workers, env
  <2> QED
    BY <2>1 DEF JoinInv, JoinAt
<1> QED
  BY <1>1, <1>2, <1>3, <1>4, <1>5, Kinds

(***************************************************************************)
(* A shutdown that is not late.                                            *)
(***************************************************************************)

(* A quarantine is for good, and so is a join; both other signs of trouble *)
(* come with a quarantine.  A result is clean only if it is read from a    *)
(* stopped pool that is not quarantined.                                   *)
Settled ==
    /\ quarantined => quarantined'
    /\ ~can_close' => ~can_close \/ quarantined'
    /\ shutdown_aborts' # 0 => shutdown_aborts # 0 \/ quarantined'
    /\ \A w \in Workers : joined[w] => joined'[w]
    /\ UNCHANGED supervisor_joined
    /\ \A c \in Callers : \/ result'[c] = result[c] \/ result'[c] # "clean"
                          \/ lifecycle = "STOPPED" /\ ~quarantined
(* Every step keeps what is settled. *)
LEMMA SettledStep ==
    ASSUME TypeOK, DriverInv, [Next]_vars
    PROVE  Settled
<1> USE DEF Settled
<1>1. ASSUME NEW c \in Callers, ShutdownCall(c) \/ ShutdownStep(c)
      PROVE  Settled
  <2>0. UNCHANGED supervisor_joined
    BY <1>1, ShutdownFrame DEF env
  <2> USE <2>0 DEF TypeOK, DriverInv, flags, verdict, Quarantine, Abort, Sample, workers, locals
  <2>1. CASE ShutdownCall(c) \/ WaitEnter(c) \/ ShutdownCas(c) \/ Quiesced(c) \/ QuiesceResult(c)
             \/ Drain(c) \/ CloseRing(c) \/ MarkWorker(c)
    BY <2>1 DEF ShutdownCall, WaitEnter, ShutdownCas, Quiesced, QuiesceResult, Drain, CloseRing,
                MarkWorker
  <2>2. CASE ShutdownLoad(c)
    BY <2>2 DEF ShutdownLoad
  <2>3. CASE WaitStopped(c) \/ ShutdownReturn(c)
    BY <2>3 DEF WaitStopped, ShutdownReturn
  <2>4. CASE JoinWorker(c) \/ JoinExited(c) \/ JoinFailed(c) \/ JoinTimeout(c) \/ WriteOff(c)
    BY <2>4 DEF JoinWorker, JoinExited, JoinFailed, JoinTimeout, WriteOff
  <2>5. CASE JoinDone(c)
    BY SMTT(30), <2>5 DEF JoinDone
  <2>l. CASE JoinLate(c)
    BY SMTT(30), <2>l DEF JoinLate
  <2>6. CASE Residual(c) \/ ResidualPop(c) \/ SetStopped(c)
    BY <2>6 DEF Residual, ResidualPop, SetStopped
  <2>7. CASE Final(c)
    BY <2>7 DEF Final
  <2> QED
    BY <1>1, <2>1, <2>2, <2>3, <2>4, <2>5, <2>l, <2>6, <2>7 DEF ShutdownStep
<1>2. ASSUME DestroyCall \/ DestroyStep
      PROVE  Settled
  <2>1. UNCHANGED <<can_close, shutdown_aborts, joined, supervisor_joined, result>>
    BY <1>2, DestroyFrame DEF locals, workers
  <2>2. quarantined => quarantined'
    BY <1>2 DEF DestroyCall, DestroyStep, DestroyWait, DestroyRefs, DestroyTimeout, Destroy,
                flags, verdict
  <2> QED
    BY <2>1, <2>2
<1>3. ASSUME \/ UNCHANGED vars \/ Expire
             \/ \E w \in Workers : Working(w) \/ CallbackDestroy(w)
             \/ \E s \in Submitters : Submitting(s)
      PROVE  Settled
  <2>1. UNCHANGED <<callers, joined, supervisor_joined>>
    BY <1>3, WorkFrame, CallbackFrame, ExpireFrame, SubmitFrame
       DEF vars, control, workers, env
  <2>2. UNCHANGED verdict \/ quarantined'
    BY <1>3, WorkFrame, CallbackFrame, ExpireFrame, SubmitFrame DEF vars, control, flags
  <2> QED
    BY <2>1, <2>2 DEF callers, locals, verdict
<1> QED
  BY <1>1, <1>2, <1>3, Kinds

(* What the caller that does the work has joined, while nobody quarantines *)
(* the pool.                                                               *)
LEMMA CleanDriver ==
    ASSUME TypeOK, DriverInv, JoinInv, CleanInv, NEW c \in Callers, ShutdownStep(c),
           cpc[c] \in Quiescer \cup Drainer, ~quarantined'
    PROVE  /\ CleanAt(c)'
           /\ lifecycle' = "STOPPED" => supervisor_joined /\ \A w \in Workers : joined[w]
<1>q. ~quarantined
  <2>1. Next
    BY DEF Next, Running
  <2> QED
    BY <2>1, SettledStep DEF Settled
<1>0. /\ widx \in Workers /\ cpc \in [Callers -> CallerPC] /\ joined \in [Workers -> BOOLEAN]
      /\ CleanAt(c) /\ can_close /\ cpc[c] # "mark" /\ NWorkers \in Nat /\ (EnableSupervisor \/ supervisor_joined)
      /\ lifecycle \in {"QUIESCING", "DRAINING"}
      /\ supervisor_joined' = supervisor_joined
  BY <1>q, ShutdownFrame, PoolAssumption DEF TypeOK, CleanInv, DriverInv, JoinInv, JoinAt, env
<1>i. \A w \in Workers : w < widx + 1 => w < widx \/ w = widx
  BY <1>0 DEF Workers
<1>f. ~(widx + 1 < NWorkers) => \A w \in Workers : w < widx \/ w = widx
  BY <1>0 DEF Workers
<1>z. \A w \in Workers : ~(w < 0)
  BY DEF Workers
<1> USE <1>0 DEF CleanAt, Joining, GotoC, flags, life, verdict, workers, locals
<1>1. CASE Quiesced(c)
  BY <1>1 DEF Quiesced
<1>2. CASE QuiesceResult(c)
  BY <1>2 DEF QuiesceResult
<1>3. CASE Drain(c)
  BY <1>3 DEF Drain
<1>4. CASE CloseRing(c)
  BY <1>4, <1>z DEF CloseRing, NextWorker
<1>5. CASE MarkWorker(c)
  BY <1>5 DEF MarkWorker
<1>6. CASE JoinWorker(c)
  BY <1>6 DEF JoinWorker, Quarantine
<1>7. CASE JoinExited(c) \/ JoinFailed(c) \/ JoinTimeout(c) \/ WriteOff(c)
  BY <1>7 DEF JoinExited, JoinFailed, JoinTimeout, WriteOff, Quarantine
<1>8. CASE JoinDone(c) \/ JoinLate(c)
  BY <1>8 DEF JoinDone, JoinLate
<1>9. CASE Residual(c)
  BY <1>9, <1>i, <1>f DEF Residual, NextWorker
<1>10. CASE ResidualPop(c)
  BY <1>10, <1>i, <1>f DEF ResidualPop, NextWorker
<1>11. CASE Final(c)
  <2>1. UNCHANGED <<life, workers, locals, shutdown_aborts>> /\ GotoC(c, "stop") /\ cpc[c] = "final"
    BY <1>11 DEF Final
  <2> QED
    BY <2>1
<1>12. CASE SetStopped(c)
  BY <1>12 DEF SetStopped
<1>13. CASE ShutdownLoad(c) \/ WaitEnter(c) \/ WaitStopped(c) \/ ShutdownCas(c) \/ ShutdownReturn(c)
  BY <1>13 DEF ShutdownLoad, WaitEnter, WaitStopped, ShutdownCas, ShutdownReturn, Quiescer, Drainer
<1> QED
  BY <1>1, <1>2, <1>3, <1>4, <1>5, <1>6, <1>7, <1>8, <1>9, <1>10, <1>11, <1>12, <1>13
     DEF ShutdownStep

(* Every step keeps what a clean shutdown has done. *)
LEMMA CleanStep ==
    ASSUME TypeOK, DriverInv, JoinInv, CleanInv, [Next]_vars
    PROVE  CleanInv'
<1>0. Settled
  BY SettledStep
<1>1. /\ EnableSupervisor \/ supervisor_joined'
      /\ ~can_close' => quarantined'
      /\ shutdown_aborts' # 0 => quarantined'
      /\ \A w \in Workers : joined[w] => joined'[w]
      /\ UNCHANGED supervisor_joined
  BY <1>0 DEF Settled, CleanInv
<1>2. CleanMeansJoined'
  BY <1>0, <1>1 DEF Settled, CleanInv, CleanMeansJoined
<1> DEFINE StillClean ==
             /\ \A c \in Callers : CleanAt(c)'
             /\ lifecycle' = "STOPPED" => supervisor_joined' /\ \A w \in Workers : joined'[w]
<1>3. ASSUME ~quarantined'
      PROVE  StillClean
  <2>0. /\ ~quarantined
        /\ \A c \in Callers : CleanAt(c)
        /\ lifecycle = "STOPPED" => supervisor_joined /\ \A w \in Workers : joined[w]
    BY <1>0, <1>3 DEF Settled, CleanInv
  <2>1. ASSUME NEW c \in Callers, ShutdownCall(c) \/ ShutdownStep(c)
        PROVE  StillClean
    <3>1. CASE cpc[c] \in Quiescer \cup Drainer
      <4>1. ShutdownStep(c)
        BY <2>1, <3>1 DEF ShutdownCall, Quiescer, Drainer, Joining
      <4>2. \A d \in Callers \ {c} : cpc'[d] = cpc[d] /\ cpc[d] \notin Quiescer \cup Drainer
        BY <2>1, <3>1, ShutdownMoves DEF DriverInv, TypeOK
      <4>3. \A d \in Callers \ {c} : CleanAt(d)'
        BY <4>2 DEF CleanAt, Drainer, Joining
      <4> QED
        BY <1>1, <1>3, <3>1, <4>1, <4>3, CleanDriver
    <3>2. CASE cpc[c] \notin Quiescer \cup Drainer
      <4>1. /\ UNCHANGED <<widx, joined>>
            /\ cpc'[c] \notin Drainer
            /\ \A d \in Callers \ {c} : cpc'[d] = cpc[d]
        BY <2>1, <3>2, Bystander DEF workers, Quiescer, Drainer, Joining
      <4>2. lifecycle' = "STOPPED" => lifecycle = "STOPPED"
        BY <2>1, <3>2, Phases DEF Phase, Quiescer, Drainer
      <4> QED
        BY <1>1, <2>0, <4>1, <4>2 DEF CleanAt, Drainer, Joining
    <3> QED
      BY <3>1, <3>2
  <2>2. ASSUME DestroyCall \/ DestroyStep
        PROVE  StillClean
    <3>1. UNCHANGED <<lifecycle, widx, joined>>
      BY <2>2, DestroyFrame DEF workers, locals
    <3>2. /\ cpc'[Owner] \in {"load", "dwait", "drefs", "dcheck", "gone"}
          /\ \A d \in Callers \ {Owner} : cpc'[d] = cpc[d]
      BY <2>2, DestroyMoves, PoolAssumption DEF TypeOK
    <3> QED
      BY <1>1, <2>0, <3>1, <3>2 DEF CleanAt, Joining
  <2>3. ASSUME \/ UNCHANGED vars \/ Expire
               \/ \E w \in Workers : Working(w) \/ CallbackDestroy(w)
               \/ \E s \in Submitters : Submitting(s)
        PROVE  StillClean
    <3>1. UNCHANGED <<lifecycle, cpc, widx, joined>>
      BY <2>3, WorkFrame, CallbackFrame, ExpireFrame, SubmitFrame
         DEF vars, control, flags, life, callers, locals, workers
    <3> QED
      BY <1>1, <2>0, <3>1 DEF CleanAt
  <2> QED
    BY <2>1, <2>2, <2>3, Kinds
<1> QED
  BY <1>1, <1>2, <1>3 DEF CleanInv

(***************************************************************************)
(* Destroy.                                                                *)
(***************************************************************************)

(* Destroy begins when the other threads are outside and frees the pool    *)
(* only if nobody is left in it.  New calls come only while the owner has  *)
(* not gone.                                                               *)
LEMMA DestroyInvStep ==
    ASSUME TypeOK, Counted, EndedInv, DestroyInv,
           Running \/ (ClientCall /\ GoneInv) \/ UNCHANGED vars
    PROVE  DestroyInv'
<1> DEFINE Out == /\ \A s \in Submitters : spc[s] \in {"idle", "holding"}
                  /\ \A c \in Callers \ {Owner} : cpc[c] \in {"idle", "returned"}
           Own == \A c \in Callers :
                     /\ cpc[c] \in {"dwait", "drefs", "dcheck"} => destroy_started
                     /\ cpc[c] \in {"dwait", "drefs", "dcheck", "gone"} => c = Owner
<1>0. /\ destroy_started => Out
      /\ Own
      /\ memory # "live" => cpc[Owner] = "gone"
      /\ NoUseAfterFree
      /\ Owner \in Callers
  BY PoolAssumption DEF DestroyInv
<1>1. ASSUME NEW s \in Submitters,
             SubmitStep(s) \/ Commit(s) \/ (GoneInv /\ \E a \in Apis, w \in Workers : Call(s, a, w))
      PROVE  DestroyInv'
  <2>0. Submitting(s)
    BY <1>1 DEF Submitting
  <2>1. ~destroy_started
    BY <1>0, <1>1 DEF Call, Commit, SubmitStep, SubmitRegister, SubmitCheck, SubmitClosed,
         SubmitReserve, SubmitUnpark, Publish, Count, Unregister, Leave, ClaimAdmit, ClaimClosed,
         Claim, ClaimRegister, KeyedRetry
  <2>2. UNCHANGED <<destroy_started, cpc, memory, wpc>>
    BY <2>0, SubmitFrame DEF control, flags, life, callers, workers
  <2>3. memory # "freed"
    <3>1. CASE SubmitStep(s) \/ Commit(s)
      BY <3>1, <1>0 DEF NoUseAfterFree, Commit, SubmitStep, SubmitRegister, SubmitCheck,
         SubmitClosed, SubmitReserve, SubmitUnpark, Publish, Count, Unregister, Leave, ClaimAdmit,
         ClaimClosed, Claim, ClaimRegister, KeyedRetry
    <3>2. CASE GoneInv
      BY <3>2, <1>0, <2>1 DEF GoneInv
    <3> QED
      BY <1>1, <3>1, <3>2
  <2> QED
    BY <1>0, <2>1, <2>2, <2>3 DEF DestroyInv, NoUseAfterFree
<1>2. ASSUME NEW c \in Callers, ShutdownStep(c) \/ (GoneInv /\ ShutdownCall(c))
      PROVE  DestroyInv'
  <2>1. UNCHANGED <<destroy_started, spc, memory, wpc>>
    BY <1>2, ShutdownFrame DEF subs, env
  <2>2. /\ cpc[c] # "gone" /\ cpc'[c] # "gone"
        /\ cpc[c] \in {"idle", "returned"} => GoneInv /\ ShutdownCall(c)
        /\ \A d \in Callers \ {c} : cpc'[d] = cpc[d]
        /\ cpc'[c] \in {"dwait", "drefs", "dcheck"} => c = Owner /\ destroy_started
    <3> USE DEF TypeOK, GotoC, NextWorker, AfterShutdown, Quarantine
    <3>0. CASE GoneInv /\ ShutdownCall(c)
      BY <3>0 DEF ShutdownCall
    <3>1. CASE ShutdownLoad(c)
      BY <3>1 DEF ShutdownLoad
    <3>2. CASE WaitEnter(c) \/ WaitStopped(c)
      BY <3>2 DEF WaitEnter, WaitStopped
    <3>3. CASE ShutdownCas(c) \/ Quiesced(c) \/ QuiesceResult(c) \/ Drain(c)
      BY <3>3 DEF ShutdownCas, Quiesced, QuiesceResult, Drain
    <3>4. CASE CloseRing(c) \/ MarkWorker(c)
      BY <3>4 DEF CloseRing, MarkWorker
    <3>5. CASE JoinWorker(c)
      BY <3>5 DEF JoinWorker
    <3>6. CASE JoinExited(c) \/ JoinFailed(c) \/ JoinDone(c) \/ JoinTimeout(c)
      BY <3>6 DEF JoinExited, JoinFailed, JoinDone, JoinTimeout
    <3>7. CASE JoinLate(c) \/ WriteOff(c) \/ Residual(c) \/ ResidualPop(c)
      BY <3>7 DEF JoinLate, WriteOff, Residual, ResidualPop
    <3>8. CASE Final(c) \/ SetStopped(c)
      <4>1. cpc[c] \in {"final", "stop"} /\ (GotoC(c, "stop") \/ GotoC(c, "epilogue"))
        BY <3>8 DEF Final, SetStopped
      <4> QED
        BY <4>1
    <3>9. CASE ShutdownReturn(c)
      BY <3>9 DEF ShutdownReturn
    <3> QED
      BY <1>2, <3>0, <3>1, <3>2, <3>3, <3>4, <3>5, <3>6, <3>7, <3>8, <3>9 DEF ShutdownStep
  <2>3. destroy_started => c = Owner
    BY <1>0, <1>2, <2>2 DEF ShutdownCall
  <2>4. memory # "freed" /\ (c = Owner => memory = "live")
    <3>1. CASE ~(GoneInv /\ ShutdownCall(c))
      BY <1>0, <2>2, <3>1 DEF NoUseAfterFree
    <3>2. CASE GoneInv /\ ShutdownCall(c)
      BY <1>0, <3>2 DEF ShutdownCall, GoneInv
    <3> QED
      BY <3>1, <3>2
  <2> QED
    BY <1>0, <2>1, <2>2, <2>3, <2>4 DEF DestroyInv, NoUseAfterFree
<1>3. ASSUME DestroyCall
      PROVE  DestroyInv'
  <2>1. /\ cpc' = [cpc EXCEPT ![Owner] = "dwait"] \/ cpc' = [cpc EXCEPT ![Owner] = "load"]
        /\ destroy_started' /\ OthersDone /\ UNCHANGED <<spc, memory>>
        /\ cpc[Owner] \in {"idle", "returned"}
    BY <1>3 DEF DestroyCall, GotoC, clients, subs, env
  <2>2. /\ cpc'[Owner] \in {"dwait", "load"}
        /\ \A d \in Callers \ {Owner} : cpc'[d] = cpc[d]
    BY <1>0, <2>1 DEF TypeOK
  <2>3. memory = "live"
    BY <1>0, <2>1
  <2> QED
    BY <1>0, <2>1, <2>2, <2>3 DEF DestroyInv, NoUseAfterFree, OthersDone
<1>4. ASSUME DestroyStep
      PROVE  DestroyInv'
  <2>0. UNCHANGED <<clients, workers>>
    BY <1>4, DestroyFrame
  <2>1. /\ UNCHANGED <<destroy_started, spc, wpc>>
        /\ cpc[Owner] \in {"dwait", "drefs", "dcheck"}
    BY <1>4, <2>0 DEF DestroyStep, DestroyWait, DestroyRefs, DestroyTimeout, Destroy, flags, life,
                      clients, subs, workers
  <2>2. \A d \in Callers \ {Owner} : cpc'[d] = cpc[d]
    BY <1>4, DestroyMoves DEF TypeOK
  <2>3. destroy_started /\ Out /\ memory = "live"
    BY <1>0, <2>1
  <2>4. CASE DestroyWait \/ DestroyRefs \/ DestroyTimeout
    <3>1. /\ cpc' = [cpc EXCEPT ![Owner] = "drefs"] \/ cpc' = [cpc EXCEPT ![Owner] = "dcheck"]
          /\ UNCHANGED memory
      BY <2>4 DEF DestroyWait, DestroyRefs, DestroyTimeout, GotoC, env
    <3>2. cpc'[Owner] \in {"drefs", "dcheck"}
      BY <1>0, <3>1 DEF TypeOK
    <3> QED
      BY <1>0, <2>1, <2>2, <2>3, <3>1, <3>2 DEF DestroyInv, NoUseAfterFree
  <2>5. CASE Destroy
    <3>1. cpc'[Owner] = "gone"
      BY <1>0, <2>5 DEF Destroy, GotoC, TypeOK
    <3>2. ASSUME memory' = "freed"
          PROVE  /\ \A w \in Workers : wpc[w] = "ended"
                 /\ \A s \in Submitters : spc[s] = "idle"
      <4>1. ~(active_submits > 0) /\ \A w \in Workers : joined[w]
        BY <2>5, <3>2 DEF Destroy, LiveReferences
      <4>2. \A w \in Workers : wpc[w] = "ended"
        BY <4>1 DEF EndedInv
      <4>3. Cardinality(Registered) = 0 /\ IsFiniteSet(Registered)
        BY <4>1, Finite DEF TypeOK, Counted, RefsCounted, Registered
      <4>4. Registered = {}
        BY <4>3, FS_EmptySet
      <4> QED
        BY <2>3, <4>2, <4>4 DEF Registered
    <3> QED
      BY <1>0, <2>1, <2>2, <2>3, <3>1, <3>2 DEF DestroyInv, NoUseAfterFree
  <2> QED
    BY <1>4, <2>4, <2>5 DEF DestroyStep
<1>5. ASSUME NEW w \in Workers, Working(w)
      PROVE  DestroyInv'
  <2>1. UNCHANGED <<destroy_started, spc, cpc, memory>>
    BY <1>5, WorkFrame DEF control, flags, life, callers, clients, subs, env
  <2>2. memory # "freed"
    BY <1>0, <1>5 DEF NoUseAfterFree, Working, WorkerStep, WorkerStart, WorkerLoop, WorkerPop,
                      WorkerDrained, WorkerExit, WorkerProcessed
  <2> QED
    BY <1>0, <2>1, <2>2 DEF DestroyInv, NoUseAfterFree
<1>6. ASSUME UNCHANGED vars \/ Expire \/ \E w \in Workers : CallbackDestroy(w)
      PROVE  DestroyInv'
  <2>1. UNCHANGED <<destroy_started, spc, cpc, memory, wpc>>
    BY <1>6, CallbackFrame, ExpireFrame
       DEF vars, control, flags, life, callers, clients, subs, workers, env
  <2> QED
    BY <1>0, <2>1 DEF DestroyInv, NoUseAfterFree
<1> QED
  BY <1>1, <1>2, <1>3, <1>4, <1>5, <1>6 DEF Running, ClientCall, Working

(* The owner is gone only through destroy. *)
LEMMA GoneStep ==
    ASSUME TypeOK, DestroyInv, GoneInv, [Next]_vars
    PROVE  GoneInv'
<1>0. Owner \in Callers
  BY PoolAssumption
<1>1. ASSUME NEW c \in Callers, ShutdownCall(c) \/ ShutdownStep(c)
      PROVE  GoneInv'
  <2>1. destroy_started' = destroy_started
    BY <1>1, ShutdownFrame
  <2>2. cpc'[c] # "gone" /\ \A d \in Callers \ {c} : cpc'[d] = cpc[d]
    <3>1. PICK l \in CallerPC : cpc' = [cpc EXCEPT ![c] = l] /\ Phase(c, l)
      BY <1>1, Phases
    <3>2. \A d \in Callers \ {c} : cpc'[d] = cpc[d]
      BY <3>1 DEF TypeOK
    <3>3. CASE cpc[c] \in Quiescer \cup Drainer
      BY <3>1, <3>3 DEF TypeOK, Phase, Quiescer, Drainer, Joining
    <3>4. CASE cpc[c] \notin Quiescer \cup Drainer
      BY ZenonT(30), <1>1, <3>4
      DEF TypeOK, ShutdownCall, ShutdownStep, Quiescer, Drainer, Joining, GotoC,
           AfterShutdown, ShutdownLoad, WaitEnter, WaitStopped, ShutdownCas, ShutdownReturn,
           Quiesced, QuiesceResult, Drain, CloseRing,
           MarkWorker, JoinWorker, JoinExited, JoinFailed, JoinDone, JoinTimeout, JoinLate, WriteOff,
           Residual, ResidualPop, Final, SetStopped
    <3> QED
      BY <3>2, <3>3, <3>4
  <2> QED
    BY <1>0, <2>1, <2>2 DEF GoneInv
<1>2. ASSUME DestroyCall \/ DestroyStep
      PROVE  GoneInv'
  <2>1. CASE DestroyCall
    BY <2>1 DEF DestroyCall, GoneInv
  <2>2. CASE DestroyStep
    <3>1. cpc[Owner] \in {"dwait", "drefs", "dcheck"} /\ destroy_started' = destroy_started
      BY <2>2 DEF DestroyStep, DestroyWait, DestroyRefs, DestroyTimeout, Destroy, flags, life
    <3> QED
      BY <1>0, <3>1 DEF DestroyInv, GoneInv
  <2> QED
    BY <1>2, <2>1, <2>2
<1>3. ASSUME \/ UNCHANGED vars \/ Expire
             \/ \E w \in Workers : Working(w) \/ CallbackDestroy(w)
             \/ \E s \in Submitters : Submitting(s)
      PROVE  GoneInv'
  <2>1. UNCHANGED <<cpc, destroy_started>>
    BY <1>3, WorkFrame, CallbackFrame, ExpireFrame, SubmitFrame
       DEF vars, control, flags, life, callers
  <2> QED
    BY <2>1 DEF GoneInv
<1> QED
  BY <1>1, <1>2, <1>3, Kinds

(***************************************************************************)
(* The calls and the rings.                                                *)
(***************************************************************************)

(* A call stays on the labels of its own function. *)
LEMMA ApiStep ==
    ASSUME TypeOK, ApiInv, [Next]_vars
    PROVE  ApiInv'
<1>1. ASSUME NEW s \in Submitters, Submitting(s)
      PROVE  ApiInv'
  <2>0. /\ spc \in [Submitters -> SubmitPC] /\ api \in [Submitters -> Apis \cup {"none"}]
        /\ Apis \subseteq {"submit", "claim", "keyed"}
    BY PoolAssumption DEF TypeOK
  <2> USE <2>0 DEF ApiInv, GotoS, LeaveTo, args
  <2>1. ASSUME NEW a \in Apis, NEW w \in Workers, Call(s, a, w)
        PROVE  ApiInv'
    <3>1. \/ a = "submit" /\ (GotoS(s, "register") \/ GotoS(s, "leave"))
          \/ a \in {"claim", "keyed"} /\ GotoS(s, "admit")
      BY <2>1 DEF Call
    <3>2. api' = [api EXCEPT ![s] = a]
      BY <2>1 DEF Call
    <3> QED
      BY <3>1, <3>2
  <2>2. CASE SubmitRegister(s) \/ SubmitUnpark(s) \/ Publish(s) \/ Count(s) \/ Unregister(s)
    BY <2>2 DEF SubmitRegister, SubmitUnpark, Publish, Count, Unregister
  <2>3. CASE SubmitCheck(s)
    <3>1. UNCHANGED api /\ spc[s] = "check" /\ (GotoS(s, "closed") \/ GotoS(s, "unregister"))
      BY <2>3 DEF SubmitCheck
    <3> QED
      BY <3>1
  <2>4. CASE SubmitClosed(s) \/ SubmitReserve(s)
    BY <2>4 DEF SubmitClosed, SubmitReserve
  <2>5. CASE Leave(s)
    BY <2>5 DEF Leave
  <2>6. CASE ClaimAdmit(s) \/ ClaimClosed(s)
    BY <2>6 DEF ClaimAdmit, ClaimClosed, Again
  <2>7. CASE Claim(s)
    BY <2>7 DEF Claim, Again
  <2>8. CASE ClaimRegister(s)
    <3>1. UNCHANGED api /\ spc[s] = "cregister" /\ (GotoS(s, "publish") \/ GotoS(s, "holding"))
      BY <2>8 DEF ClaimRegister
    <3> QED
      BY <3>1
  <2>9. CASE KeyedRetry(s) \/ Commit(s)
    BY <2>9 DEF KeyedRetry, Commit
  <2> QED
    BY <1>1, <2>1, <2>2, <2>3, <2>4, <2>5, <2>6, <2>7, <2>8, <2>9 DEF Submitting, SubmitStep
<1>2. ASSUME \/ UNCHANGED vars \/ Expire \/ DestroyCall \/ DestroyStep
             \/ \E w \in Workers : Working(w) \/ CallbackDestroy(w)
             \/ \E c \in Callers : ShutdownCall(c) \/ ShutdownStep(c)
      PROVE  ApiInv'
  <2>1. UNCHANGED subs
    BY <1>2, WorkFrame, CallbackFrame, ExpireFrame, ShutdownFrame, DestroyFrame DEF vars, clients
  <2> QED
    BY <2>1 DEF ApiInv, subs, args
<1> QED
  BY <1>1, <1>2, Kinds

(* What a step does to the rings: nothing, a reservation, a publication or *)
(* a removal.                                                              *)
SameArgs(t) == shard'[t] = shard[t] /\ spos'[t] = spos[t]
OthersKeep(s) ==
    \A t \in Submitters \ {s} :
        (Pending(t)' <=> Pending(t)) /\ (Pending(t) => SameArgs(t))

Keeps ==
    /\ UNCHANGED <<enqueue_pos, dequeue_pos, ready>>
    /\ \A t \in Submitters : (Pending(t)' <=> Pending(t)) /\ (Pending(t) => SameArgs(t))
Takes(s) ==
    /\ spc[s] \in {"reserve", "claim"} /\ Pending(s)'
    /\ enqueue_pos' = [enqueue_pos EXCEPT ![shard[s]] = @ + 1]
    /\ spos'[s] = enqueue_pos[shard[s]] /\ shard'[s] = shard[s]
    /\ OthersKeep(s)
    /\ UNCHANGED <<dequeue_pos, ready>>
Publishes(s) ==
    /\ spc[s] = "publish" /\ spc'[s] = "count"
    /\ ready' = [ready EXCEPT ![shard[s]] = @ \cup {spos[s]}]
    /\ OthersKeep(s)
    /\ UNCHANGED <<enqueue_pos, dequeue_pos>>
Pops(w) ==
    /\ HeadReady(w)
    /\ dequeue_pos' = [dequeue_pos EXCEPT ![w] = @ + 1]
    /\ ready' = [ready EXCEPT ![w] = @ \ {dequeue_pos[w]}]
    /\ UNCHANGED <<enqueue_pos, subs>>

(* A step of a submitter is one of the first three. *)
LEMMA SubmitEffect ==
    ASSUME TypeOK, NEW s \in Submitters, Submitting(s)
    PROVE  Keeps \/ Takes(s) \/ Publishes(s)
<1>0. spc \in [Submitters -> SubmitPC] /\ shard \in [Submitters -> Workers]
      /\ spos \in [Submitters -> Nat]
  BY DEF TypeOK
<1>k. ASSUME NEW l, GotoS(s, l), l \notin {"publish", "cregister", "holding"},
             spc[s] \notin {"publish", "cregister", "holding"},
             \A t \in Submitters \ {s} : SameArgs(t),
             UNCHANGED queue
      PROVE  Keeps
  BY <1>0, <1>k DEF Keeps, Pending, GotoS, queue
<1> USE <1>0 DEF queue, rings, args, SameArgs
<1>1. ASSUME NEW a \in Apis, NEW w \in Workers, Call(s, a, w)
      PROVE  Keeps
  <2>1. GotoS(s, "register") \/ GotoS(s, "leave") \/ GotoS(s, "admit")
    BY <1>1 DEF Call
  <2>2. /\ spc[s] = "idle" /\ UNCHANGED queue
        /\ \A t \in Submitters \ {s} : SameArgs(t)
    BY <1>1 DEF Call
  <2> QED
    BY <2>1, <2>2, <1>k
<1>2. CASE SubmitRegister(s) \/ SubmitUnpark(s) \/ Count(s) \/ Unregister(s)
  BY <1>2, <1>k DEF SubmitRegister, SubmitUnpark, Count, Unregister
<1>3. CASE SubmitCheck(s)
  <2>1. UNCHANGED <<rings, args>> /\ spc[s] = "check" /\ (GotoS(s, "closed") \/ GotoS(s, "unregister"))
    BY <1>3 DEF SubmitCheck
  <2> QED
    BY <2>1, <1>k
<1>4. CASE SubmitClosed(s)
  BY <1>4, <1>k DEF SubmitClosed
<1>5. CASE SubmitReserve(s)
  <2>1. CASE TakePosition(s) /\ GotoS(s, "publish")
    BY <1>5, <2>1 DEF SubmitReserve, TakePosition, GotoS, Takes, OthersKeep, Pending
  <2>2. CASE (GotoS(s, "check") \/ GotoS(s, "park")) /\ UNCHANGED <<enqueue_pos, spos>>
    BY <1>5, <2>2, <1>k DEF SubmitReserve
  <2> QED
    BY <1>5, <2>1, <2>2 DEF SubmitReserve
<1>6. CASE Publish(s)
  BY <1>6 DEF Publish, GotoS, Publishes, OthersKeep, Pending
<1>l. ASSUME NEW l \in {"idle", "retry"}, LeaveTo(s, l), UNCHANGED queue,
             spc[s] \in {"leave", "admit", "cclosed", "claim"}
      PROVE  Keeps
  <2>1. /\ GotoS(s, l)
        /\ \A t \in Submitters \ {s} : SameArgs(t)
    BY <1>l DEF LeaveTo
  <2> QED
    BY <1>l, <2>1, <1>k
<1>7. CASE Leave(s) \/ ClaimAdmit(s) \/ ClaimClosed(s)
  <2>1. /\ UNCHANGED queue /\ spc[s] \in {"leave", "admit", "cclosed", "claim"}
        /\ \/ LeaveTo(s, "idle") \/ LeaveTo(s, "retry")
           \/ (GotoS(s, "cclosed") \/ GotoS(s, "claim")) /\ UNCHANGED args
    BY <1>7 DEF Leave, ClaimAdmit, ClaimClosed, Again
  <2> QED
    BY <2>1, <1>k, <1>l
<1>8. CASE Claim(s)
  <2>1. CASE TakePosition(s) /\ GotoS(s, "cregister")
    BY <1>8, <2>1 DEF Claim, TakePosition, GotoS, Takes, OthersKeep, Pending, LeaveTo
  <2>2. CASE LeaveTo(s, Again(s)) /\ UNCHANGED enqueue_pos
    BY <1>8, <2>2, <1>l DEF Claim, Again
  <2> QED
    BY <1>8, <2>1, <2>2 DEF Claim
<1>9. CASE ClaimRegister(s)
  <2>1. UNCHANGED <<rings, args>> /\ spc[s] = "cregister"
        /\ (GotoS(s, "publish") \/ GotoS(s, "holding"))
    BY <1>9 DEF ClaimRegister
  <2> QED
    BY <2>1 DEF Keeps, Pending, GotoS
<1>10. CASE Commit(s)
  BY <1>10 DEF Commit, Keeps, Pending, GotoS
<1>11. CASE KeyedRetry(s)
  BY <1>11, <1>k DEF KeyedRetry
<1> QED
  BY <1>1, <1>2, <1>3, <1>4, <1>5, <1>6, <1>7, <1>8, <1>9, <1>10, <1>11 DEF Submitting, SubmitStep

(* Every step is one of the four. *)
LEMMA RingEffect ==
    ASSUME TypeOK, [Next]_vars
    PROVE  \/ Keeps \/ \E s \in Submitters : Takes(s) \/ Publishes(s)
           \/ \E w \in Workers : Pops(w)
<1>1. ASSUME NEW s \in Submitters, Submitting(s)
      PROVE  Keeps \/ Takes(s) \/ Publishes(s)
  BY <1>1, SubmitEffect
<1>k. ASSUME UNCHANGED <<queue, subs>>
      PROVE  Keeps
  BY <1>k DEF Keeps, queue, subs, args, Pending, SameArgs
<1>2. ASSUME NEW w \in Workers, Working(w)
      PROVE  Keeps \/ Pops(w)
  <2>1. UNCHANGED subs
    BY <1>2, WorkFrame DEF clients
  <2>2. CASE WorkerPop(w)
    BY <2>1, <2>2 DEF WorkerPop, Pops
  <2>3. CASE ~WorkerPop(w)
    <3>1. UNCHANGED queue
      BY <1>2, <2>3 DEF Working, WorkerStep, WorkerStart, WorkerLoop, WorkerDrained, WorkerExit,
                        WorkerProcessed, rings
    <3> QED
      BY <2>1, <3>1, <1>k
  <2> QED
    BY <2>2, <2>3
<1>3. ASSUME NEW c \in Callers, ShutdownCall(c) \/ ShutdownStep(c)
      PROVE  Keeps \/ Pops(widx)
  <2>1. UNCHANGED <<subs, enqueue_pos, store>>
    BY <1>3, ShutdownFrame
  <2>2. CASE ResidualPop(c) /\ HeadReady(widx)
    BY <2>1, <2>2 DEF ResidualPop, Pops
  <2>3. CASE ~(ResidualPop(c) /\ HeadReady(widx))
    <3> USE DEF rings, queue
    <3>1. CASE ShutdownCall(c) \/ ShutdownLoad(c) \/ WaitEnter(c) \/ WaitStopped(c) \/ ShutdownCas(c)
               \/ Quiesced(c) \/ QuiesceResult(c) \/ Drain(c) \/ CloseRing(c) \/ MarkWorker(c)
      BY <3>1, <2>1, <1>k DEF ShutdownCall, ShutdownLoad, WaitEnter, WaitStopped, ShutdownCas,
                  Quiesced, QuiesceResult, Drain, CloseRing, MarkWorker
    <3>2. CASE JoinWorker(c) \/ JoinExited(c) \/ JoinFailed(c) \/ JoinDone(c) \/ JoinTimeout(c)
      BY <3>2, <2>1, <1>k DEF JoinWorker, JoinExited, JoinFailed, JoinDone, JoinTimeout
    <3>3. CASE JoinLate(c) \/ WriteOff(c) \/ Residual(c) \/ Final(c) \/ SetStopped(c)
               \/ ShutdownReturn(c)
      BY <3>3, <2>1, <1>k DEF JoinLate, WriteOff, Residual, Final, SetStopped, ShutdownReturn
    <3>4. CASE ResidualPop(c)
      BY <3>4, <2>1, <2>3, <1>k DEF ResidualPop
    <3> QED
      BY <1>3, <3>1, <3>2, <3>3, <3>4 DEF ShutdownStep
  <2> QED
    BY <2>2, <2>3
<1>4. ASSUME \/ UNCHANGED vars \/ Expire \/ DestroyCall \/ DestroyStep
             \/ \E w \in Workers : CallbackDestroy(w)
      PROVE  Keeps
  <2>1. UNCHANGED <<queue, subs>>
    BY <1>4, CallbackFrame, ExpireFrame, DestroyFrame DEF vars, clients, rings
  <2> QED
    BY <2>1, <1>k
<1>5. widx \in Workers
  BY DEF TypeOK
<1> QED
  BY <1>1, <1>2, <1>3, <1>4, <1>5, Kinds

(* The rings stay first in, first out: every position between head and     *)
(* tail is published or reserved, by one submitter.                        *)
LEMMA FifoStep ==
    ASSUME TypeOK, FifoInv, [Next]_vars
    PROVE  FifoInv'
<1>0. /\ enqueue_pos \in [Workers -> Nat] /\ dequeue_pos \in [Workers -> Nat]
      /\ ready \in [Workers -> SUBSET Nat]
      /\ shard \in [Submitters -> Workers] /\ spos \in [Submitters -> Nat]
  BY DEF TypeOK
<1> DEFINE Held(w, i) == \E s \in Submitters : Pending(s) /\ shard[s] = w /\ spos[s] = i
           Bounds == \A w \in Workers :
                        /\ dequeue_pos[w] <= enqueue_pos[w]
                        /\ \A i \in ready[w] : dequeue_pos[w] <= i /\ i < enqueue_pos[w]
           Full == \A w \in Workers : \A i \in Nat :
                        dequeue_pos[w] <= i /\ i < enqueue_pos[w] => i \in ready[w] \/ Held(w, i)
           Own == \A s \in Submitters : Pending(s) =>
                        /\ dequeue_pos[shard[s]] <= spos[s] /\ spos[s] < enqueue_pos[shard[s]]
                        /\ spos[s] \notin ready[shard[s]]
           Once == \A s, t \in Submitters :
                        Pending(s) /\ Pending(t) /\ shard[s] = shard[t] /\ spos[s] = spos[t] => s = t
<1>i. Bounds /\ Full /\ Own /\ Once
  BY DEF FifoInv
<1>s. SUFFICES Bounds' /\ Full' /\ Own' /\ Once'
  BY DEF FifoInv
<1>1. CASE Keeps
  <2>1. Bounds'
    BY <1>1, <1>i DEF Keeps
  <2>2. ASSUME NEW w \in Workers, NEW i \in Nat, Held(w, i)
        PROVE  Held(w, i)'
    BY <1>1, <2>2 DEF Keeps, SameArgs
  <2>3. Full'
    BY <1>1, <1>i, <2>2 DEF Keeps
  <2>4. Own'
    BY <1>1, <1>i DEF Keeps, SameArgs
  <2>5. Once'
    BY <1>1, <1>i DEF Keeps, SameArgs
  <2> QED
    BY <2>1, <2>3, <2>4, <2>5
<1>2. ASSUME NEW s \in Submitters, Takes(s)
      PROVE  Bounds' /\ Full' /\ Own' /\ Once'
  <2>a. PICK v \in Workers, e \in Nat : v = shard[s] /\ e = enqueue_pos[v]
    BY <1>0
  <2>0. /\ e = enqueue_pos[v] /\ ~Pending(s) /\ Pending(s)'
        /\ enqueue_pos'[v] = e + 1 /\ \A w \in Workers \ {v} : enqueue_pos'[w] = enqueue_pos[w]
        /\ spos'[s] = e /\ shard'[s] = v
        /\ OthersKeep(s)
        /\ dequeue_pos' = dequeue_pos /\ ready' = ready
    BY <1>0, <1>2, <2>a DEF Takes, Pending
  <2>1. Bounds'
    BY <1>0, <1>i, <2>0
  <2>2. ASSUME NEW w \in Workers, NEW i \in Nat, Held(w, i)
        PROVE  Held(w, i)'
    BY <2>0, <2>2 DEF OthersKeep, SameArgs
  <2>3. Held(v, e)'
    BY <2>0
  <2>4. Full'
    <3>1. ASSUME NEW w \in Workers, NEW i \in Nat, dequeue_pos[w] <= i, i < enqueue_pos'[w]
          PROVE  i \in ready[w] \/ Held(w, i)'
      <4>1. i < enqueue_pos[w] \/ (w = v /\ i = e)
        BY <1>0, <2>0, <3>1
      <4> QED
        BY <1>i, <2>2, <2>3, <3>1, <4>1
    <3> QED
      BY <2>0, <3>1
  <2>5. Own'
    <3>1. ASSUME NEW t \in Submitters, Pending(t)'
          PROVE  /\ dequeue_pos[shard'[t]] <= spos'[t] /\ spos'[t] < enqueue_pos'[shard'[t]]
                 /\ spos'[t] \notin ready[shard'[t]]
      <4>1. CASE t = s
        BY <4>1, <1>0, <1>i, <2>0
      <4>2. CASE t # s
        <5>1. Pending(t) /\ shard'[t] = shard[t] /\ spos'[t] = spos[t] /\ shard[t] \in Workers
              /\ spos[t] \in Nat
          BY <1>0, <2>0, <3>1, <4>2 DEF OthersKeep, SameArgs
        <5>2. enqueue_pos'[shard[t]] >= enqueue_pos[shard[t]] /\ enqueue_pos[shard[t]] \in Nat
              /\ enqueue_pos'[shard[t]] \in Nat
          BY <1>0, <2>0, <5>1
        <5> QED
          BY <1>i, <5>1, <5>2
      <4> QED
        BY <4>1, <4>2
    <3> QED
      BY <2>0, <3>1
  <2>6. Once'
    <3>1. ASSUME NEW t \in Submitters \ {s}, Pending(t)'
          PROVE  /\ Pending(t) /\ shard'[t] = shard[t] /\ spos'[t] = spos[t]
                 /\ ~(shard[t] = v /\ spos[t] = e)
      <4>1. Pending(t) /\ shard'[t] = shard[t] /\ spos'[t] = spos[t]
        BY <2>0, <3>1 DEF OthersKeep, SameArgs
      <4>2. spos[t] < enqueue_pos[shard[t]]
        BY <1>i, <4>1
      <4> QED
        BY <1>0, <2>0, <4>1, <4>2
    <3> QED
      BY <1>i, <2>0, <3>1
  <2> QED
    BY <2>1, <2>4, <2>5, <2>6
<1>3. ASSUME NEW s \in Submitters, Publishes(s)
      PROVE  Bounds' /\ Full' /\ Own' /\ Once'
  <2> DEFINE v == shard[s]
             p == spos[s]
  <2>0. /\ v \in Workers /\ p \in Nat /\ Pending(s) /\ ~Pending(s)'
        /\ ready'[v] = ready[v] \cup {p} /\ \A w \in Workers \ {v} : ready'[w] = ready[w]
        /\ OthersKeep(s)
        /\ dequeue_pos' = dequeue_pos /\ enqueue_pos' = enqueue_pos
    BY <1>0, <1>3 DEF Publishes, Pending
  <2>p. dequeue_pos[v] <= p /\ p < enqueue_pos[v]
    BY <1>i, <2>0
  <2>1. Bounds'
    BY <1>0, <1>i, <2>0, <2>p
  <2>2. ASSUME NEW w \in Workers, NEW i \in Nat, Held(w, i), ~(w = v /\ i = p)
        PROVE  Held(w, i)'
    BY <2>0, <2>2 DEF OthersKeep, SameArgs
  <2>4. Full'
    <3>1. ASSUME NEW w \in Workers, NEW i \in Nat, dequeue_pos[w] <= i, i < enqueue_pos[w]
          PROVE  i \in ready'[w] \/ Held(w, i)'
      <4>1. i \in ready[w] \/ Held(w, i)
        BY <1>i, <3>1
      <4>2. CASE w = v /\ i = p
        BY <2>0, <4>2
      <4>3. CASE ~(w = v /\ i = p)
        <5>1. i \in ready[w] => i \in ready'[w]
          BY <2>0
        <5> QED
          BY <2>2, <4>1, <4>3, <5>1
      <4> QED
        BY <4>2, <4>3
    <3> QED
      BY <2>0, <3>1
  <2>5. ASSUME NEW t \in Submitters, Pending(t)'
        PROVE  /\ t # s /\ Pending(t) /\ shard'[t] = shard[t] /\ spos'[t] = spos[t]
               /\ shard[t] \in Workers
    BY <1>0, <2>0, <2>5 DEF OthersKeep, SameArgs
  <2>6. Own'
    <3>1. ASSUME NEW t \in Submitters, Pending(t)'
          PROVE  /\ dequeue_pos[shard[t]] <= spos[t] /\ spos[t] < enqueue_pos[shard[t]]
                 /\ spos[t] \notin ready'[shard[t]]
      <4>1. /\ t # s /\ Pending(t) /\ shard[t] \in Workers
            /\ ~(shard[t] = v /\ spos[t] = p)
        BY <1>i, <2>0, <2>5, <3>1
      <4> QED
        BY <1>i, <2>0, <4>1
    <3> QED
      BY <2>0, <2>5, <3>1
  <2>7. Once'
    BY <1>i, <2>5
  <2> QED
    BY <2>1, <2>4, <2>6, <2>7
<1>4. ASSUME NEW w \in Workers, Pops(w)
      PROVE  Bounds' /\ Full' /\ Own' /\ Once'
  <2> DEFINE d == dequeue_pos[w]
  <2>0. /\ d \in Nat /\ d \in ready[w]
        /\ dequeue_pos'[w] = d + 1 /\ \A v \in Workers \ {w} : dequeue_pos'[v] = dequeue_pos[v]
        /\ ready'[w] = ready[w] \ {d} /\ \A v \in Workers \ {w} : ready'[v] = ready[v]
        /\ enqueue_pos' = enqueue_pos /\ spc' = spc /\ shard' = shard /\ spos' = spos
    BY <1>0, <1>4 DEF Pops, HeadReady, subs, args
  <2>1. d < enqueue_pos[w]
    BY <1>i, <2>0
  <2>2. Bounds'
    <3>1. ASSUME NEW v \in Workers
          PROVE  /\ dequeue_pos'[v] <= enqueue_pos[v]
                 /\ \A i \in ready'[v] : dequeue_pos'[v] <= i /\ i < enqueue_pos[v]
      <4>1. CASE v = w
        <5>1. ASSUME NEW i \in ready'[w]
              PROVE  d + 1 <= i /\ i < enqueue_pos[w]
          <6>1. i \in ready[w] /\ i # d /\ i \in Nat /\ enqueue_pos[w] \in Nat
            BY <1>0, <2>0, <5>1
          <6>2. d <= i /\ i < enqueue_pos[w]
            BY <1>i, <6>1
          <6> QED
            BY <2>0, <6>1, <6>2
        <5>2. enqueue_pos[w] \in Nat
          BY <1>0
        <5> QED
          BY <2>0, <2>1, <4>1, <5>1, <5>2
      <4>2. CASE v # w
        BY <1>i, <2>0, <4>2
      <4> QED
        BY <4>1, <4>2
    <3> QED
      BY <2>0, <3>1
  <2>3. \A s \in Submitters : Pending(s)' <=> Pending(s)
    BY <2>0 DEF Pending
  <2>4. \A v \in Workers, i \in Nat : Held(v, i) => Held(v, i)'
    BY <2>0, <2>3
  <2>5. Full'
    <3>1. ASSUME NEW v \in Workers, NEW i \in Nat, dequeue_pos'[v] <= i, i < enqueue_pos[v]
          PROVE  i \in ready'[v] \/ Held(v, i)'
      <4>1. dequeue_pos[v] <= i /\ ~(v = w /\ i = d)
        BY <1>0, <2>0, <3>1
      <4>2. i \in ready[v] \/ Held(v, i)
        BY <1>i, <3>1, <4>1
      <4>3. i \in ready[v] => i \in ready'[v]
        BY <2>0, <4>1
      <4> QED
        BY <2>4, <4>2, <4>3
    <3> QED
      BY <2>0, <3>1
  <2>6. Own'
    <3>1. ASSUME NEW s \in Submitters, Pending(s)
          PROVE  /\ dequeue_pos'[shard[s]] <= spos[s] /\ spos[s] < enqueue_pos[shard[s]]
                 /\ spos[s] \notin ready'[shard[s]]
      <4>1. /\ shard[s] \in Workers /\ spos[s] \in Nat
            /\ dequeue_pos[shard[s]] <= spos[s] /\ spos[s] < enqueue_pos[shard[s]]
            /\ spos[s] \notin ready[shard[s]]
        BY <1>0, <1>i, <3>1
      <4>2. CASE shard[s] = w
        BY <1>0, <2>0, <4>1, <4>2
      <4>3. CASE shard[s] # w
        BY <2>0, <4>1, <4>3
      <4> QED
        BY <4>2, <4>3
    <3> QED
      BY <2>0, <2>3, <3>1
  <2>7. Once'
    BY <1>i, <2>0, <2>3
  <2> QED
    BY <2>2, <2>5, <2>6, <2>7
<1> QED
  BY <1>1, <1>2, <1>3, <1>4, RingEffect

(***************************************************************************)
(* The frames.                                                             *)
(***************************************************************************)

(* One element more. *)
LEMMA OneMore ==
    ASSUME NEW S, NEW T, NEW x, IsFiniteSet(S), x \notin S, T = S \cup {x}
    PROVE  IsFiniteSet(T) /\ Cardinality(T) = Cardinality(S) + 1
  BY FS_AddElement

(* Members of the three sets of frames. *)
LEMMA Members ==
    /\ \A x : x \in Taken <=>
          \E w \in Workers : \E i \in 0 .. dequeue_pos[w] - 1 : x = <<w, i>>
    /\ \A x : x \in Accepted <=>
          \E w \in Workers : \E i \in (0 .. dequeue_pos[w] - 1) \cup ready[w] : x = <<w, i>>
    /\ \A x : x \in Handled <=>
          \E w \in Workers : \E i \in 1 .. processed[w] : x = <<w, i>>
<1>1. \A x : x \in Taken <=>
         \E w \in Workers : \E i \in 0 .. dequeue_pos[w] - 1 : x = <<w, i>>
  BY DEF Taken
<1>2. \A x : x \in Accepted <=>
         \E w \in Workers : \E i \in (0 .. dequeue_pos[w] - 1) \cup ready[w] : x = <<w, i>>
  <2> DEFINE F(w) == (0 .. dequeue_pos[w] - 1) \cup ready[w]
  <2>1. Accepted = UNION {{w} \X F(w) : w \in Workers}
    BY DEF Accepted
  <2> HIDE DEF F
  <2>2. \A x : x \in Accepted <=> \E w \in Workers : \E i \in F(w) : x = <<w, i>>
    BY <2>1
  <2> QED
    BY <2>2 DEF F
<1>3. \A x : x \in Handled <=>
         \E w \in Workers : \E i \in 1 .. processed[w] : x = <<w, i>>
  BY DEF Handled
<1> QED
  BY <1>1, <1>2, <1>3

(* Removing the head moves one frame to those taken, of those accepted. *)
LEMMA PopsFrame ==
    ASSUME TypeOK, NEW w \in Workers, Pops(w)
    PROVE  /\ <<w, dequeue_pos[w]>> \notin Taken
           /\ Taken' = Taken \cup {<<w, dequeue_pos[w]>>}
           /\ Accepted' = Accepted
<1>0. /\ dequeue_pos \in [Workers -> Nat] /\ ready \in [Workers -> SUBSET Nat]
      /\ dequeue_pos[w] \in ready[w]
      /\ dequeue_pos' = [dequeue_pos EXCEPT ![w] = @ + 1]
      /\ ready' = [ready EXCEPT ![w] = @ \ {dequeue_pos[w]}]
  BY DEF TypeOK, Pops, HeadReady
<1> DEFINE d == dequeue_pos[w]
<1>1. /\ d \in Nat
      /\ dequeue_pos'[w] = d + 1 /\ \A v \in Workers \ {w} : dequeue_pos'[v] = dequeue_pos[v]
      /\ ready'[w] = ready[w] \ {d} /\ \A v \in Workers \ {w} : ready'[v] = ready[v]
  BY <1>0
<1>2. 0 .. dequeue_pos'[w] - 1 = (0 .. d - 1) \cup {d}
  BY <1>1
<1>3. \A v \in Workers : (0 .. dequeue_pos'[v] - 1) \cup ready'[v]
                             = (0 .. dequeue_pos[v] - 1) \cup ready[v]
  BY <1>0, <1>1, <1>2
<1>4. Accepted' = Accepted
  BY <1>3 DEF Accepted
<1>5. <<w, d>> \notin Taken
  <2>1. d \notin 0 .. d - 1
    BY <1>1
  <2> QED
    BY <2>1, Members
<1>6. \A x : x \in Taken' <=> x \in Taken \cup {<<w, d>>}
  <2>1. \A x : x \in Taken' <=>
           \E v \in Workers : \E i \in 0 .. dequeue_pos'[v] - 1 : x = <<v, i>>
    BY DEF Taken
  <2>2. \A v \in Workers \ {w} : 0 .. dequeue_pos'[v] - 1 = 0 .. dequeue_pos[v] - 1
    BY <1>1
  <2>3. ASSUME NEW x \in Taken'
        PROVE  x \in Taken \cup {<<w, d>>}
    <3>1. PICK v \in Workers : \E i \in 0 .. dequeue_pos'[v] - 1 : x = <<v, i>>
      BY <2>1, <2>3
    <3>2. PICK i \in 0 .. dequeue_pos'[v] - 1 : x = <<v, i>>
      BY <3>1
    <3>3. i \in 0 .. dequeue_pos[v] - 1 \/ (v = w /\ i = d)
      BY <1>2, <2>2, <3>2
    <3> QED
      BY <3>2, <3>3, Members
  <2>4. ASSUME NEW x \in Taken \cup {<<w, d>>}
        PROVE  x \in Taken'
    <3>1. CASE x \in Taken
      <4>1. PICK v \in Workers : \E i \in 0 .. dequeue_pos[v] - 1 : x = <<v, i>>
        BY <3>1, Members
      <4>2. 0 .. dequeue_pos[v] - 1 \subseteq 0 .. dequeue_pos'[v] - 1
        BY <1>2, <2>2
      <4> QED
        BY <2>1, <4>1, <4>2
    <3>2. CASE x = <<w, d>>
      BY <1>2, <2>1, <3>2
    <3> QED
      BY <2>4, <3>1, <3>2
  <2> QED
    BY <2>3, <2>4
<1> QED
  BY <1>4, <1>5, <1>6

(* Publishing accepts one frame more. *)
LEMMA PublishesFrame ==
    ASSUME TypeOK, FifoInv, NEW s \in Submitters, Publishes(s)
    PROVE  /\ <<shard[s], spos[s]>> \notin Accepted
           /\ Accepted' = Accepted \cup {<<shard[s], spos[s]>>}
<1> DEFINE v == shard[s]
           p == spos[s]
           Old(w) == (0 .. dequeue_pos[w] - 1) \cup ready[w]
           New(w) == (0 .. dequeue_pos'[w] - 1) \cup ready'[w]
<1>0. /\ dequeue_pos \in [Workers -> Nat] /\ ready \in [Workers -> SUBSET Nat]
      /\ v \in Workers /\ p \in Nat /\ Pending(s)
      /\ dequeue_pos' = dequeue_pos
      /\ ready' = [ready EXCEPT ![v] = @ \cup {p}]
  BY DEF TypeOK, Publishes, Pending
<1>1. dequeue_pos[v] <= p /\ p \notin ready[v]
  BY <1>0 DEF FifoInv
<1>2. p \notin Old(v)
  BY <1>0, <1>1
<1>3. New(v) = Old(v) \cup {p} /\ \A w \in Workers \ {v} : New(w) = Old(w)
  BY <1>0
<1>4. \A x : x \in Accepted <=> \E w \in Workers : \E i \in Old(w) : x = <<w, i>>
  BY Members
<1>5. \A x : x \in Accepted' <=> \E w \in Workers : \E i \in New(w) : x = <<w, i>>
  BY DEF Accepted
<1> HIDE DEF Old, New
<1>6. <<v, p>> \notin Accepted
  BY <1>2, <1>4
<1>7. \A x : x \in Accepted' <=> x \in Accepted \cup {<<v, p>>}
  <2>1. ASSUME NEW x \in Accepted'
        PROVE  x \in Accepted \cup {<<v, p>>}
    <3>1. PICK w \in Workers : \E i \in New(w) : x = <<w, i>>
      BY <1>5, <2>1
    <3>2. PICK i \in New(w) : x = <<w, i>>
      BY <3>1
    <3>3. i \in Old(w) \/ (w = v /\ i = p)
      BY <1>3, <3>2
    <3> QED
      BY <1>4, <3>2, <3>3
  <2>2. ASSUME NEW x \in Accepted \cup {<<v, p>>}
        PROVE  x \in Accepted'
    <3>1. CASE x \in Accepted
      BY <1>3, <1>4, <1>5, <3>1
    <3>2. CASE x = <<v, p>>
      BY <1>0, <1>3, <1>5, <3>2
    <3> QED
      BY <2>2, <3>1, <3>2
  <2> QED
    BY <2>1, <2>2
<1> QED
  BY <1>6, <1>7

(* The frame that process() returns from is a new one. *)
LEMMA ProcessedFrame ==
    ASSUME TypeOK, NEW w \in Workers, processed' = [processed EXCEPT ![w] = @ + 1]
    PROVE  /\ <<w, processed[w] + 1>> \notin Handled
           /\ Handled' = Handled \cup {<<w, processed[w] + 1>>}
<1> DEFINE n == processed[w]
           Old(v) == 1 .. processed[v]
           New(v) == 1 .. processed'[v]
<1>0. n \in Nat /\ processed \in [Workers -> Nat]
  BY DEF TypeOK
<1>1. n + 1 \notin Old(w)
  BY <1>0
<1>2. New(w) = Old(w) \cup {n + 1} /\ \A v \in Workers \ {w} : New(v) = Old(v)
  BY <1>0
<1>3. \A x : x \in Handled <=> \E v \in Workers : \E i \in Old(v) : x = <<v, i>>
  BY Members
<1>4. \A x : x \in Handled' <=> \E v \in Workers : \E i \in New(v) : x = <<v, i>>
  BY DEF Handled
<1> HIDE DEF Old, New
<1>5. <<w, n + 1>> \notin Handled
  BY <1>1, <1>3
<1>6. \A x : x \in Handled' <=> x \in Handled \cup {<<w, n + 1>>}
  <2>1. ASSUME NEW x \in Handled'
        PROVE  x \in Handled \cup {<<w, n + 1>>}
    <3>1. PICK v \in Workers : \E i \in New(v) : x = <<v, i>>
      BY <1>4, <2>1
    <3>2. PICK i \in New(v) : x = <<v, i>>
      BY <3>1
    <3>3. i \in Old(v) \/ (v = w /\ i = n + 1)
      BY <1>2, <3>2
    <3> QED
      BY <1>3, <3>2, <3>3
  <2>2. ASSUME NEW x \in Handled \cup {<<w, n + 1>>}
        PROVE  x \in Handled'
    <3>1. CASE x \in Handled
      BY <1>2, <1>3, <1>4, <3>1
    <3>2. CASE x = <<w, n + 1>>
      BY <1>2, <1>4, <3>2
    <3> QED
      BY <2>2, <3>1, <3>2
  <2> QED
    BY <2>1, <2>2
<1> QED
  BY <1>5, <1>6

(* Every step keeps the books: what is published is counted as submitted   *)
(* or about to be, and what is taken out is processed, being processed or  *)
(* abandoned.                                                              *)
LEMMA FrameStep ==
    ASSUME TypeOK, FifoInv, FrameInv, [Next]_vars
    PROVE  FrameInv'
<1>0. /\ submitted \in Nat /\ abandoned \in Nat
      /\ IsFiniteSet(Accepted) /\ Cardinality(Accepted) = submitted + Cardinality(Counting)
      /\ IsFiniteSet(Taken) /\ IsFiniteSet(Handled)
      /\ Cardinality(Taken) = Cardinality(Handled) + Cardinality(Busy) + abandoned
      /\ IsFiniteSet(Counting) /\ IsFiniteSet(Busy)
      /\ Cardinality(Counting) \in Nat /\ Cardinality(Busy) \in Nat
      /\ Cardinality(Handled) \in Nat /\ Cardinality(Accepted) \in Nat /\ Cardinality(Taken) \in Nat
  BY Finite, FS_CardinalityType DEF TypeOK, FrameInv, Counting, Busy
<1>1. ASSUME NEW s \in Submitters, Submitting(s)
      PROVE  FrameInv'
  <2>0. UNCHANGED <<abandoned, dequeue_pos, processed, wpc>>
    BY <1>1, SubmitFrame DEF workers
  <2>1. Taken' = Taken /\ Handled' = Handled /\ Busy' = Busy
    BY <2>0 DEF Taken, Handled, Busy
  <2>2. SUFFICES IsFiniteSet(Accepted') /\ Cardinality(Accepted') = submitted' + Cardinality(Counting')
    BY <1>0, <2>0, <2>1 DEF FrameInv
  <2>3. PICK l \in SubmitPC : spc' = [spc EXCEPT ![s] = l]
    BY <1>1, SubmitMoves DEF Moves
  <2>4. /\ Counting \ {s} = Counting' \ {s}
        /\ s \in Counting <=> spc[s] = "count"
        /\ s \in Counting' <=> spc'[s] = "count"
    BY <2>3 DEF Counting, TypeOK
  <2>5. Cardinality(Counting') = Cardinality(Counting) + (IF s \in Counting' THEN 1 ELSE 0)
                                                       - (IF s \in Counting THEN 1 ELSE 0)
    BY <1>0, <2>4, OneMoves
  <2>6. CASE Publish(s)
    <3>1. Publishes(s)
      BY <1>1, <2>6, SubmitEffect DEF Publish, GotoS, Publishes, OthersKeep, Pending, TypeOK,
                                      args, SameArgs
    <3>2. IsFiniteSet(Accepted') /\ Cardinality(Accepted') = Cardinality(Accepted) + 1
      BY <1>0, <3>1, PublishesFrame, OneMore
    <3>3. submitted' = submitted
      BY <2>6 DEF Publish, counters
    <3> QED
      BY <1>0, <2>4, <2>5, <3>1, <3>2, <3>3 DEF Publishes
  <2>7. CASE ~Publish(s)
    <3>1. ready' = ready
      BY <1>1, <2>7 DEF Submitting, SubmitStep, Call, Commit, SubmitRegister, SubmitCheck,
           SubmitClosed, SubmitReserve, SubmitUnpark, Count, Unregister, Leave, ClaimAdmit,
           ClaimClosed, Claim, ClaimRegister, KeyedRetry, rings, queue
    <3>2. Accepted' = Accepted
      BY <2>0, <3>1 DEF Accepted
    <3>3. CASE Count(s)
      <4>1. submitted' = submitted + 1 /\ spc[s] = "count" /\ spc'[s] = "unregister"
        BY <3>3 DEF Count, GotoS, TypeOK
      <4> QED
        BY <1>0, <2>4, <2>5, <3>2, <4>1
    <3>4. CASE ~Count(s)
      <4>1. submitted' = submitted
        BY <1>1, <2>7, <3>4 DEF Submitting, SubmitStep, Call, Commit, SubmitRegister, SubmitCheck,
             SubmitClosed, SubmitReserve, SubmitUnpark, Unregister, Leave, ClaimAdmit,
             ClaimClosed, Claim, ClaimRegister, KeyedRetry, counters
      <4>2. spc[s] # "count"
        BY <1>1, <2>7, <3>4 DEF Submitting, SubmitStep, Call, Commit, SubmitRegister, SubmitCheck,
             SubmitClosed, SubmitReserve, SubmitUnpark, Unregister, Leave, ClaimAdmit,
             ClaimClosed, Claim, ClaimRegister, KeyedRetry
      <4>3. spc'[s] # "count"
        <5> USE DEF GotoS, TypeOK
        <5>1. CASE \E a \in Apis, w \in Workers : Call(s, a, w)
          BY <5>1 DEF Call
        <5>2. CASE SubmitRegister(s) \/ SubmitCheck(s) \/ SubmitClosed(s) \/ SubmitUnpark(s)
          BY <5>2 DEF SubmitRegister, SubmitCheck, SubmitClosed, SubmitUnpark
        <5>3. CASE SubmitReserve(s) \/ Unregister(s) \/ Commit(s)
          BY <5>3 DEF SubmitReserve, Unregister, Commit
        <5>4. CASE Leave(s) \/ ClaimAdmit(s) \/ ClaimClosed(s) \/ Claim(s)
          BY <5>4 DEF Leave, ClaimAdmit, ClaimClosed, Claim, LeaveTo, Again
        <5>5. CASE ClaimRegister(s) \/ KeyedRetry(s)
          BY <5>5 DEF ClaimRegister, KeyedRetry
        <5> QED
          BY <1>1, <2>7, <3>4, <5>1, <5>2, <5>3, <5>4, <5>5 DEF Submitting, SubmitStep
      <4> QED
        BY <1>0, <2>4, <2>5, <3>2, <4>1, <4>2, <4>3
    <3> QED
      BY <3>3, <3>4
  <2> QED
    BY <2>6, <2>7
<1>2. ASSUME NEW w \in Workers, Working(w)
      PROVE  FrameInv'
  <2>0. UNCHANGED <<submitted, abandoned, spc>>
    BY <1>2, WorkFrame DEF clients, counters, subs
  <2>1. Counting' = Counting
    BY <2>0 DEF Counting
  <2>2. CASE WorkerPop(w)
    <3>1. Pops(w)
      BY <2>2 DEF WorkerPop, Pops, clients
    <3>2. Accepted' = Accepted /\ IsFiniteSet(Taken') /\ Cardinality(Taken') = Cardinality(Taken) + 1
      BY <1>0, <3>1, PopsFrame, OneMore
    <3>3. w \notin Busy /\ Busy' = Busy \cup {w}
      BY <2>2 DEF WorkerPop, Busy, GotoW, TypeOK
    <3>4. Cardinality(Busy') = Cardinality(Busy) + 1
      BY <1>0, <3>3, OneMore
    <3>5. Handled' = Handled
      BY <2>2 DEF WorkerPop, Handled
    <3> QED
      BY <1>0, <2>0, <2>1, <3>2, <3>4, <3>5 DEF FrameInv
  <2>3. CASE WorkerProcessed(w)
    <3>1. /\ UNCHANGED <<dequeue_pos, ready>>
          /\ processed' = [processed EXCEPT ![w] = @ + 1]
      BY <2>3 DEF WorkerProcessed, rings, queue
    <3>2. Accepted' = Accepted /\ Taken' = Taken
      BY <3>1 DEF Accepted, Taken
    <3>3. IsFiniteSet(Handled') /\ Cardinality(Handled') = Cardinality(Handled) + 1
      BY <1>0, <3>1, ProcessedFrame, OneMore
    <3>4. w \in Busy /\ Busy' = Busy \ {w}
      BY <2>3 DEF WorkerProcessed, Busy, GotoW, TypeOK
    <3>5. Cardinality(Busy') = Cardinality(Busy) - 1
      BY <1>0, <3>4, FS_RemoveElement
    <3> QED
      BY <1>0, <2>0, <2>1, <3>2, <3>3, <3>5 DEF FrameInv
  <2>4. CASE WorkerStart(w) \/ WorkerLoop(w) \/ WorkerDrained(w) \/ WorkerExit(w)
    <3>1. /\ UNCHANGED <<dequeue_pos, ready, processed>>
          /\ wpc[w] # "process" /\ wpc'[w] # "process"
          /\ \A v \in Workers \ {w} : wpc'[v] = wpc[v]
      BY <2>4 DEF WorkerStart, WorkerLoop, WorkerDrained, WorkerExit, rings, queue, GotoW, TypeOK
    <3>2. Accepted' = Accepted /\ Taken' = Taken /\ Handled' = Handled /\ Busy' = Busy
      BY <3>1 DEF Accepted, Taken, Handled, Busy
    <3> QED
      BY <1>0, <2>0, <2>1, <3>2 DEF FrameInv
  <2> QED
    BY <1>2, <2>2, <2>3, <2>4 DEF Working, WorkerStep
<1>3. ASSUME NEW c \in Callers, ShutdownCall(c) \/ ShutdownStep(c)
      PROVE  FrameInv'
  <2>0. UNCHANGED <<submitted, spc, processed, wpc>>
    BY <1>3, ShutdownFrame DEF subs
  <2>1. Counting' = Counting /\ Handled' = Handled /\ Busy' = Busy
    BY <2>0 DEF Counting, Handled, Busy
  <2>2. CASE ResidualPop(c) /\ HeadReady(widx)
    <3>1. Pops(widx) /\ widx \in Workers /\ abandoned' = abandoned + 1
      BY <2>2 DEF ResidualPop, Pops, TypeOK
    <3>2. Accepted' = Accepted /\ IsFiniteSet(Taken') /\ Cardinality(Taken') = Cardinality(Taken) + 1
      BY <1>0, <3>1, PopsFrame, OneMore
    <3> QED
      BY <1>0, <2>0, <2>1, <3>1, <3>2 DEF FrameInv
  <2>3. CASE ~(ResidualPop(c) /\ HeadReady(widx))
    <3>1. UNCHANGED <<abandoned, dequeue_pos, ready>>
      <4> USE DEF clients, counters, rings, queue
      <4>1. CASE ShutdownCall(c) \/ ShutdownLoad(c) \/ WaitEnter(c) \/ WaitStopped(c)
                 \/ ShutdownCas(c) \/ Quiesced(c) \/ QuiesceResult(c) \/ Drain(c) \/ CloseRing(c)
                 \/ MarkWorker(c)
        BY <4>1 DEF ShutdownCall, ShutdownLoad, WaitEnter, WaitStopped, ShutdownCas,
                    Quiesced, QuiesceResult, Drain, CloseRing, MarkWorker
      <4>2. CASE JoinWorker(c) \/ JoinExited(c) \/ JoinFailed(c) \/ JoinDone(c) \/ JoinTimeout(c)
        BY <4>2 DEF JoinWorker, JoinExited, JoinFailed, JoinDone, JoinTimeout
      <4>3. CASE JoinLate(c) \/ WriteOff(c) \/ Residual(c) \/ Final(c) \/ SetStopped(c)
                 \/ ShutdownReturn(c)
        BY <4>3 DEF JoinLate, WriteOff, Residual, Final, SetStopped, ShutdownReturn
      <4>4. CASE ResidualPop(c)
        BY <2>3, <4>4 DEF ResidualPop
      <4> QED
        BY <1>3, <4>1, <4>2, <4>3, <4>4 DEF ShutdownStep
    <3>2. Accepted' = Accepted /\ Taken' = Taken
      BY <3>1 DEF Accepted, Taken
    <3> QED
      BY <1>0, <2>0, <2>1, <3>1, <3>2 DEF FrameInv
  <2> QED
    BY <2>2, <2>3
<1>4. ASSUME \/ UNCHANGED vars \/ Expire \/ DestroyCall \/ DestroyStep
             \/ \E w \in Workers : CallbackDestroy(w)
      PROVE  FrameInv'
  <2>1. UNCHANGED <<counters, queue, subs, workers>>
    BY <1>4, CallbackFrame, ExpireFrame, DestroyFrame DEF vars, clients, rings
  <2>2. /\ Accepted' = Accepted /\ Taken' = Taken /\ Handled' = Handled
        /\ Counting' = Counting /\ Busy' = Busy
        /\ UNCHANGED <<submitted, abandoned>>
    BY <2>1 DEF counters, queue, subs, workers, Accepted, Taken, Handled, Counting, Busy
  <2> QED
    BY <1>0, <2>2 DEF FrameInv
<1> QED
  BY <1>1, <1>2, <1>3, <1>4, Kinds

(***************************************************************************)
(* Admission ends before the rings are closed.                             *)
(***************************************************************************)

(* A ring that is closed stays closed, and shutdown closes one only when   *)
(* it is draining, or when it quarantines the pool.                        *)
LEMMA ClosedStep ==
    ASSUME TypeOK, DriverInv, [Next]_vars
    PROVE  \A w \in Workers :
              /\ closed[w] => closed'[w]
              /\ closed'[w] => closed[w] \/ quarantined' \/ lifecycle' = "DRAINING"
<1>1. ASSUME NEW c \in Callers, ShutdownCall(c) \/ ShutdownStep(c), closed' # closed
      PROVE  QuiesceResult(c) \/ CloseRing(c) \/ JoinLate(c)
  BY <1>1 DEF ShutdownStep, ShutdownCall, ShutdownLoad, WaitEnter, WaitStopped, ShutdownCas,
       Quiesced, Drain, MarkWorker, JoinWorker, JoinExited, JoinFailed, JoinDone, JoinTimeout,
       WriteOff, Residual, ResidualPop, Final, SetStopped, ShutdownReturn, rings
<1>2. ASSUME NEW c \in Callers, QuiesceResult(c) \/ CloseRing(c) \/ JoinLate(c)
      PROVE  \A w \in Workers :
                /\ closed[w] => closed'[w]
                /\ closed'[w] => closed[w] \/ quarantined' \/ lifecycle' = "DRAINING"
  <2>1. CASE QuiesceResult(c)
    BY <2>1 DEF QuiesceResult, TypeOK
  <2>2. CASE CloseRing(c) \/ JoinLate(c)
    <3>1. lifecycle' = "DRAINING"
      BY <2>2 DEF CloseRing, JoinLate, DriverInv, Drainer, Joining, flags, life
    <3>2. closed' = [closed EXCEPT ![widx] = TRUE]
      BY <2>2 DEF CloseRing, JoinLate
    <3> QED
      BY <3>1, <3>2 DEF TypeOK
  <2> QED
    BY <1>2, <2>1, <2>2
<1>3. ASSUME \/ UNCHANGED vars \/ Expire \/ DestroyCall \/ DestroyStep
             \/ \E w \in Workers : Working(w) \/ CallbackDestroy(w)
             \/ \E s \in Submitters : Submitting(s)
      PROVE  closed' = closed
  BY <1>3, WorkFrame, CallbackFrame, ExpireFrame, SubmitFrame, DestroyFrame DEF vars, rings
<1> QED
  BY <1>1, <1>2, <1>3, Kinds

(* Draining begins when admission is over. *)
LEMMA OverStep ==
    ASSUME TypeOK, Counted, DriverInv, [Next]_vars, ~quarantined', AdmissionOver'
    PROVE  AdmissionOver \/ (Registered = {} /\ UNCHANGED subs)
<1>1. ASSUME NEW c \in Callers, ShutdownCall(c) \/ ShutdownStep(c)
      PROVE  AdmissionOver \/ (Registered = {} /\ UNCHANGED subs)
  <2>1. UNCHANGED subs
    BY <1>1, ShutdownFrame
  <2>2. PICK l \in CallerPC : cpc' = [cpc EXCEPT ![c] = l] /\ Phase(c, l)
    BY <1>1, Phases
  <2>3. CASE QuiesceResult(c)
    <3>1. ~(active_submits > 0)
      BY <2>3 DEF QuiesceResult
    <3>2. Cardinality(Registered) = 0 /\ IsFiniteSet(Registered)
      BY <3>1, Finite DEF TypeOK, Counted, RefsCounted, Registered
    <3>3. Registered = {}
      BY <3>2, FS_EmptySet
    <3> QED
      BY <2>1, <3>3
  <2>4. CASE ~QuiesceResult(c)
    <3>1. l # "drain"
      <4> USE <2>2 DEF TypeOK, GotoC
      <4>1. CASE cpc[c] \in Quiescer
        BY <1>1, <2>4, <4>1 DEF ShutdownCall, ShutdownStep, ShutdownLoad, WaitEnter, WaitStopped,
             ShutdownCas, Quiesced, Drain, CloseRing, MarkWorker, JoinWorker, JoinExited,
             JoinFailed, JoinDone, JoinTimeout, JoinLate, WriteOff, Residual, ResidualPop, Final,
             SetStopped, ShutdownReturn, Quiescer
      <4>2. CASE cpc[c] \notin Quiescer
        BY <4>2 DEF Phase, Quiescer, Drainer, Joining
      <4> QED
        BY <4>1, <4>2
    <3>2. \A d \in Callers : cpc'[d] = "drain" => cpc[d] = "drain"
      BY <2>2, <3>1 DEF TypeOK
    <3>3. lifecycle' \in {"DRAINING", "STOPPED"} =>
             lifecycle \in {"DRAINING", "STOPPED"} \/ cpc[c] = "drain"
      BY <2>2 DEF Phase, DriverInv, Drainer
    <3> QED
      BY <3>2, <3>3 DEF AdmissionOver
  <2> QED
    BY <2>3, <2>4
<1>2. ASSUME DestroyCall \/ DestroyStep
      PROVE  AdmissionOver
  <2>1. lifecycle' = lifecycle
    BY <1>2, DestroyFrame
  <2>2. \A d \in Callers : cpc'[d] = "drain" => cpc[d] = "drain"
    BY <1>2, DestroyMoves, PoolAssumption DEF TypeOK
  <2> QED
    BY <2>1, <2>2 DEF AdmissionOver
<1>3. ASSUME \/ UNCHANGED vars \/ Expire
             \/ \E w \in Workers : Working(w) \/ CallbackDestroy(w)
             \/ \E s \in Submitters : Submitting(s)
      PROVE  AdmissionOver
  <2>1. UNCHANGED <<cpc, lifecycle>>
    BY <1>3, WorkFrame, CallbackFrame, ExpireFrame, SubmitFrame
       DEF vars, control, flags, life, callers
  <2> QED
    BY <2>1 DEF AdmissionOver
<1> QED
  BY <1>1, <1>2, <1>3, Kinds

(* A submit is admitted only by a pool that is running. *)
LEMMA AdmittedStep ==
    ASSUME TypeOK, ApiInv, NEW s \in Submitters, Submitting(s), Admitted(s)'
    PROVE  Admitted(s) \/ Admitting
<1>0. spc \in [Submitters -> SubmitPC] /\ api \in [Submitters -> Apis \cup {"none"}]
  BY DEF TypeOK
<1> USE <1>0 DEF Admitted, GotoS, args
<1>1. CASE \E a \in Apis, w \in Workers : Call(s, a, w)
  BY <1>1 DEF Call
<1>2. CASE SubmitRegister(s) \/ SubmitUnpark(s) \/ Publish(s) \/ Count(s) \/ Unregister(s)
  BY <1>2 DEF SubmitRegister, SubmitUnpark, Publish, Count, Unregister
<1>3. CASE SubmitCheck(s)
  BY <1>3 DEF SubmitCheck
<1>4. CASE SubmitClosed(s) \/ SubmitReserve(s)
  BY <1>4 DEF SubmitClosed, SubmitReserve
<1>5. CASE Leave(s) \/ ClaimAdmit(s) \/ ClaimClosed(s)
  BY <1>5 DEF Leave, ClaimAdmit, ClaimClosed, LeaveTo, Again
<1>6. CASE Claim(s)
  BY <1>6 DEF Claim, LeaveTo, Again
<1>7. CASE ClaimRegister(s) \/ Commit(s)
  BY <1>7 DEF ClaimRegister, Commit, ApiInv
<1>8. CASE KeyedRetry(s)
  BY <1>8 DEF KeyedRetry
<1> QED
  BY <1>1, <1>2, <1>3, <1>4, <1>5, <1>6, <1>7, <1>8 DEF Submitting, SubmitStep

(* Admission stays over, and no submit meets a closed ring before. *)
LEMMA AdmissionStep ==
    ASSUME TypeOK, Counted, DriverInv, ApiInv, AdmissionInv, [Next]_vars
    PROVE  AdmissionInv'
<1>0. Settled
  BY SettledStep
<1>1. \A w \in Workers : closed'[w] => lifecycle' \in {"DRAINING", "STOPPED"} \/ quarantined'
  <2>1. lifecycle \in {"DRAINING", "STOPPED"} => lifecycle' \in {"DRAINING", "STOPPED"}
    <3>1. ASSUME NEW c \in Callers, ShutdownCall(c) \/ ShutdownStep(c)
          PROVE  lifecycle \in {"DRAINING", "STOPPED"} => lifecycle' \in {"DRAINING", "STOPPED"}
      BY <3>1, Phases DEF Phase
    <3>2. ASSUME \/ UNCHANGED vars \/ Expire \/ DestroyCall \/ DestroyStep
                 \/ \E w \in Workers : Working(w) \/ CallbackDestroy(w)
                 \/ \E s \in Submitters : Submitting(s)
          PROVE  lifecycle' = lifecycle
      BY <3>2, WorkFrame, CallbackFrame, ExpireFrame, SubmitFrame, DestroyFrame
         DEF vars, control, flags, life
    <3> QED
      BY <3>1, <3>2, Kinds
  <2> QED
    BY <1>0, <2>1, ClosedStep DEF AdmissionInv, Settled
<1>2. ASSUME ~quarantined', AdmissionOver', NEW s \in Submitters
      PROVE  ~Admitted(s)'
  <2>0. ~quarantined
    BY <1>0, <1>2 DEF Settled
  <2>1. CASE Registered = {} /\ UNCHANGED subs
    BY <2>1 DEF Registered, Admitted, subs, args
  <2>2. CASE AdmissionOver
    <3>1. ~Admitted(s)
      BY <2>0, <2>2 DEF AdmissionInv
    <3>2. ~Admitting
      BY <2>2 DEF AdmissionOver, Admitting, DriverInv, Quiescer
    <3>3. CASE Submitting(s)
      BY <3>1, <3>2, <3>3, AdmittedStep
    <3>4. CASE ~Submitting(s)
      <4>1. ASSUME NEW t \in Submitters \ {s}, Submitting(t)
            PROVE  spc'[s] = spc[s] /\ api'[s] = api[s]
        <5>1. spc'[s] = spc[s]
          BY <4>1, SubmitMoves DEF Moves, TypeOK
        <5>2. \/ UNCHANGED api
              \/ \E x : api' = [api EXCEPT ![t] = x]
          BY <4>1 DEF Submitting, SubmitStep, Call, Commit, SubmitRegister, SubmitCheck,
               SubmitClosed, SubmitReserve, SubmitUnpark, Publish, Count, Unregister, Leave,
               ClaimAdmit, ClaimClosed, Claim, ClaimRegister, KeyedRetry, LeaveTo, args
        <5> QED
          BY <5>1, <5>2 DEF TypeOK
      <4>2. ASSUME \/ UNCHANGED vars \/ Expire \/ DestroyCall \/ DestroyStep
                   \/ \E w \in Workers : Working(w) \/ CallbackDestroy(w)
                   \/ \E c \in Callers : ShutdownCall(c) \/ ShutdownStep(c)
            PROVE  UNCHANGED <<spc, api>>
        BY <4>2, WorkFrame, CallbackFrame, ExpireFrame, ShutdownFrame, DestroyFrame
           DEF vars, clients, subs, args
      <4> QED
        BY <3>1, <3>4, <4>1, <4>2, Kinds DEF Admitted
    <3> QED
      BY <3>3, <3>4
  <2> QED
    BY <1>2, <2>1, <2>2, OverStep
<1>3. NoDrops'
  <2>1. CASE dropped' = dropped
    BY <1>0, <2>1 DEF AdmissionInv, NoDrops, Settled
  <2>2. ASSUME NEW s \in Submitters, SubmitClosed(s)
        PROVE  NoDrops'
    <3>1. CASE closed[shard[s]]
      <4>1. shard[s] \in Workers /\ spc[s] = "closed" /\ api[s] = "submit"
        BY <2>2 DEF TypeOK, SubmitClosed, ApiInv
      <4>2. quarantined
        BY <3>1, <4>1 DEF AdmissionInv, AdmissionOver, Admitted
      <4> QED
        BY <1>0, <4>2 DEF Settled, NoDrops
    <3>2. CASE ~closed[shard[s]]
      BY <2>1, <2>2, <3>2 DEF SubmitClosed
    <3> QED
      BY <3>1, <3>2
  <2>3. ASSUME NEW s \in Submitters, Submitting(s), ~SubmitClosed(s)
        PROVE  dropped' = dropped
    BY <2>3 DEF Submitting, SubmitStep, Call, Commit, SubmitRegister, SubmitCheck,
         SubmitReserve, SubmitUnpark, Publish, Count, Unregister, Leave,
         ClaimAdmit, ClaimClosed, Claim, ClaimRegister, KeyedRetry, counters
  <2>4. ASSUME \/ UNCHANGED vars \/ Expire \/ DestroyCall \/ DestroyStep
               \/ \E w \in Workers : Working(w) \/ CallbackDestroy(w)
               \/ \E c \in Callers : ShutdownCall(c) \/ ShutdownStep(c)
        PROVE  dropped' = dropped
    BY <2>4, WorkFrame, CallbackFrame, ExpireFrame, ShutdownFrame, DestroyFrame
       DEF vars, clients, counters
  <2> QED
    BY <2>1, <2>2, <2>3, <2>4, Kinds
<1> QED
  BY <1>1, <1>2, <1>3 DEF AdmissionInv

(***************************************************************************)
(* A pool that is used through awp_submit alone.                           *)
(***************************************************************************)

(* Once admission is over nobody holds, or can take, a position. *)
LEMMA NobodyPending ==
    ASSUME Apis \subseteq {"submit"}, TypeOK, ApiInv, AdmissionInv,
           lifecycle \in {"DRAINING", "STOPPED"}, ~quarantined
    PROVE  \A s \in Submitters :
              ~Pending(s) /\ spc[s] \notin {"reserve", "claim", "count"}
<1> SUFFICES ASSUME NEW s \in Submitters
             PROVE  ~Pending(s) /\ spc[s] \notin {"reserve", "claim", "count"}
  OBVIOUS
<1>1. ~Admitted(s)
  BY DEF AdmissionInv, AdmissionOver
<1>2. api[s] \in {"submit", "none"}
  BY DEF TypeOK
<1> QED
  BY <1>1, <1>2 DEF Admitted, ApiInv, Pending

(* So the tails of the rings stay where they are. *)
LEMMA TailsStay ==
    ASSUME Apis \subseteq {"submit"}, TypeOK, ApiInv, AdmissionInv, [Next]_vars,
           lifecycle \in {"DRAINING", "STOPPED"}, ~quarantined
    PROVE  UNCHANGED enqueue_pos
  BY NobodyPending, RingEffect DEF Keeps, Takes, Publishes, Pops

(* A worker is about to be written off until it is. *)
LEMMA WrittenOffStep ==
    ASSUME TypeOK, DriverInv, [Next]_vars
    PROVE  /\ WrittenOff => WrittenOff'
           /\ \A w \in Workers : stop'[w] => stop[w] \/ WrittenOff'
<1>0. Settled
  BY SettledStep
<1>1. ASSUME NEW c \in Callers, ShutdownCall(c) \/ ShutdownStep(c)
      PROVE  /\ WrittenOff => WrittenOff'
             /\ \A w \in Workers : stop'[w] => stop[w] \/ WrittenOff'
  <2>1. \A d \in Callers \ {c} : cpc'[d] = cpc[d]
    BY <1>1, ShutdownMoves DEF TypeOK
  <2>2. CASE cpc[c] = "writeoff"
    <3>1. WriteOff(c)
      BY <1>1, <2>2 DEF ShutdownCall, ShutdownStep, ShutdownLoad, WaitEnter, WaitStopped,
           ShutdownCas, Quiesced, QuiesceResult, Drain, CloseRing, MarkWorker, JoinWorker,
           JoinExited, JoinFailed, JoinDone, JoinTimeout, JoinLate, Residual, ResidualPop, Final,
           SetStopped, ShutdownReturn
    <3> QED
      BY <3>1 DEF WriteOff, Quarantine, WrittenOff
  <2>3. CASE cpc[c] # "writeoff"
    <3>1. WrittenOff => WrittenOff'
      BY <1>0, <2>1, <2>3 DEF WrittenOff, Settled
    <3>2. CASE JoinLate(c)
      BY <3>2 DEF JoinLate, GotoC, WrittenOff, TypeOK
    <3>3. CASE ~JoinLate(c)
      <4>1. stop' = stop
        BY <1>1, <3>3 DEF ShutdownCall, ShutdownStep, ShutdownLoad, WaitEnter, WaitStopped,
           ShutdownCas, Quiesced, QuiesceResult, Drain, CloseRing, MarkWorker, JoinWorker,
           JoinExited, JoinFailed, JoinDone, JoinTimeout, WriteOff, Residual, ResidualPop, Final,
           SetStopped, ShutdownReturn, workers
      <4> QED
        BY <3>1, <4>1
    <3> QED
      BY <3>1, <3>2, <3>3
  <2> QED
    BY <2>2, <2>3
<1>2. ASSUME DestroyCall \/ DestroyStep
      PROVE  /\ WrittenOff => WrittenOff'
             /\ stop' = stop
  <2>1. \A d \in Callers : cpc[d] = "writeoff" => cpc'[d] = "writeoff"
    BY <1>2, DestroyMoves, PoolAssumption DEF TypeOK
  <2> QED
    BY <1>0, <1>2, <2>1, DestroyFrame DEF WrittenOff, Settled, workers
<1>3. ASSUME \/ UNCHANGED vars \/ Expire
             \/ \E w \in Workers : Working(w) \/ CallbackDestroy(w)
             \/ \E s \in Submitters : Submitting(s)
      PROVE  UNCHANGED <<cpc, stop>>
  BY <1>3, WorkFrame, CallbackFrame, ExpireFrame, SubmitFrame
     DEF vars, control, callers, workers
<1> QED
  BY <1>0, <1>1, <1>2, <1>3, Kinds DEF WrittenOff, Settled

(* A worker exits because it is written off, or because its ring is closed *)
(* and empty for good.                                                     *)
LEMMA ExitStep ==
    ASSUME Apis \subseteq {"submit"}, TypeOK, DriverInv, FifoInv, ApiInv, AdmissionInv, ExitInv,
           [Next]_vars
    PROVE  ExitInv'
<1> SUFFICES ASSUME NEW w \in Workers
             PROVE  /\ stop'[w] => WrittenOff'
                    /\ wpc'[w] \in {"exit", "ended"} =>
                          WrittenOff' \/ (closed'[w] /\ enqueue_pos'[w] = dequeue_pos'[w])
  BY DEF ExitInv
<1>1. stop'[w] => WrittenOff'
  BY WrittenOffStep DEF ExitInv
<1>2. CASE WrittenOff
  BY <1>1, <1>2, WrittenOffStep
<1>3. CASE ~WrittenOff
  <2>0. /\ ~quarantined /\ ~stop[w]
        /\ wpc[w] \in {"exit", "ended"} => closed[w] /\ enqueue_pos[w] = dequeue_pos[w]
    BY <1>3 DEF ExitInv, WrittenOff
  <2>1. CASE wpc[w] \in {"exit", "ended"}
    <3>1. lifecycle \in {"DRAINING", "STOPPED"} /\ closed'[w]
      BY <2>0, <2>1, ClosedStep DEF AdmissionInv
    <3>2. enqueue_pos' = enqueue_pos
      BY <2>0, <3>1, TailsStay
    <3>3. ~Pops(w)
      <4>1. dequeue_pos[w] \notin ready[w]
        BY <2>0, <2>1 DEF TypeOK, FifoInv
      <4> QED
        BY <4>1 DEF Pops, HeadReady
    <3>4. dequeue_pos'[w] = dequeue_pos[w]
      BY <3>3, RingEffect DEF Keeps, Takes, Publishes, Pops, TypeOK
    <3> QED
      BY <1>1, <2>0, <2>1, <3>1, <3>2, <3>4
  <2>2. CASE wpc[w] \notin {"exit", "ended"} /\ wpc'[w] \in {"exit", "ended"}
    <3>1. WorkerDrained(w)
      <4>1. \A v \in Workers : Working(v) => v = w
        <5>1. ASSUME NEW v \in Workers, Working(v), v # w
              PROVE  wpc'[w] = wpc[w]
          BY <5>1 DEF Working, WorkerStep, WorkerStart, WorkerLoop, WorkerPop, WorkerDrained,
                      WorkerExit, WorkerProcessed, GotoW, TypeOK
        <5> QED
          BY <2>2, <5>1
      <4>2. Working(w)
        <5>1. ASSUME \/ UNCHANGED vars \/ Expire \/ DestroyCall \/ DestroyStep
                     \/ \E v \in Workers : CallbackDestroy(v)
                     \/ \E s \in Submitters : Submitting(s)
                     \/ \E c \in Callers : ShutdownCall(c) \/ ShutdownStep(c)
              PROVE  wpc' = wpc
          BY <5>1, CallbackFrame, ExpireFrame, SubmitFrame, ShutdownFrame, DestroyFrame
             DEF vars, workers
        <5> QED
          BY <2>2, <4>1, <5>1, Kinds
      <4>3. CASE WorkerLoop(w)
        <5>1. wpc'[w] = "pop"
          BY <2>0, <4>3 DEF WorkerLoop, GotoW, TypeOK
        <5> QED
          BY <2>2, <5>1
      <4>4. CASE WorkerStart(w) \/ WorkerPop(w) \/ WorkerExit(w) \/ WorkerProcessed(w)
        <5>1. wpc'[w] \in {"loop", "process"} \/ wpc[w] = "exit"
          BY <4>4 DEF WorkerStart, WorkerPop, WorkerExit, WorkerProcessed, GotoW, TypeOK
        <5> QED
          BY <2>2, <5>1
      <4> QED
        BY <4>2, <4>3, <4>4 DEF Working, WorkerStep
    <3>2. closed[w] /\ ~HeadReady(w) /\ UNCHANGED <<closed, enqueue_pos, dequeue_pos>>
      BY <3>1 DEF WorkerDrained, rings, queue
    <3>3. \A s \in Submitters : ~Pending(s)
      BY <2>0, <3>2, NobodyPending DEF AdmissionInv
    <3>4. enqueue_pos[w] = dequeue_pos[w]
      <4>1. /\ dequeue_pos[w] \in Nat /\ enqueue_pos[w] \in Nat
            /\ dequeue_pos[w] <= enqueue_pos[w]
        BY DEF TypeOK, FifoInv
      <4>2. ~(dequeue_pos[w] < enqueue_pos[w])
        BY <3>2, <3>3, <4>1 DEF FifoInv, HeadReady
      <4> QED
        BY <4>1, <4>2
    <3> QED
      BY <1>1, <3>2, <3>4
  <2> QED
    BY <1>1, <2>1, <2>2
<1> QED
  BY <1>2, <1>3

(***************************************************************************)
(* The theorems.                                                           *)
(***************************************************************************)
PoolInv == SharedInv /\ GoneInv /\ AdmissionInv

(* awp_pool_create leaves a pool that satisfies the invariant. *)
LEMMA PoolInit ==
    ASSUME Init
    PROVE  PoolInv /\ ExitInv
<1>0. NWorkers \in Nat \ {0} /\ Capacity \in Nat \ {0, 1} /\ Owner \in Callers /\ MaxCalls \in Nat
  BY PoolAssumption
<1> USE DEF Init, InitStorage
<1>1. TypeOK
  <2>1. 0 \in Workers
    BY <1>0 DEF Workers
  <2>2. spc \in [Submitters -> SubmitPC] /\ cpc \in [Callers -> CallerPC]
    BY DEF SubmitPC, CallerPC
  <2>3. store \in [Workers -> [0 .. Capacity - 1 -> Nat \cup {NoFrame}]]
    OBVIOUS
  <2>4. /\ calls \in 0 .. MaxCalls /\ widx \in Workers
        /\ shard \in [Submitters -> Workers] /\ spos \in [Submitters -> Nat]
        /\ api \in [Submitters -> Apis \cup {"none"}]
    BY <1>0, <2>1
  <2>5. /\ enqueue_pos \in [Workers -> Nat] /\ dequeue_pos \in [Workers -> Nat]
        /\ ready \in [Workers -> SUBSET Nat] /\ processed \in [Workers -> Nat]
        /\ closed \in [Workers -> BOOLEAN] /\ stop \in [Workers -> BOOLEAN]
        /\ joined \in [Workers -> BOOLEAN]
    OBVIOUS
  <2>6. /\ state \in [Workers -> {"STARTING", "RUNNING", "EXITED", "JOINED", "QUARANTINED"}]
        /\ wpc \in [Workers -> {"start", "loop", "pop", "process", "exit", "ended"}]
        /\ result \in [Callers -> {"none", "clean", "late"}]
    OBVIOUS
  <2>7. /\ lifecycle \in {"RUNNING", "QUIESCING", "DRAINING", "STOPPED"}
        /\ active_submits \in Nat /\ api_refs \in Nat
        /\ shutdown_waiters \in Nat /\ shutdown_aborts \in {0, 1}
        /\ quarantined \in BOOLEAN /\ destroy_started \in BOOLEAN
        /\ submitted \in Nat /\ dropped \in Nat /\ abandoned \in Nat /\ can_close \in BOOLEAN
        /\ supervisor_joined \in BOOLEAN /\ expired \in BOOLEAN
        /\ memory \in {"live", "freed", "leaked"}
    OBVIOUS
  <2> HIDE DEF Init, InitStorage
  <2> QED
    BY <2>2, <2>3, <2>4, <2>5, <2>6, <2>7 DEF TypeOK
<1>2. Counted
  <2>1. Registered = {} /\ Inside = {} /\ Waiting = {}
    BY DEF Registered, Inside, Waiting
  <2> QED
    BY <2>1, FS_EmptySet DEF Counted, RefsCounted
<1>3. DriverInv /\ EndedInv /\ ApiInv
  BY DEF DriverInv, EndedInv, ApiInv, Quiescer, Drainer, Joining
<1>4. JoinInv
  BY DEF JoinInv, JoinAt, Joining
<1>5. CleanInv
  BY DEF CleanInv, CleanAt, CleanMeansJoined, Joining
<1>6. DestroyInv /\ GoneInv
  BY <1>0 DEF DestroyInv, NoUseAfterFree, GoneInv
<1>7. FifoInv
  BY DEF FifoInv, Pending
<1>8. FrameInv
  <2>1. Accepted = {} /\ Taken = {} /\ Handled = {} /\ Counting = {} /\ Busy = {}
    <3>1. \A w \in Workers : /\ 0 .. dequeue_pos[w] - 1 = {} /\ ready[w] = {}
                             /\ 1 .. processed[w] = {}
      OBVIOUS
    <3> QED
      BY <3>1, Members DEF Counting, Busy
  <2> QED
    BY <2>1, FS_EmptySet DEF FrameInv
<1>9. AdmissionInv
  BY DEF AdmissionInv, AdmissionOver, NoDrops
<1>10. ExitInv
  BY DEF ExitInv
<1> QED
  BY <1>1, <1>2, <1>3, <1>4, <1>5, <1>6, <1>7, <1>8, <1>9, <1>10 DEF PoolInv, SharedInv

(* Every step of the pool's threads keeps the shared part. *)
LEMMA SharedStep ==
    ASSUME SharedInv, Running \/ (ClientCall /\ GoneInv) \/ UNCHANGED vars
    PROVE  SharedInv'
<1>0. [Next]_vars
  BY DEF Next
<1>1. /\ TypeOK /\ Counted /\ DriverInv /\ EndedInv /\ JoinInv /\ CleanInv /\ DestroyInv
      /\ FifoInv /\ FrameInv /\ ApiInv
  BY DEF SharedInv
<1>2. TypeOK' /\ Counted' /\ DriverInv' /\ EndedInv' /\ JoinInv' /\ CleanInv'
  BY <1>0, <1>1, TypeStep, CountedStep, DriverStep, EndedStep, JoinStep, CleanStep
<1>3. DestroyInv' /\ FifoInv' /\ FrameInv' /\ ApiInv'
  BY <1>0, <1>1, DestroyInvStep, FifoStep, FrameStep, ApiStep
<1> QED
  BY <1>2, <1>3 DEF SharedInv

(* The invariant is inductive. *)
LEMMA PoolStep ==
    ASSUME PoolInv, [Next]_vars
    PROVE  PoolInv'
<1>1. SharedInv'
  BY SharedStep DEF PoolInv, Next
<1>2. GoneInv' /\ AdmissionInv'
  BY GoneStep, AdmissionStep DEF PoolInv, SharedInv
<1> QED
  BY <1>1, <1>2 DEF PoolInv

(* The invariant holds in every reachable state. *)
LEMMA PoolInvariant == Spec => []PoolInv
<1>1. Init => PoolInv
  BY PoolInit
<1>2. PoolInv /\ [Next]_vars => PoolInv'
  BY PoolStep
<1> QED
  BY <1>1, <1>2, PTL DEF Spec

(* Type correctness of the pool: in particular the counters that           *)
(* awp_api_leave, leave_submit and wait_until_stopped decrement never go   *)
(* below zero, and the shutdown loop's index stays a worker.               *)
THEOREM PoolTypeCorrect == Spec => []TypeOK
<1>1. PoolInv => TypeOK
  BY DEF PoolInv, SharedInv
<1> QED
  BY <1>1, PoolInvariant, PTL

(* active_submits and api_refs count the calls that are inside, whatever   *)
(* path each call takes out.                                               *)
THEOREM PoolRefsCounted == Spec => []RefsCounted
<1>1. PoolInv => RefsCounted
  BY DEF PoolInv, SharedInv, Counted
<1> QED
  BY <1>1, PoolInvariant, PTL

(* awp_pool_destroy frees the pool only when no worker, no submit, no      *)
(* claim and no shutdown is left in it.                                    *)
THEOREM PoolNoUseAfterFree == Spec => []NoUseAfterFree
<1>1. PoolInv => NoUseAfterFree
  BY DEF PoolInv, SharedInv, DestroyInv
<1> QED
  BY <1>1, PoolInvariant, PTL

(* The residual drain of awp_pool_shutdown never pops from the ring of a   *)
(* worker that is still running.                                           *)
THEOREM PoolSingleConsumer == Spec => []SingleConsumer
<1>1. PoolInv => SingleConsumer
  BY DEF PoolInv, SharedInv, JoinInv, JoinAt, SingleConsumer
<1> QED
  BY <1>1, PoolInvariant, PTL

(* awp_pool_shutdown returns 0 only when it has joined every worker. *)
THEOREM PoolCleanMeansJoined == Spec => []CleanMeansJoined
<1>1. PoolInv => CleanMeansJoined
  BY DEF PoolInv, SharedInv, CleanInv
<1> QED
  BY <1>1, PoolInvariant, PTL

(* awp_submit counts a drop only when the pool is quarantined. *)
THEOREM PoolNoDrops == Spec => []NoDrops
<1>1. PoolInv => NoDrops
  BY DEF PoolInv, AdmissionInv
<1> QED
  BY <1>1, PoolInvariant, PTL

(* Once shutdown drains a pool that is used through awp_submit alone and   *)
(* is not quarantined, no ring gets another frame.                         *)
THEOREM PoolAdmissionEnds ==
    ASSUME Apis \subseteq {"submit"}
    PROVE  Spec => AdmissionEnds
<1>1. PoolInv /\ [Next]_vars =>
         [(lifecycle \in {"DRAINING", "STOPPED"} /\ ~quarantined) => UNCHANGED enqueue_pos]_vars
  BY TailsStay DEF PoolInv, SharedInv
<1> QED
  BY <1>1, PoolInvariant, PTL DEF Spec, AdmissionEnds

(* A shutdown of a pool that is used through awp_submit alone and ends     *)
(* without quarantine has processed, or counted as abandoned, every frame  *)
(* that was accepted, and leaves every ring empty.                         *)
THEOREM PoolNoFrameLost ==
    ASSUME Apis \subseteq {"submit"}
    PROVE  Spec => []NoFrameLost
<1>1. Init => PoolInv /\ ExitInv
  BY PoolInit
<1>2. PoolInv /\ ExitInv /\ [Next]_vars => PoolInv' /\ ExitInv'
  BY PoolStep, ExitStep DEF PoolInv, SharedInv
<1>3. PoolInv /\ ExitInv => NoFrameLost
  <2> SUFFICES ASSUME PoolInv, ExitInv, lifecycle = "STOPPED", ~quarantined
               PROVE  /\ submitted = Processed + abandoned
                      /\ \A w \in Workers : enqueue_pos[w] = dequeue_pos[w]
    BY DEF NoFrameLost
  <2>0. /\ TypeOK /\ DriverInv /\ EndedInv /\ CleanInv /\ FifoInv /\ FrameInv /\ ApiInv
        /\ AdmissionInv
    BY DEF PoolInv, SharedInv
  <2>1. \A w \in Workers : joined[w] /\ wpc[w] = "ended"
    BY <2>0 DEF CleanInv, EndedInv
  <2>2. ~WrittenOff
    BY <2>0 DEF WrittenOff, DriverInv, Drainer, Joining
  <2>3. \A w \in Workers : enqueue_pos[w] = dequeue_pos[w]
    BY <2>1, <2>2 DEF ExitInv
  <2>4. \A w \in Workers : ready[w] = {}
    BY <2>0, <2>3 DEF TypeOK, FifoInv
  <2>5. Accepted = Taken
    BY <2>4 DEF Accepted, Taken
  <2>6. Busy = {}
    BY <2>1 DEF Busy
  <2>7. Counting = {}
    BY <2>0, NobodyPending DEF Counting
  <2>8. Cardinality(Busy) = 0 /\ Cardinality(Counting) = 0
    BY <2>6, <2>7, FS_EmptySet
  <2>9. Cardinality(Handled) \in Nat /\ submitted \in Nat /\ abandoned \in Nat
    BY <2>0, FS_CardinalityType DEF TypeOK, FrameInv
  <2>10. submitted = Cardinality(Handled) + abandoned
    BY <2>0, <2>5, <2>8, <2>9 DEF FrameInv
  <2> QED
    BY <2>3, <2>10 DEF Processed
<1> QED
  BY <1>1, <1>2, <1>3, PTL DEF Spec

=============================================================================
