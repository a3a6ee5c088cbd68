-------------------------------- MODULE Ring --------------------------------
(***************************************************************************)
(* The bounded ring of src/src/ring.c: a Vyukov sequence ring in one of    *)
(* four producer/consumer modes, with close/reopen and a hybrid spin/park  *)
(* wait on one mutex and one condition variable.                           *)
(*                                                                         *)
(* One step is one atomic operation of the C code (a load, a store, a      *)
(* compare-and-swap) or one critical section of wait_mu, under sequential  *)
(* consistency.  The spin budget is abstracted: where the code spins up to *)
(* 64 times and then parks, the model may do either.  The caller contracts *)
(* of the header are guards: a single-producer ring has one push at a time *)
(* and a single-consumer ring one pop at a time.                           *)
(***************************************************************************)
EXTENDS Integers, Sequences, FiniteSets

CONSTANTS Producers,   \* threads that push
          Consumers,   \* threads that pop
          Owners,      \* threads that close and reopen (shutdown, supervisor)
          NoThread,    \* wait_mu is free
          Modes,       \* producer/consumer modes awp_ring_init is called with
          Tries,       \* FALSE: push is called, TRUE: try_push is called
          Capacity,    \* cells in the ring (awp_round_up_pow2 never returns 1)
          MaxPush      \* bound: calls of push and try_push

Threads == Producers \cup Consumers \cup Owners

(* Frames are told apart by the call that pushes them: call n brings frame *)
(* n.  NoFrame is NULL or the cell's own storage, no caller's frame.       *)
Frames  == 1 .. MaxPush
NoFrame == 0

ASSUME RingAssumption ==
    /\ Capacity \in Nat \ {0, 1}
    /\ Modes \subseteq {"SPSC", "MPSC", "SPMC", "MPMC"}
    /\ Tries \subseteq BOOLEAN
    /\ MaxPush \in Nat
    /\ IsFiniteSet(Threads)
    /\ Consumers # {}                \* a ring has a worker that pops
    /\ NoThread \notin Threads
    /\ Producers \cap Consumers = {}
    /\ Producers \cap Owners = {}
    /\ Consumers \cap Owners = {}

VARIABLES
    mode,          \* fixed by awp_ring_init
    enqueue_pos, dequeue_pos,
    sequence,      \* cells[i].sequence
    data,          \* cells[i].data
    closed,
    waiters,       \* threads inside wait_space or wait_data
    wait_mu,       \* the holder of the mutex
    pc,            \* what each thread does next
    pos,           \* the position each thread loaded last
    frame,         \* push: the frame to insert; pop: the frame taken out
    trying,        \* TRUE in try_push
    log,           \* ghost: the frames in the order of their positions
    calls,         \* pushes called so far, for the bound
    quiet          \* ghost: closed while no push was in progress

ring   == <<enqueue_pos, dequeue_pos, sequence, data>>
park   == <<closed, waiters, wait_mu>>
locals == <<pos, frame, trying>>
ghosts == <<log, calls, quiet>>
vars   == <<mode, ring, park, pc, locals, ghosts>>

WaitPC == {"wait_inc", "wait_lock", "wait_enq", "wait_deq", "parked", "wait_dec"}
PushPC == {"idle", "p_closed", "p_pos", "p_seq", "p_claim", "p_data", "p_pub",
           "p_enq", "wake"} \cup WaitPC
PopPC  == {"idle", "drained", "c_pos", "c_seq", "c_closed", "c_recheck",
           "c_claim", "c_read", "c_rel", "wake"} \cup WaitPC
OwnPC  == {"idle", "broadcast"}

SP == mode \in {"SPSC", "SPMC"}
SC == mode \in {"SPSC", "MPSC"}

Slots  == 0 .. Capacity - 1
Idx(i) == i % Capacity

(* The two positions are loaded one after the other, so enq may be behind. *)
Depth(enq, deq) ==
    IF enq < deq THEN 0
    ELSE IF enq - deq > Capacity THEN Capacity ELSE enq - deq

InPush(p) == pc[p] # "idle"
InPop(c)  == pc[c] \notin {"idle", "drained"}

Goto(t, l) == pc' = [pc EXCEPT ![t] = l]

(* The loop of push or pop starts over: its pos goes out of scope. *)
Retry(t, l) ==
    /\ Goto(t, l)
    /\ pos' = [pos EXCEPT ![t] = 0]
    /\ UNCHANGED <<frame, trying>>

(* A thread leaves push or pop: all its local variables go out of scope. *)
Leave(t) ==
    /\ pos' = [pos EXCEPT ![t] = 0]
    /\ frame' = [frame EXCEPT ![t] = NoFrame]
    /\ trying' = [trying EXCEPT ![t] = FALSE]

Return(t, l) == Goto(t, l) /\ Leave(t)

Init ==
    /\ mode \in Modes
    /\ enqueue_pos = 0
    /\ dequeue_pos = 0
    /\ sequence = [i \in Slots |-> i]
    /\ data = [i \in Slots |-> NoFrame]
    /\ closed = FALSE
    /\ waiters = 0
    /\ wait_mu = NoThread
    /\ pc = [t \in Threads |-> "idle"]
    /\ pos = [t \in Threads |-> 0]
    /\ frame = [t \in Threads |-> NoFrame]
    /\ trying = [t \in Threads |-> FALSE]
    /\ log = <<>>
    /\ calls = 0
    /\ quiet = FALSE

(***************************************************************************)
(* awp_ring_push and awp_ring_try_push.                                    *)
(***************************************************************************)
PushCall(p, try) ==
    /\ pc[p] = "idle"
    /\ calls < MaxPush
    /\ SP => \A q \in Producers : ~InPush(q)
    /\ Goto(p, "p_closed")
    /\ frame' = [frame EXCEPT ![p] = calls + 1]
    /\ trying' = [trying EXCEPT ![p] = try]
    /\ calls' = calls + 1
    /\ UNCHANGED <<mode, ring, park, pos, log, quiet>>

PushClosed(p) ==
    /\ pc[p] = "p_closed"
    /\ IF closed THEN Return(p, "idle")
                 ELSE Goto(p, "p_pos") /\ UNCHANGED locals
    /\ UNCHANGED <<mode, ring, park, ghosts>>

PushPos(p) ==
    /\ pc[p] = "p_pos"
    /\ Goto(p, "p_seq")
    /\ pos' = [pos EXCEPT ![p] = enqueue_pos]
    /\ UNCHANGED <<mode, ring, park, frame, trying, ghosts>>

PushSeq(p) ==
    /\ pc[p] = "p_seq"
    /\ LET dif == sequence[Idx(pos[p])] - pos[p]
       IN  \/ /\ dif = 0
              /\ Goto(p, IF SP THEN "p_data" ELSE "p_claim")
              /\ UNCHANGED locals
           \/ /\ dif # 0 /\ trying[p]              \* -EAGAIN
              /\ Return(p, "idle")
           \/ /\ dif # 0 /\ ~trying[p]             \* spin
              /\ Retry(p, "p_closed")
           \/ /\ dif < 0 /\ ~trying[p]             \* spin budget used up
              /\ Retry(p, "wait_inc")
    /\ UNCHANGED <<mode, ring, park, ghosts>>

(* Variant: the position is stored without comparing it. *)
PushClaimBlind(p) ==
    /\ pc[p] = "p_claim"
    /\ enqueue_pos' = pos[p] + 1
    /\ log' = Append(log, frame[p])
    /\ Goto(p, "p_data")
    /\ UNCHANGED <<mode, dequeue_pos, sequence, data, park, locals, calls, quiet>>

PushClaim(p) ==
    /\ pc[p] = "p_claim"
    /\ enqueue_pos = pos[p]
    /\ enqueue_pos' = pos[p] + 1
    /\ log' = Append(log, frame[p])
    /\ Goto(p, "p_data")
    /\ UNCHANGED <<mode, dequeue_pos, sequence, data, park, locals, calls, quiet>>

(* The weak compare-and-swap may fail although the position is unchanged. *)
PushClaimFails(p) ==
    /\ pc[p] = "p_claim"
    /\ IF trying[p] THEN Return(p, "idle")
                    ELSE Retry(p, "p_closed")
    /\ UNCHANGED <<mode, ring, park, ghosts>>

PushData(p) ==
    /\ pc[p] = "p_data"
    /\ data' = [data EXCEPT ![Idx(pos[p])] = frame[p]]
    /\ Goto(p, "p_pub")
    /\ UNCHANGED <<mode, enqueue_pos, dequeue_pos, sequence, park, locals, ghosts>>

(* Variant: push returns without waking a parked consumer. *)
PushPublishSilent(p) ==
    /\ pc[p] = "p_pub"
    /\ sequence' = [sequence EXCEPT ![Idx(pos[p])] = pos[p] + 1]
    /\ log' = IF SP THEN Append(log, frame[p]) ELSE log
    /\ IF SP THEN Goto(p, "p_enq") /\ UNCHANGED locals ELSE Return(p, "idle")
    /\ UNCHANGED <<mode, enqueue_pos, dequeue_pos, data, park, calls, quiet>>

PushPublish(p) ==
    /\ pc[p] = "p_pub"
    /\ sequence' = [sequence EXCEPT ![Idx(pos[p])] = pos[p] + 1]
    /\ log' = IF SP THEN Append(log, frame[p]) ELSE log
    /\ Goto(p, IF SP THEN "p_enq" ELSE "wake")
    /\ UNCHANGED <<mode, enqueue_pos, dequeue_pos, data, park, locals, calls, quiet>>

PushEnq(p) ==
    /\ pc[p] = "p_enq"
    /\ enqueue_pos' = pos[p] + 1
    /\ Goto(p, "wake")
    /\ UNCHANGED <<mode, dequeue_pos, sequence, data, park, locals, ghosts>>

(***************************************************************************)
(* awp_ring_pop.                                                           *)
(***************************************************************************)
PopCall(c) ==
    /\ pc[c] = "idle"
    /\ SC => \A d \in Consumers : ~InPop(d)
    /\ Goto(c, "c_pos")
    /\ UNCHANGED <<mode, ring, park, locals, ghosts>>

PopPos(c) ==
    /\ pc[c] = "c_pos"
    /\ Goto(c, "c_seq")
    /\ pos' = [pos EXCEPT ![c] = dequeue_pos]
    /\ UNCHANGED <<mode, ring, park, frame, trying, ghosts>>

PopSeq(c) ==
    /\ pc[c] = "c_seq"
    /\ LET dif == sequence[Idx(pos[c])] - (pos[c] + 1)
       IN  \/ dif = 0 /\ Goto(c, "c_claim") /\ UNCHANGED locals
           \/ dif < 0 /\ Goto(c, "c_closed") /\ UNCHANGED locals
           \/ dif > 0 /\ Retry(c, "c_pos")
    /\ UNCHANGED <<mode, ring, park, ghosts>>

PopClosed(c) ==
    /\ pc[c] = "c_closed"
    /\ \/ closed /\ Goto(c, "c_recheck") /\ UNCHANGED locals
       \/ ~closed /\ Retry(c, "c_pos")             \* spin
       \/ ~closed /\ Retry(c, "wait_inc")          \* spin budget used up
    /\ UNCHANGED <<mode, ring, park, ghosts>>

(* Variant: closed is believed without a second look at the sequence. *)
PopRecheckMissing(c) ==
    /\ pc[c] = "c_recheck"
    /\ Return(c, "drained")
    /\ UNCHANGED <<mode, ring, park, ghosts>>

(* Closed and still not published: pop returns -1. *)
PopRecheck(c) ==
    /\ pc[c] = "c_recheck"
    /\ IF sequence[Idx(pos[c])] = pos[c] + 1
       THEN Retry(c, "c_pos")
       ELSE Return(c, "drained")
    /\ UNCHANGED <<mode, ring, park, ghosts>>

(* Variant: the plain store of a single consumer in every mode. *)
PopClaimPlain(c) ==
    /\ pc[c] = "c_claim"
    /\ dequeue_pos' = pos[c] + 1
    /\ Goto(c, "c_read")
    /\ UNCHANGED <<mode, enqueue_pos, sequence, data, park, locals, ghosts>>

(* A plain store by a single consumer, a compare-and-swap by several. *)
PopClaim(c) ==
    /\ pc[c] = "c_claim"
    /\ SC \/ dequeue_pos = pos[c]
    /\ dequeue_pos' = pos[c] + 1
    /\ Goto(c, "c_read")
    /\ UNCHANGED <<mode, enqueue_pos, sequence, data, park, locals, ghosts>>

PopClaimFails(c) ==
    /\ pc[c] = "c_claim"
    /\ ~SC
    /\ Retry(c, "c_pos")
    /\ UNCHANGED <<mode, ring, park, ghosts>>

PopRead(c) ==
    /\ pc[c] = "c_read"
    /\ frame' = [frame EXCEPT ![c] = data[Idx(pos[c])]]
    /\ data' = [data EXCEPT ![Idx(pos[c])] = NoFrame]
    /\ Goto(c, "c_rel")
    /\ UNCHANGED <<mode, enqueue_pos, dequeue_pos, sequence, park, pos, trying,
                   ghosts>>

(* Variants: the cell is released one position short, or a turn back, or   *)
(* nobody is woken.                                                        *)
PopReleaseShort(c) ==
    /\ pc[c] = "c_rel"
    /\ sequence' = [sequence EXCEPT ![Idx(pos[c])] = pos[c] + Capacity - 1]
    /\ Goto(c, "wake")
    /\ UNCHANGED <<mode, enqueue_pos, dequeue_pos, data, park, locals, ghosts>>

PopReleaseBack(c) ==
    /\ pc[c] = "c_rel"
    /\ sequence' = [sequence EXCEPT ![Idx(pos[c])] = pos[c] - Capacity]
    /\ Goto(c, "wake")
    /\ UNCHANGED <<mode, enqueue_pos, dequeue_pos, data, park, locals, ghosts>>

PopReleaseSilent(c) ==
    /\ pc[c] = "c_rel"
    /\ sequence' = [sequence EXCEPT ![Idx(pos[c])] = pos[c] + Capacity]
    /\ Return(c, "idle")
    /\ UNCHANGED <<mode, enqueue_pos, dequeue_pos, data, park, ghosts>>

PopRelease(c) ==
    /\ pc[c] = "c_rel"
    /\ sequence' = [sequence EXCEPT ![Idx(pos[c])] = pos[c] + Capacity]
    /\ Goto(c, "wake")
    /\ UNCHANGED <<mode, enqueue_pos, dequeue_pos, data, park, locals, ghosts>>

(***************************************************************************)
(* awp_ring_wake_if_needed at the end of a push or a pop.  The load of     *)
(* waiters and the broadcast are one step: when waiters is 0 nobody is     *)
(* parked and a broadcast would do nothing.                                *)
(***************************************************************************)
Woken(l) == [t \in Threads |-> IF pc[t] = "parked" THEN "wait_lock" ELSE l[t]]

Wake(t) ==
    /\ pc[t] = "wake"
    /\ \/ waiters = 0 /\ Goto(t, "idle")
       \/ waiters > 0 /\ wait_mu = NoThread /\ pc' = Woken([pc EXCEPT ![t] = "idle"])
    /\ Leave(t)
    /\ UNCHANGED <<mode, ring, park, ghosts>>

(***************************************************************************)
(* awp_ring_wait_space (a producer) and awp_ring_wait_data (a consumer).   *)
(***************************************************************************)
WaitEnter(t) ==
    /\ pc[t] = "wait_inc"
    /\ waiters' = waiters + 1
    /\ Goto(t, "wait_lock")
    /\ UNCHANGED <<mode, ring, closed, wait_mu, locals, ghosts>>

(* Variant: the wait on a closed ring returns early and stays counted. *)
WaitLockLeaks(t) ==
    /\ pc[t] = "wait_lock"
    /\ wait_mu = NoThread
    /\ \/ closed /\ Goto(t, IF t \in Producers THEN "p_closed" ELSE "c_pos") /\ UNCHANGED wait_mu
       \/ ~closed /\ Goto(t, "wait_enq") /\ wait_mu' = t
    /\ UNCHANGED <<mode, ring, closed, waiters, locals, ghosts>>

(* Lock, and test closed: when it is set the mutex is released at once. *)
WaitLock(t) ==
    /\ pc[t] = "wait_lock"
    /\ wait_mu = NoThread
    /\ \/ closed /\ Goto(t, "wait_dec") /\ UNCHANGED wait_mu
       \/ ~closed /\ Goto(t, "wait_enq") /\ wait_mu' = t
    /\ UNCHANGED <<mode, ring, closed, waiters, locals, ghosts>>

WaitEnq(t) ==
    /\ pc[t] = "wait_enq"
    /\ pos' = [pos EXCEPT ![t] = enqueue_pos]
    /\ Goto(t, "wait_deq")
    /\ UNCHANGED <<mode, ring, park, frame, trying, ghosts>>

MustWait(t, depth) == IF t \in Producers THEN depth >= Capacity ELSE depth = 0

WaitDeq(t) ==
    /\ pc[t] = "wait_deq"
    /\ Goto(t, IF MustWait(t, Depth(pos[t], dequeue_pos)) THEN "parked" ELSE "wait_dec")
    /\ wait_mu' = NoThread
    /\ UNCHANGED <<mode, ring, closed, waiters, locals, ghosts>>

WaitLeave(t) ==
    /\ pc[t] = "wait_dec"
    /\ waiters' = waiters - 1
    /\ Retry(t, IF t \in Producers THEN "p_closed" ELSE "c_pos")
    /\ UNCHANGED <<mode, ring, closed, wait_mu, ghosts>>

(* pthread_cond_wait may return without a broadcast. *)
SpuriousWakeup(t) ==
    /\ pc[t] = "parked"
    /\ Goto(t, "wait_lock")
    /\ UNCHANGED <<mode, ring, park, locals, ghosts>>

(***************************************************************************)
(* awp_ring_close and awp_ring_reopen, each a store and then wake_all.     *)
(* The supervisor reopens a ring only after it joined the ring's consumer  *)
(* (supervisor.c), which is then started anew.                             *)
(***************************************************************************)
(* Variant: close only stores the flag. *)
CloseSilent(o) ==
    /\ pc[o] = "idle"
    /\ closed' = TRUE
    /\ quiet' = IF closed THEN quiet ELSE \A p \in Producers : ~InPush(p)
    /\ UNCHANGED <<mode, ring, waiters, wait_mu, pc, locals, log, calls>>

Close(o) ==
    /\ pc[o] = "idle"
    /\ closed' = TRUE
    /\ quiet' = IF closed THEN quiet ELSE \A p \in Producers : ~InPush(p)
    /\ Goto(o, "broadcast")
    /\ UNCHANGED <<mode, ring, waiters, wait_mu, locals, log, calls>>

Reopen(o) ==
    /\ pc[o] = "idle"
    /\ \A c \in Consumers : ~InPop(c)
    /\ closed' = FALSE
    /\ quiet' = FALSE
    /\ pc' = [t \in Threads |-> IF t = o THEN "broadcast"
                                ELSE IF t \in Consumers THEN "idle" ELSE pc[t]]
    /\ UNCHANGED <<mode, ring, waiters, wait_mu, locals, log, calls>>

WakeAll(o) ==
    /\ pc[o] = "broadcast"
    /\ wait_mu = NoThread
    /\ pc' = Woken([pc EXCEPT ![o] = "idle"])
    /\ UNCHANGED <<mode, ring, park, locals, ghosts>>

(***************************************************************************)
(* The specification.                                                      *)
(***************************************************************************)
PushStep(p) ==
    \/ PushClosed(p) \/ PushPos(p) \/ PushSeq(p) \/ PushClaim(p)
    \/ PushClaimFails(p) \/ PushData(p) \/ PushPublish(p) \/ PushEnq(p)

PopStep(c) ==
    \/ PopPos(c) \/ PopSeq(c) \/ PopClosed(c) \/ PopRecheck(c) \/ PopClaim(c)
    \/ PopClaimFails(c) \/ PopRead(c) \/ PopRelease(c)

WaitStep(t) ==
    \/ Wake(t) \/ WaitEnter(t) \/ WaitLock(t) \/ WaitEnq(t) \/ WaitDeq(t)
    \/ WaitLeave(t)

Next ==
    \/ \E p \in Producers, try \in Tries : PushCall(p, try)
    \/ \E p \in Producers : PushStep(p)
    \/ \E c \in Consumers : PopCall(c) \/ PopStep(c)
    \/ \E t \in Producers \cup Consumers : WaitStep(t) \/ SpuriousWakeup(t)
    \/ \E o \in Owners : Close(o) \/ Reopen(o) \/ WakeAll(o)

Spec == Init /\ [][Next]_vars

(***************************************************************************)
(* Fairness: the operating system runs every thread, a thread that waits   *)
(* for a mutex that is free again and again gets it, workers call pop in a *)
(* loop, and a compare-and-swap that would succeed again and again does    *)
(* not fail spuriously for ever.  Nobody is obliged to push, close, reopen *)
(* or wake up spuriously.                                                  *)
(***************************************************************************)
Fairness ==
    /\ \A p \in Producers :
          WF_vars(PushStep(p) \/ WaitStep(p)) /\ SF_vars(PushClaim(p))
    /\ \A c \in Consumers :
          WF_vars(PopCall(c) \/ PopStep(c) \/ WaitStep(c)) /\ SF_vars(PopClaim(c))
    /\ \A t \in Producers \cup Consumers : SF_vars(Wake(t) \/ WaitLock(t))
    /\ \A o \in Owners : SF_vars(WakeAll(o))

FairSpec == Spec /\ Fairness

(***************************************************************************)
(* Properties.                                                             *)
(***************************************************************************)

LabelsOK ==
    /\ pc \in [Threads -> PushPC \cup PopPC \cup OwnPC]
    /\ \A p \in Producers : pc[p] \in PushPC
    /\ \A c \in Consumers : pc[c] \in PopPC
    /\ \A o \in Owners : pc[o] \in OwnPC

ValuesOK ==
    /\ mode \in Modes
    /\ enqueue_pos \in Nat /\ dequeue_pos \in Nat
    /\ sequence \in [Slots -> Nat]
    /\ data \in [Slots -> Frames \cup {NoFrame}]
    /\ closed \in BOOLEAN /\ quiet \in BOOLEAN
    /\ waiters \in Int
    /\ wait_mu \in Threads \cup {NoThread}
    /\ pos \in [Threads -> Nat]
    /\ frame \in [Threads -> Frames \cup {NoFrame}]
    /\ trying \in [Threads -> BOOLEAN]
    /\ log \in Seq(Frames)
    /\ calls \in 0 .. MaxPush

(* Every variable has its type; a thread is only at labels of its own kind.*)
TypeOK == LabelsOK /\ ValuesOK

(* A thread that owns a cell: between winning a position and publishing or *)
(* releasing the cell with the store to its sequence.                      *)
Owning(t) == pc[t] \in {"p_data", "p_pub", "c_read", "c_rel"}

(* No two threads own one cell: cell->data is a plain field, so push and   *)
(* pop race on it unless the sequence protocol keeps them apart.           *)
NoSlotRace ==
    \A s, t \in Threads :
        Owning(s) /\ Owning(t) /\ s # t => Idx(pos[s]) # Idx(pos[t])

(* waiters counts the threads inside wait_space and wait_data: a parked    *)
(* thread that is not counted is one wake_if_needed would not wake, and a  *)
(* count that drifts upwards makes every later push and pop broadcast.     *)
WaitersCounted ==
    waiters = Cardinality({t \in Threads : pc[t] \in WaitPC \ {"wait_inc"}})

(* A ring closed while no push was in progress is empty once every pop has *)
(* returned -1: the second look at the sequence after closed was seen      *)
(* leaves no accepted frame behind, although a stale position may make one *)
(* consumer give up early.                                                 *)
DrainComplete ==
    quiet /\ (\A c \in Consumers : pc[c] = "drained") => dequeue_pos = Len(log)

(* A ring is a bounded FIFO: frames leave in the order in which their      *)
(* positions were taken, each exactly once and unchanged, and never more   *)
(* than Capacity are inside.                                               *)
HeldBy(c) ==
    CASE pc[c] = "c_read" -> data[Idx(pos[c])]
      [] pc[c] \in {"c_rel", "wake"} -> frame[c]
      [] OTHER -> NoFrame

Published ==
    {i \in 0 .. Len(log) - 1 : i < dequeue_pos \/ sequence[Idx(i)] = i + 1}

Fifo == INSTANCE BoundedFifo WITH ready <- Published,
                                  head <- dequeue_pos,
                                  holding <- [c \in Consumers |-> HeldBy(c)]

IsFifo == Fifo!FifoSpec

(* Every push returns: a producer that spins or parks on a full ring gets  *)
(* space, or sees the ring closed; no wakeup is lost.                      *)
PushReturns == \A p \in Producers : InPush(p) ~> ~InPush(p)

(* Every frame in an open ring is taken out: no consumer sleeps for ever   *)
(* while there is a frame, unless the ring gets closed.                    *)
FramesTaken == dequeue_pos < Len(log) ~> (dequeue_pos = Len(log) \/ closed)

(* After a close every pop returns, unless the ring is opened again: the   *)
(* thread that shuts down or restarts a worker can join it.                *)
CloseEndsPops == closed ~> (~closed \/ \A c \in Consumers : ~InPop(c))

(***************************************************************************)
(* The inductive invariant behind NoSlotRace and IsFifo, in named parts.   *)
(* Positions below dequeue_pos are taken, those from dequeue_pos up to     *)
(* Len(log) are reserved or published, and those from Len(log) up to       *)
(* dequeue_pos + Capacity are free or still being released.                *)
(***************************************************************************)
PushOwns(p) == pc[p] \in {"p_data", "p_pub"}
PopOwns(c)  == pc[c] \in {"c_read", "c_rel"}

WindowInv ==
    /\ dequeue_pos <= Len(log)
    /\ Len(log) <= dequeue_pos + Capacity
    /\ \A p \in Producers :
          pc[p] = "p_enq" => SP /\ pos[p] = enqueue_pos /\ Len(log) = enqueue_pos + 1
    /\ (\A p \in Producers : pc[p] # "p_enq") => enqueue_pos = Len(log)

SingleInv ==
    /\ SP => \A p, q \in Producers : InPush(p) /\ InPush(q) => p = q
    /\ SC => \A c, d \in Consumers : InPop(c) /\ InPop(d) => c = d

FrameInv ==
    /\ \A p \in Producers : InPush(p) => frame[p] \in Frames
    /\ \A c \in Consumers : pc[c] \in {"c_rel", "wake"} => frame[c] \in Frames

PushLoaded(p) ==
    pc[p] \in {"p_seq", "p_claim"} =>
        /\ pos[p] <= enqueue_pos
        /\ SP => pc[p] = "p_seq" /\ pos[p] = enqueue_pos
        /\ pc[p] = "p_claim" /\ pos[p] = enqueue_pos => sequence[Idx(pos[p])] = pos[p]

PushOwned(p) ==
    PushOwns(p) =>
        /\ sequence[Idx(pos[p])] = pos[p]
        /\ SP => pos[p] = Len(log)
        /\ ~SP => /\ dequeue_pos <= pos[p] /\ pos[p] < Len(log)
                  /\ log[pos[p] + 1] = frame[p]
        /\ pc[p] = "p_pub" => data[Idx(pos[p])] = frame[p]

PushInv ==
    /\ \A p \in Producers : PushLoaded(p) /\ PushOwned(p)
    /\ \A p, q \in Producers : PushOwns(p) /\ PushOwns(q) /\ pos[p] = pos[q] => p = q

PopLoaded(c) ==
    pc[c] \in {"c_seq", "c_claim"} =>
        /\ pos[c] <= dequeue_pos
        /\ SC => pos[c] = dequeue_pos
        /\ pc[c] = "c_claim" /\ pos[c] = dequeue_pos
              => sequence[Idx(pos[c])] = pos[c] + 1

PopOwned(c) ==
    PopOwns(c) =>
        /\ pos[c] < dequeue_pos
        /\ Len(log) <= pos[c] + Capacity
        /\ sequence[Idx(pos[c])] = pos[c] + 1
        /\ pc[c] = "c_read" => data[Idx(pos[c])] = log[pos[c] + 1]

PopInv ==
    /\ \A c \in Consumers : PopLoaded(c) /\ PopOwned(c)
    /\ \A c, d \in Consumers : PopOwns(c) /\ PopOwns(d) /\ pos[c] = pos[d] => c = d

CellInv ==
    /\ \A i \in dequeue_pos .. Len(log) - 1 :
          \/ sequence[Idx(i)] = i + 1 /\ data[Idx(i)] = log[i + 1]
          \/ ~SP /\ \E p \in Producers : PushOwns(p) /\ pos[p] = i
    /\ \A i \in Len(log) .. dequeue_pos + Capacity - 1 :
          \/ sequence[Idx(i)] = i
          \/ \E c \in Consumers : PopOwns(c) /\ pos[c] + Capacity = i

(* The sequence protocol holds the ring together: every cell is published, *)
(* free, or owned by the one thread that may write it.                     *)
RingInv == WindowInv /\ SingleInv /\ FrameInv /\ PushInv /\ PopInv /\ CellInv

=============================================================================
