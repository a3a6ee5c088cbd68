--------------------------- MODULE RingFifoProofs ---------------------------
(***************************************************************************)
(* The proof that every ring implements the bounded FIFO of BoundedFifo,   *)
(* from the invariant proved in RingProofs.                                *)
(***************************************************************************)
EXTENDS RingProofs

(* A step that leaves the published positions and the frames in hand alone *)
(* is a stutter of the FIFO.                                               *)
LEMMA FifoStutter ==
    ASSUME UNCHANGED <<sequence, dequeue_pos, log>>,
           \A c \in Consumers : HeldBy(c)' = HeldBy(c)
    PROVE  UNCHANGED Fifo!fifoVars
<1>1. Published' = Published
  BY DEF Published
<1>2. [c \in Consumers |-> HeldBy(c)]' = [c \in Consumers |-> HeldBy(c)]
  OBVIOUS
<1> QED
  BY <1>1, <1>2 DEF Fifo!fifoVars

(* A consumer that stands still, or moves between labels at which it holds *)
(* no frame, holds what it held.                                           *)
HandsOff(c) ==
    \/ pc'[c] = pc[c] /\ pos'[c] = pos[c] /\ frame'[c] = frame[c]
    \/ {pc[c], pc'[c]} \cap {"c_read", "c_rel", "wake"} = {}

LEMMA FifoPassive ==
    ASSUME UNCHANGED <<ring, log>>, \A c \in Consumers : HandsOff(c)
    PROVE  UNCHANGED Fifo!fifoVars
<1>1. UNCHANGED <<sequence, dequeue_pos, data, log>>
  BY DEF ring
<1>2. \A c \in Consumers : HeldBy(c)' = HeldBy(c)
  BY <1>1 DEF HandsOff, HeldBy
<1> QED
  BY <1>1, <1>2, FifoStutter

(* Winning a position reserves it. *)
LEMMA FifoReserve ==
    ASSUME TypeOK, RingInv, NEW p \in Producers, PushClaim(p)
    PROVE  Fifo!FifoNext
<1> USE Facts, ThreadKinds
<1>1. /\ pc[p] = "p_claim" /\ pos[p] = enqueue_pos /\ log' = Append(log, frame[p])
      /\ dequeue_pos' = dequeue_pos /\ sequence' = sequence /\ data' = data
      /\ pos' = pos /\ frame' = frame /\ pc' = [pc EXCEPT ![p] = "p_data"]
  BY DEF PushClaim, Goto, locals
<1>2. sequence[Idx(pos[p])] = pos[p] /\ ~SP
  BY <1>1 DEF RingInv, PushInv, PushLoaded
<1>3. pos[p] = Len(log) /\ dequeue_pos <= Len(log) /\ frame[p] \in Frames
  BY <1>1, <1>2 DEF RingInv, WindowInv, FrameInv, InPush
<1>4. Len(log) < dequeue_pos + Capacity
  BY <1>2, <1>3, PushWindow
<1>5. Published' = Published
  <2>1. 0 .. Len(log') - 1 = (0 .. Len(log) - 1) \cup {Len(log)}
    BY <1>1, <1>3
  <2>2. ~(Len(log) < dequeue_pos \/ sequence[Idx(Len(log))] = Len(log) + 1)
    BY <1>2, <1>3
  <2> QED
    BY <1>1, <2>1, <2>2 DEF Published
<1>6. [c \in Consumers |-> HeldBy(c)]' = [c \in Consumers |-> HeldBy(c)]
  BY <1>1 DEF HeldBy
<1>7. Fifo!Reserve(frame[p])
  BY <1>1, <1>4, <1>5, <1>6 DEF Fifo!Reserve, Fifo!HasRoom
<1> QED
  BY <1>3, <1>7 DEF Fifo!FifoNext

(* Storing the sequence number publishes the position; a single producer's *)
(* position is reserved by the same store.                                 *)
LEMMA FifoPublish ==
    ASSUME TypeOK, RingInv, NEW p \in Producers, PushPublish(p)
    PROVE  Fifo!FifoNext
<1> USE Facts, ThreadKinds
<1> DEFINE H == dequeue_pos
           T == Len(log)
           i0 == pos[p]
<1>1. /\ pc[p] = "p_pub" /\ PushOwns(p) /\ i0 \in Nat /\ Idx(i0) \in Slots
      /\ log' = IF SP THEN Append(log, frame[p]) ELSE log
      /\ dequeue_pos' = dequeue_pos /\ data' = data /\ pos' = pos /\ frame' = frame
      /\ sequence' = [sequence EXCEPT ![Idx(i0)] = i0 + 1]
      /\ pc' = [pc EXCEPT ![p] = IF SP THEN "p_enq" ELSE "wake"]
  BY IdxType DEF PushPublish, Goto, locals, PushOwns
<1>2. /\ sequence[Idx(i0)] = i0 /\ H <= T /\ T <= H + Capacity /\ frame[p] \in Frames
      /\ SP => i0 = T
      /\ ~SP => H <= i0 /\ i0 < T
  BY <1>1 DEF RingInv, PushInv, PushOwned, WindowInv, FrameInv, InPush
<1>3. SP => T < H + Capacity
  BY <1>1, <1>2, PushWindow
<1>4. [c \in Consumers |-> HeldBy(c)]' = [c \in Consumers |-> HeldBy(c)]
  BY <1>1 DEF HeldBy
<1>5. i0 \notin Published
  BY <1>1, <1>2 DEF Published
<1>6. Published' = Published \cup {i0}
  <2>1. ASSUME NEW i \in Nat, i # i0, i < T
        PROVE  (i < H \/ sequence'[Idx(i)] = i + 1) <=> (i < H \/ sequence[Idx(i)] = i + 1)
    <3>1. CASE i < H
      BY <3>1
    <3>2. CASE ~(i < H)
      <4>1. i \in H .. H + Capacity - 1
        BY <2>1, <3>2, <1>2
      <4>2. Idx(i) # Idx(i0) /\ Idx(i) \in Slots
        BY <2>1, <4>1, <1>1, PushOwnsAlone, IdxType
      <4> QED
        BY <4>2, <1>1
    <3> QED
      BY <3>1, <3>2
  <2>2. sequence'[Idx(i0)] = i0 + 1
    BY <1>1
  <2>3. 0 .. Len(log') - 1 = (0 .. T - 1) \cup {i0}
    BY <1>1, <1>2
  <2>4. ASSUME NEW i PROVE i \in Published' <=> i \in Published \cup {i0}
    <3>1. CASE i = i0
      BY <3>1, <1>1, <2>2, <2>3 DEF Published
    <3>2. CASE i # i0
      <4>1. i \in 0 .. T - 1 => i \in Nat /\ i < T
        OBVIOUS
      <4> QED
        BY <3>2, <4>1, <1>1, <2>1, <2>3 DEF Published
    <3> QED
      BY <3>1, <3>2
  <2> QED
    BY <2>4
<1>7. CASE SP
  <2>1. Fifo!Insert(frame[p])
    BY <1>1, <1>2, <1>3, <1>4, <1>6, <1>7 DEF Fifo!Insert, Fifo!HasRoom
  <2> QED
    BY <1>2, <2>1 DEF Fifo!FifoNext
<1>8. CASE ~SP
  <2>1. Fifo!Publish(i0) /\ i0 \in 0 .. T - 1
    BY <1>1, <1>2, <1>4, <1>5, <1>6, <1>8 DEF Fifo!Publish
  <2> QED
    BY <2>1 DEF Fifo!FifoNext
<1> QED
  BY <1>7, <1>8

(* Advancing dequeue_pos takes the oldest frame. *)
LEMMA FifoTake ==
    ASSUME TypeOK, RingInv, NEW c \in Consumers, PopClaim(c)
    PROVE  Fifo!FifoNext
<1> USE Facts, ThreadKinds
<1> DEFINE H == dequeue_pos
           T == Len(log)
<1>1. /\ pc[c] = "c_claim" /\ pos[c] = H /\ sequence[Idx(H)] = H + 1
      /\ H <= T /\ T <= H + Capacity
  BY DEF PopClaim, RingInv, PopInv, PopLoaded, WindowInv
<1>2. /\ dequeue_pos' = H + 1 /\ sequence' = sequence /\ data' = data /\ log' = log
      /\ pos' = pos /\ frame' = frame /\ pc' = [pc EXCEPT ![c] = "c_read"]
  BY <1>1 DEF PopClaim, Goto, locals, ghosts
<1>3. H < T /\ data[Idx(H)] = log[H + 1]
  BY <1>1, PublishedHead
<1>4. Published' = Published /\ H \in Published
  BY <1>1, <1>2, <1>3 DEF Published
<1>5. HeldBy(c) = NoFrame /\ HeldBy(c)' = log[H + 1]
  BY <1>1, <1>2, <1>3 DEF HeldBy
<1>6. \A d \in Consumers : d # c => HeldBy(d)' = HeldBy(d)
  BY <1>2 DEF HeldBy
<1>7. [d \in Consumers |-> HeldBy(d)]'
         = [[d \in Consumers |-> HeldBy(d)] EXCEPT ![c] = log[H + 1]]
  BY <1>5, <1>6
<1>8. Fifo!Take(c)
  BY <1>2, <1>4, <1>5, <1>7 DEF Fifo!Take
<1> QED
  BY <1>8 DEF Fifo!FifoNext

(* Pushing and popping a cell's data, and handing the cell back, change    *)
(* neither what is published nor what a consumer holds.                    *)
LEMMA FifoData ==
    ASSUME TypeOK, RingInv, NEW p \in Producers, PushData(p)
    PROVE  UNCHANGED Fifo!fifoVars
<1> USE Facts, ThreadKinds
<1>1. /\ PushOwns(p) /\ pos[p] \in Nat /\ Idx(pos[p]) \in Slots
      /\ data' = [data EXCEPT ![Idx(pos[p])] = frame[p]]
      /\ dequeue_pos' = dequeue_pos /\ sequence' = sequence /\ log' = log
      /\ pos' = pos /\ frame' = frame /\ pc' = [pc EXCEPT ![p] = "p_pub"]
  BY IdxType DEF PushData, Goto, locals, ghosts, PushOwns
<1>2. ASSUME NEW c \in Consumers PROVE HeldBy(c)' = HeldBy(c)
  <2>1. pc[c] = "c_read" => data'[Idx(pos[c])] = data[Idx(pos[c])]
    <3>1. pc[c] = "c_read" => Idx(pos[c]) # Idx(pos[p])
      BY <1>1, PushOwnsAlone DEF PopOwns
    <3>2. Idx(pos[c]) \in Slots
      BY IdxType
    <3> QED
      BY <1>1, <3>1, <3>2
  <2> QED
    BY <1>1, <2>1 DEF HeldBy
<1> QED
  BY <1>1, <1>2, FifoStutter

(* See FifoData. *)
LEMMA FifoRead ==
    ASSUME TypeOK, RingInv, NEW c \in Consumers, PopRead(c)
    PROVE  UNCHANGED Fifo!fifoVars
<1> USE Facts, ThreadKinds
<1>1. /\ PopOwns(c) /\ pc[c] = "c_read" /\ pos[c] \in Nat /\ Idx(pos[c]) \in Slots
      /\ frame' = [frame EXCEPT ![c] = data[Idx(pos[c])]]
      /\ data' = [data EXCEPT ![Idx(pos[c])] = NoFrame]
      /\ dequeue_pos' = dequeue_pos /\ sequence' = sequence /\ log' = log
      /\ pos' = pos /\ pc' = [pc EXCEPT ![c] = "c_rel"]
  BY IdxType DEF PopRead, Goto, ghosts, PopOwns
<1>2. ASSUME NEW d \in Consumers PROVE HeldBy(d)' = HeldBy(d)
  <2>1. CASE d = c
    BY <1>1, <2>1 DEF HeldBy
  <2>2. CASE d # c
    <3>1. pc[d] = "c_read" => data'[Idx(pos[d])] = data[Idx(pos[d])]
      <4>1. pc[d] = "c_read" => Idx(pos[d]) # Idx(pos[c])
        BY <1>1, <2>2, PopOwnsAlone DEF PopOwns
      <4>2. Idx(pos[d]) \in Slots
        BY IdxType
      <4> QED
        BY <1>1, <4>1, <4>2
    <3> QED
      BY <1>1, <2>2, <3>1 DEF HeldBy
  <2> QED
    BY <2>1, <2>2
<1> QED
  BY <1>1, <1>2, FifoStutter

(* See FifoData. *)
LEMMA FifoRelease ==
    ASSUME TypeOK, RingInv, NEW c \in Consumers, PopRelease(c)
    PROVE  UNCHANGED Fifo!fifoVars
<1> USE Facts, ThreadKinds
<1> DEFINE H == dequeue_pos
           T == Len(log)
           i0 == pos[c]
<1>1. /\ PopOwns(c) /\ pc[c] = "c_rel" /\ i0 \in Nat /\ Idx(i0) \in Slots
      /\ sequence' = [sequence EXCEPT ![Idx(i0)] = i0 + Capacity]
      /\ dequeue_pos' = dequeue_pos /\ data' = data /\ log' = log
      /\ pos' = pos /\ frame' = frame /\ pc' = [pc EXCEPT ![c] = "wake"]
  BY IdxType DEF PopRelease, Goto, locals, ghosts, PopOwns
<1>2. [d \in Consumers |-> HeldBy(d)]' = [d \in Consumers |-> HeldBy(d)]
  BY <1>1 DEF HeldBy
<1>3. ASSUME NEW i \in 0 .. T - 1
      PROVE  (i < H \/ sequence'[Idx(i)] = i + 1) <=> (i < H \/ sequence[Idx(i)] = i + 1)
  <2>1. CASE i < H
    BY <2>1
  <2>2. CASE ~(i < H)
    <3>1. i \in Nat /\ i \in H .. T - 1 /\ i \in H .. H + Capacity - 1
      BY <2>2 DEF RingInv, WindowInv
    <3>2. Idx(i) # Idx(i0) /\ Idx(i) \in Slots
      BY <3>1, <1>1, PopOwnsAlone, IdxType
    <3> QED
      BY <3>2, <1>1
  <2> QED
    BY <2>1, <2>2
<1>4. Published' = Published
  BY <1>1, <1>3 DEF Published
<1> QED
  BY <1>1, <1>2, <1>4 DEF Fifo!fifoVars

(* The wakeup at the end of a pop is where it returns with its frame; the  *)
(* wakeup at the end of a push changes nothing.                            *)
LEMMA FifoWake ==
    ASSUME TypeOK, RingInv, NEW s \in Producers \cup Consumers, Wake(s)
    PROVE  Fifo!FifoNext \/ UNCHANGED Fifo!fifoVars
<1> USE Facts, ThreadKinds
<1>1. /\ pc[s] = "wake" /\ UNCHANGED <<ring, log>>
      /\ pc'[s] = "idle"
      /\ \A t \in Threads \ {s} : /\ pos'[t] = pos[t] /\ frame'[t] = frame[t]
                                  /\ \/ pc'[t] = pc[t]
                                     \/ pc[t] = "parked" /\ pc'[t] = "wait_lock"
  BY DEF Wake, Woken, Leave, Goto, ghosts
<1>2. CASE s \in Producers
  <2>1. \A c \in Consumers : HandsOff(c)
    BY <1>1, <1>2 DEF HandsOff
  <2> QED
    BY <1>1, <2>1, FifoPassive
<1>3. CASE s \in Consumers
  <2>1. HeldBy(s) \in Frames /\ HeldBy(s)' = NoFrame
    BY <1>1, <1>3 DEF HeldBy, RingInv, FrameInv
  <2>2. UNCHANGED <<sequence, dequeue_pos, data, log>>
    BY <1>1 DEF ring
  <2>3. \A d \in Consumers : d # s => HeldBy(d)' = HeldBy(d)
    BY <1>1, <1>3, <2>2 DEF HeldBy
  <2>4. [d \in Consumers |-> HeldBy(d)]'
           = [[d \in Consumers |-> HeldBy(d)] EXCEPT ![s] = NoFrame]
    BY <1>3, <2>1, <2>3
  <2>5. Published' = Published
    BY <2>2 DEF Published
  <2>6. HeldBy(s) # NoFrame
    BY <2>1, RingAssumption DEF Frames, NoFrame
  <2>7. Fifo!Return(s)
    BY <1>3, <2>2, <2>4, <2>5, <2>6 DEF Fifo!Return
  <2> QED
    BY <1>3, <2>7 DEF Fifo!FifoNext
<1> QED
  BY <1>2, <1>3

(* Every step of a ring is a step of the FIFO or a stutter. *)
LEMMA FifoStep ==
    TypeOK /\ RingInv /\ [Next]_vars => Fifo!FifoNext \/ UNCHANGED Fifo!fifoVars
<1> SUFFICES ASSUME TypeOK, RingInv, [Next]_vars
             PROVE  Fifo!FifoNext \/ UNCHANGED Fifo!fifoVars
  OBVIOUS
<1> USE ThreadKinds
<1>t. /\ pc \in [Threads -> PushPC \cup PopPC \cup OwnPC]
      /\ pos \in [Threads -> Nat] /\ frame \in [Threads -> Frames \cup {NoFrame}]
  BY Facts
<1>0. CASE UNCHANGED vars
  <2>1. UNCHANGED <<ring, log>> /\ \A d \in Consumers : HandsOff(d)
    BY <1>0 DEF vars, ghosts, locals, HandsOff
  <2> QED
    BY <2>1, FifoPassive
<1>1. ASSUME NEW p \in Producers, NEW try \in Tries, PushCall(p, try)
      PROVE  Fifo!FifoNext \/ UNCHANGED Fifo!fifoVars
  <2>1. UNCHANGED <<ring, log>>
    BY <1>1 DEF PushCall
  <2>2. \A d \in Consumers : HandsOff(d)
    BY <1>1, <1>t DEF PushCall, HandsOff, Goto
  <2> QED
    BY <2>1, <2>2, FifoPassive
<1>2. ASSUME NEW p \in Producers, PushStep(p)
      PROVE  Fifo!FifoNext \/ UNCHANGED Fifo!fifoVars
  <2>1. CASE PushClosed(p)
    <3>1. UNCHANGED <<ring, log>>
      BY <2>1 DEF PushClosed, ring, ghosts
    <3>2. \A d \in Consumers : HandsOff(d)
      BY <2>1, <1>t DEF PushClosed, HandsOff, Goto, Retry, Return, Leave, locals
    <3> QED
      BY <3>1, <3>2, FifoPassive
  <2>2. CASE PushPos(p)
    <3>1. UNCHANGED <<ring, log>>
      BY <2>2 DEF PushPos, ring, ghosts
    <3>2. \A d \in Consumers : HandsOff(d)
      BY <2>2, <1>t DEF PushPos, HandsOff, Goto, Retry, Return, Leave, locals
    <3> QED
      BY <3>1, <3>2, FifoPassive
  <2>3. CASE PushSeq(p)
    <3>1. UNCHANGED <<ring, log>>
      BY <2>3 DEF PushSeq, ring, ghosts
    <3>2. \A d \in Consumers : HandsOff(d)
      BY <2>3, <1>t DEF PushSeq, HandsOff, Goto, Retry, Return, Leave, locals
    <3> QED
      BY <3>1, <3>2, FifoPassive
  <2>4. CASE PushClaim(p)
    BY <2>4, FifoReserve
  <2>5. CASE PushClaimFails(p)
    <3>1. UNCHANGED <<ring, log>>
      BY <2>5 DEF PushClaimFails, ring, ghosts
    <3>2. \A d \in Consumers : HandsOff(d)
      BY <2>5, <1>t DEF PushClaimFails, HandsOff, Goto, Retry, Return, Leave, locals
    <3> QED
      BY <3>1, <3>2, FifoPassive
  <2>6. CASE PushData(p)
    BY <2>6, FifoData
  <2>7. CASE PushPublish(p)
    BY <2>7, FifoPublish
  <2>8. CASE PushEnq(p)
    <3>1. UNCHANGED <<sequence, dequeue_pos, data, log>>
      BY <2>8 DEF PushEnq, ghosts
    <3>2. \A d \in Consumers : HeldBy(d)' = HeldBy(d)
      BY <2>8, <3>1, <1>t DEF PushEnq, HeldBy, Goto, locals
    <3> QED
      BY <3>1, <3>2, FifoStutter
  <2> QED
    BY <1>2, <2>1, <2>2, <2>3, <2>4, <2>5, <2>6, <2>7, <2>8 DEF PushStep
<1>3. ASSUME NEW c \in Consumers, PopCall(c) \/ PopStep(c)
      PROVE  Fifo!FifoNext \/ UNCHANGED Fifo!fifoVars
  <2>1. CASE PopCall(c)
    <3>1. UNCHANGED <<ring, log>>
      BY <2>1 DEF PopCall, ring, ghosts
    <3>2. \A d \in Consumers : HandsOff(d)
      BY <2>1, <1>t DEF PopCall, HandsOff, Goto, Retry, Return, Leave, locals
    <3> QED
      BY <3>1, <3>2, FifoPassive
  <2>2. CASE PopPos(c)
    <3>1. UNCHANGED <<ring, log>>
      BY <2>2 DEF PopPos, ring, ghosts
    <3>2. \A d \in Consumers : HandsOff(d)
      BY <2>2, <1>t DEF PopPos, HandsOff, Goto, Retry, Return, Leave, locals
    <3> QED
      BY <3>1, <3>2, FifoPassive
  <2>3. CASE PopSeq(c)
    <3>1. UNCHANGED <<ring, log>>
      BY <2>3 DEF PopSeq, ring, ghosts
    <3>2. \A d \in Consumers : HandsOff(d)
      BY <2>3, <1>t DEF PopSeq, HandsOff, Goto, Retry, Return, Leave, locals
    <3> QED
      BY <3>1, <3>2, FifoPassive
  <2>4. CASE PopClosed(c)
    <3>1. UNCHANGED <<ring, log>>
      BY <2>4 DEF PopClosed, ring, ghosts
    <3>2. \A d \in Consumers : HandsOff(d)
      BY <2>4, <1>t DEF PopClosed, HandsOff, Goto, Retry, Return, Leave, locals
    <3> QED
      BY <3>1, <3>2, FifoPassive
  <2>5. CASE PopRecheck(c)
    <3>1. UNCHANGED <<ring, log>>
      BY <2>5 DEF PopRecheck, ring, ghosts
    <3>2. \A d \in Consumers : HandsOff(d)
      BY <2>5, <1>t DEF PopRecheck, HandsOff, Goto, Retry, Return, Leave, locals
    <3> QED
      BY <3>1, <3>2, FifoPassive
  <2>6. CASE PopClaim(c)
    BY <2>6, FifoTake
  <2>7. CASE PopClaimFails(c)
    <3>1. UNCHANGED <<ring, log>>
      BY <2>7 DEF PopClaimFails, ring, ghosts
    <3>2. \A d \in Consumers : HandsOff(d)
      BY <2>7, <1>t DEF PopClaimFails, HandsOff, Goto, Retry, Return, Leave, locals
    <3> QED
      BY <3>1, <3>2, FifoPassive
  <2>8. CASE PopRead(c)
    BY <2>8, FifoRead
  <2>9. CASE PopRelease(c)
    BY <2>9, FifoRelease
  <2> QED
    BY <1>3, <2>1, <2>2, <2>3, <2>4, <2>5, <2>6, <2>7, <2>8, <2>9 DEF PopStep
<1>4. ASSUME NEW s \in Producers \cup Consumers, WaitStep(s) \/ SpuriousWakeup(s)
      PROVE  Fifo!FifoNext \/ UNCHANGED Fifo!fifoVars
  <2>1. CASE Wake(s)
    BY <2>1, FifoWake
  <2>2. CASE WaitEnter(s)
    <3>1. UNCHANGED <<ring, log>>
      BY <2>2 DEF WaitEnter, ring, ghosts
    <3>2. \A d \in Consumers : HandsOff(d)
      BY <2>2, <1>t DEF WaitEnter, HandsOff, Goto, Retry, Return, Leave, locals
    <3> QED
      BY <3>1, <3>2, FifoPassive
  <2>3. CASE WaitLock(s)
    <3>1. UNCHANGED <<ring, log>>
      BY <2>3 DEF WaitLock, ring, ghosts
    <3>2. \A d \in Consumers : HandsOff(d)
      BY <2>3, <1>t DEF WaitLock, HandsOff, Goto, Retry, Return, Leave, locals
    <3> QED
      BY <3>1, <3>2, FifoPassive
  <2>4. CASE WaitEnq(s)
    <3>1. UNCHANGED <<ring, log>>
      BY <2>4 DEF WaitEnq, ring, ghosts
    <3>2. \A d \in Consumers : HandsOff(d)
      BY <2>4, <1>t DEF WaitEnq, HandsOff, Goto, Retry, Return, Leave, locals
    <3> QED
      BY <3>1, <3>2, FifoPassive
  <2>5. CASE WaitDeq(s)
    <3>1. UNCHANGED <<ring, log>>
      BY <2>5 DEF WaitDeq, ring, ghosts
    <3>2. \A d \in Consumers : HandsOff(d)
      BY <2>5, <1>t DEF WaitDeq, HandsOff, Goto, Retry, Return, Leave, locals
    <3> QED
      BY <3>1, <3>2, FifoPassive
  <2>6. CASE WaitLeave(s)
    <3>1. UNCHANGED <<ring, log>>
      BY <2>6 DEF WaitLeave, ring, ghosts
    <3>2. \A d \in Consumers : HandsOff(d)
      BY <2>6, <1>t DEF WaitLeave, HandsOff, Goto, Retry, Return, Leave, locals
    <3> QED
      BY <3>1, <3>2, FifoPassive
  <2>7. CASE SpuriousWakeup(s)
    <3>1. UNCHANGED <<ring, log>>
      BY <2>7 DEF SpuriousWakeup, ring, ghosts
    <3>2. \A d \in Consumers : HandsOff(d)
      BY <2>7, <1>t DEF SpuriousWakeup, HandsOff, Goto, Retry, Return, Leave, locals
    <3> QED
      BY <3>1, <3>2, FifoPassive
  <2> QED
    BY <1>4, <2>1, <2>2, <2>3, <2>4, <2>5, <2>6, <2>7 DEF WaitStep
<1>5. ASSUME NEW o \in Owners, Close(o) \/ Reopen(o) \/ WakeAll(o)
      PROVE  Fifo!FifoNext \/ UNCHANGED Fifo!fifoVars
  <2>1. CASE Close(o)
    <3>1. UNCHANGED <<ring, log>>
      BY <2>1 DEF Close, ring, ghosts
    <3>2. \A d \in Consumers : HandsOff(d)
      BY <2>1, <1>t DEF Close, HandsOff, Goto, Retry, Return, Leave, locals
    <3> QED
      BY <3>1, <3>2, FifoPassive
  <2>2. CASE Reopen(o)
    <3>1. UNCHANGED <<ring, log>>
      BY <2>2 DEF Reopen, ring, ghosts
    <3>2. \A d \in Consumers : HandsOff(d)
      BY <2>2, <1>t DEF Reopen, HandsOff, Goto, Retry, Return, Leave, locals, InPop
    <3> QED
      BY <3>1, <3>2, FifoPassive
  <2>3. CASE WakeAll(o)
    <3>1. UNCHANGED <<ring, log>>
      BY <2>3 DEF WakeAll, ring, ghosts
    <3>2. \A d \in Consumers : HandsOff(d)
      BY <2>3, <1>t DEF WakeAll, HandsOff, Goto, Retry, Return, Leave, locals, Woken
    <3> QED
      BY <3>1, <3>2, FifoPassive
  <2> QED
    BY <1>5, <2>1, <2>2, <2>3
<1> QED
  BY <1>0, <1>1, <1>2, <1>3, <1>4, <1>5 DEF Next

(* A ring is a bounded FIFO, in every mode and for any number of threads:  *)
(* frames leave in the order in which their positions were taken, each     *)
(* once and unchanged, and no more than Capacity are inside.               *)
THEOREM ImplementsFifo == Spec => IsFifo
<1>1. Init => Fifo!FifoInit
  BY ThreadKinds DEF Init, Fifo!FifoInit, Published, HeldBy
<1>2. TypeOK /\ RingInv /\ [Next]_vars => [Fifo!FifoNext]_(Fifo!fifoVars)
  BY FifoStep
<1> QED
  BY <1>1, <1>2, RingCorrect, PTL DEF Spec, IsFifo, Fifo!FifoSpec

=============================================================================
