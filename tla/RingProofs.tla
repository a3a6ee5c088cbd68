----------------------------- MODULE RingProofs -----------------------------
(***************************************************************************)
(* Proofs about Ring for every number of threads, every capacity of at     *)
(* least two cells, every mode and every bound on the calls.               *)
(***************************************************************************)
EXTENDS Ring, FiniteSetTheorems, TLAPS

(***************************************************************************)
(* Cells.  A position names a cell; two positions less than Capacity apart *)
(* name different cells.                                                   *)
(***************************************************************************)

(* pos & mask is a valid index of the cells array. *)
LEMMA IdxType == \A i \in Nat : Idx(i) \in Slots
  BY RingAssumption DEF Idx, Slots

(* A multiple of a positive number that lies strictly between minus the    *)
(* number and the number is zero.                                          *)
LEMMA SmallMultiple ==
    ASSUME NEW n \in Nat \ {0}, NEW k \in Int, n * k < n, 0 - n < n * k
    PROVE  k = 0
<1>1. ASSUME k >= 1 PROVE FALSE
  BY <1>1, SMTT(20)
<1>2. ASSUME k <= 0 - 1 PROVE FALSE
  BY <1>2, SMTT(20)
<1> QED
  BY <1>1, <1>2

(* Division with remainder. *)
LEMMA Division ==
    ASSUME NEW n \in Nat \ {0}, NEW i \in Nat
    PROVE  /\ i \div n \in Int
           /\ i % n \in 0 .. n - 1
           /\ i = n * (i \div n) + (i % n)
  OBVIOUS

(* A position and the one a whole turn later use the same cell. *)
LEMMA IdxTurn == \A i \in Nat : Idx(i + Capacity) = Idx(i)
<1> DEFINE C == Capacity
<1> SUFFICES ASSUME NEW i \in Nat PROVE (i + C) % C = i % C
  BY DEF Idx
<1>1. C \in Nat \ {0} /\ i + C \in Nat
  BY RingAssumption
<1> DEFINE k == ((i + C) \div C) - (i \div C) - 1
<1>2. k \in Int /\ C * k = (i % C) - ((i + C) % C)
  BY <1>1, Division
<1>3. i % C \in 0 .. C - 1 /\ (i + C) % C \in 0 .. C - 1
  BY <1>1, Division
<1> HIDE DEF k
<1>4. k = 0
  BY <1>1, <1>2, <1>3, SmallMultiple
<1> QED
  BY <1>1, <1>2, <1>3, <1>4

(* Two positions of one window of Capacity positions use different cells. *)
LEMMA IdxInjective ==
    \A i, j \in Nat : i # j /\ i < j + Capacity /\ j < i + Capacity => Idx(i) # Idx(j)
<1> DEFINE C == Capacity
<1> SUFFICES ASSUME NEW i \in Nat, NEW j \in Nat, i < j + C, j < i + C, i % C = j % C
             PROVE  i = j
  BY DEF Idx
<1>1. C \in Nat \ {0}
  BY RingAssumption
<1> DEFINE k == (i \div C) - (j \div C)
<1>2. k \in Int /\ C * k = i - j
  BY <1>1, Division
<1> HIDE DEF k
<1>3. k = 0
  BY <1>1, <1>2, SmallMultiple
<1> QED
  BY <1>1, <1>2, <1>3

(***************************************************************************)
(* Types.                                                                  *)
(***************************************************************************)

(* Labels of the three kinds of threads; kept apart from TypeOK so that    *)
(* the provers can use them without expanding it.                          *)
LEMMA ThreadKinds ==
    /\ \A p \in Producers : p \in Threads /\ p \notin Consumers /\ p \notin Owners
    /\ \A c \in Consumers : c \in Threads /\ c \notin Producers /\ c \notin Owners
    /\ \A o \in Owners : o \in Threads /\ o \notin Producers /\ o \notin Consumers
  BY RingAssumption DEF Threads

(* Where the steps of a push, a pop and a wait lead. *)
LEMMA Labels ==
    /\ {"idle", "p_closed", "p_pos", "p_seq", "p_claim", "p_data", "p_pub", "p_enq",
        "wake"} \subseteq PushPC
    /\ {"idle", "drained", "c_pos", "c_seq", "c_closed", "c_recheck", "c_claim",
        "c_read", "c_rel", "wake"} \subseteq PopPC
    /\ WaitPC \subseteq PushPC /\ WaitPC \subseteq PopPC
    /\ {"wait_inc", "wait_lock", "wait_enq", "wait_deq", "parked", "wait_dec"} \subseteq WaitPC
    /\ {"idle", "broadcast"} \subseteq OwnPC
  BY DEF PushPC, PopPC, OwnPC, WaitPC

(* Every step leads a thread to a label of its own kind. *)
LEMMA LabelsStep == LabelsOK /\ [Next]_vars => LabelsOK'
<1> SUFFICES ASSUME LabelsOK, [Next]_vars PROVE LabelsOK'
  OBVIOUS
<1> USE ThreadKinds, Labels DEF LabelsOK, Goto, Retry, Return
<1>0. CASE UNCHANGED vars
  BY <1>0 DEF vars
<1>1. ASSUME NEW p \in Producers, NEW try \in Tries, PushCall(p, try) PROVE LabelsOK'
  BY <1>1 DEF PushCall
<1>2. ASSUME NEW p \in Producers, PushStep(p) PROVE LabelsOK'
  <2>0. p \in Threads
    BY ThreadKinds
  <2>1. CASE PushClosed(p)
    BY <2>0, <2>1 DEF PushClosed
  <2>2. CASE PushPos(p)
    BY <2>0, <2>2 DEF PushPos
  <2>3. CASE PushSeq(p)
    BY <2>0, <2>3 DEF PushSeq
  <2>4. CASE PushClaim(p)
    BY <2>0, <2>4 DEF PushClaim
  <2>5. CASE PushClaimFails(p)
    BY <2>0, <2>5 DEF PushClaimFails
  <2>6. CASE PushData(p)
    BY <2>0, <2>6 DEF PushData
  <2>7. CASE PushPublish(p)
    BY <2>0, <2>7 DEF PushPublish
  <2>8. CASE PushEnq(p)
    BY <2>0, <2>8 DEF PushEnq
  <2> QED
    BY <1>2, <2>1, <2>2, <2>3, <2>4, <2>5, <2>6, <2>7, <2>8 DEF PushStep
<1>3. ASSUME NEW c \in Consumers, PopCall(c) \/ PopStep(c) PROVE LabelsOK'
  <2>0. c \in Threads
    BY ThreadKinds
  <2>1. CASE PopCall(c)
    BY <2>0, <2>1 DEF PopCall
  <2>2. CASE PopPos(c)
    BY <2>0, <2>2 DEF PopPos
  <2>3. CASE PopSeq(c)
    BY <2>0, <2>3 DEF PopSeq
  <2>4. CASE PopClosed(c)
    BY <2>0, <2>4 DEF PopClosed
  <2>5. CASE PopRecheck(c)
    BY <2>0, <2>5 DEF PopRecheck
  <2>6. CASE PopClaim(c)
    BY <2>0, <2>6 DEF PopClaim
  <2>7. CASE PopClaimFails(c)
    BY <2>0, <2>7 DEF PopClaimFails
  <2>8. CASE PopRead(c)
    BY <2>0, <2>8 DEF PopRead
  <2>9. CASE PopRelease(c)
    BY <2>0, <2>9 DEF PopRelease
  <2> QED
    BY <1>3, <2>1, <2>2, <2>3, <2>4, <2>5, <2>6, <2>7, <2>8, <2>9 DEF PopStep
<1>4. ASSUME NEW t \in Producers \cup Consumers, WaitStep(t) \/ SpuriousWakeup(t) PROVE LabelsOK'
  <2>0. t \in Threads
    BY ThreadKinds
  <2>1. CASE Wake(t)
    <3>1. pc' \in [Threads -> PushPC \cup PopPC \cup OwnPC]
      BY <2>0, <2>1 DEF Wake, Woken
    <3>2. \A s \in Threads : pc'[s] \in {pc[s], "idle"} \/ (pc[s] = "parked" /\ pc'[s] = "wait_lock")
      BY <2>0, <2>1 DEF Wake, Woken
    <3> QED
      BY <3>1, <3>2 DEF OwnPC
  <2>2. CASE WaitEnter(t)
    BY <2>0, <2>2 DEF WaitEnter
  <2>3. CASE WaitLock(t)
    BY <2>0, <2>3 DEF WaitLock
  <2>4. CASE WaitEnq(t)
    BY <2>0, <2>4 DEF WaitEnq
  <2>5. CASE WaitDeq(t)
    BY <2>0, <2>5 DEF WaitDeq
  <2>6. CASE WaitLeave(t)
    BY <2>0, <2>6 DEF WaitLeave
  <2>7. CASE SpuriousWakeup(t)
    BY <2>0, <2>7 DEF SpuriousWakeup
  <2> QED
    BY <1>4, <2>1, <2>2, <2>3, <2>4, <2>5, <2>6, <2>7 DEF WaitStep
<1>5. ASSUME NEW o \in Owners, Close(o) \/ Reopen(o) \/ WakeAll(o) PROVE LabelsOK'
  <2>0. o \in Threads
    BY ThreadKinds
  <2>1. CASE Close(o)
    BY <2>0, <2>1 DEF Close
  <2>2. CASE Reopen(o)
    BY <2>0, <2>2 DEF Reopen
  <2>3. CASE WakeAll(o)
    <3>1. pc' \in [Threads -> PushPC \cup PopPC \cup OwnPC]
      BY <2>0, <2>3 DEF WakeAll, Woken
    <3>2. \A s \in Threads : pc'[s] \in {pc[s], "idle"} \/ (pc[s] = "parked" /\ pc'[s] = "wait_lock")
      BY <2>0, <2>3 DEF WakeAll, Woken
    <3> QED
      BY <3>1, <3>2 DEF OwnPC
  <2> QED
    BY <1>5, <2>1, <2>2, <2>3
<1> QED
  BY <1>0, <1>1, <1>2, <1>3, <1>4, <1>5 DEF Next

(* The values a step computes from a thread's local variables. *)
LEMMA ThreadValues ==
    ASSUME ValuesOK, NEW t \in Threads
    PROVE  /\ pos[t] + 1 \in Nat /\ pos[t] + Capacity \in Nat /\ Idx(pos[t]) \in Slots
           /\ frame[t] \in Frames \cup {NoFrame}
<1>1. pos[t] \in Nat /\ frame[t] \in Frames \cup {NoFrame}
  BY DEF ValuesOK
<1> QED
  BY <1>1, IdxType, RingAssumption

(* Every step preserves the types of the values; that a push appends a     *)
(* frame to the log needs FrameInv.                                        *)
LEMMA ValuesStep == ValuesOK /\ FrameInv /\ [Next]_vars => ValuesOK'
<1> SUFFICES ASSUME ValuesOK, FrameInv, [Next]_vars PROVE ValuesOK'
  OBVIOUS
<1> USE DEF ValuesOK, ring, park, locals, ghosts, Retry, Leave, Return
<1>0. CASE UNCHANGED vars
  BY <1>0 DEF vars
<1>1. ASSUME NEW p \in Producers, NEW try \in Tries, PushCall(p, try) PROVE ValuesOK'
  <2>1. calls + 1 \in Frames /\ calls + 1 \in 0 .. MaxPush /\ try \in BOOLEAN
    BY <1>1, RingAssumption DEF PushCall, Frames
  <2> QED
    BY <1>1, <2>1 DEF PushCall
<1>2. ASSUME NEW p \in Producers, PushStep(p) PROVE ValuesOK'
  <2>0. /\ p \in Threads /\ 0 \in Nat
        /\ pos[p] + 1 \in Nat /\ pos[p] + Capacity \in Nat /\ Idx(pos[p]) \in Slots
        /\ frame[p] \in Frames \cup {NoFrame}
        /\ InPush(p) => frame[p] \in Frames
    BY ThreadKinds, ThreadValues DEF FrameInv
  <2>1. CASE PushClosed(p)
    BY <2>0, <2>1 DEF PushClosed
  <2>2. CASE PushPos(p)
    BY <2>0, <2>2 DEF PushPos
  <2>3. CASE PushSeq(p)
    BY <2>0, <2>3 DEF PushSeq
  <2>4. CASE PushClaim(p)
    BY <2>0, <2>4 DEF PushClaim, InPush
  <2>5. CASE PushClaimFails(p)
    BY <2>0, <2>5 DEF PushClaimFails
  <2>6. CASE PushData(p)
    BY <2>0, <2>6 DEF PushData
  <2>7. CASE PushPublish(p)
    BY <2>0, <2>7 DEF PushPublish, InPush
  <2>8. CASE PushEnq(p)
    BY <2>0, <2>8 DEF PushEnq
  <2> QED
    BY <1>2, <2>1, <2>2, <2>3, <2>4, <2>5, <2>6, <2>7, <2>8 DEF PushStep
<1>3. ASSUME NEW c \in Consumers, PopCall(c) \/ PopStep(c) PROVE ValuesOK'
  <2>0. /\ c \in Threads /\ 0 \in Nat
        /\ pos[c] + 1 \in Nat /\ pos[c] + Capacity \in Nat /\ Idx(pos[c]) \in Slots
        /\ frame[c] \in Frames \cup {NoFrame}
    BY ThreadKinds, ThreadValues
  <2>1. CASE PopCall(c)
    BY <2>0, <2>1 DEF PopCall
  <2>2. CASE PopPos(c)
    BY <2>0, <2>2 DEF PopPos
  <2>3. CASE PopSeq(c)
    BY <2>0, <2>3 DEF PopSeq
  <2>4. CASE PopClosed(c)
    BY <2>0, <2>4 DEF PopClosed
  <2>5. CASE PopRecheck(c)
    BY <2>0, <2>5 DEF PopRecheck
  <2>6. CASE PopClaim(c)
    BY <2>0, <2>6 DEF PopClaim
  <2>7. CASE PopClaimFails(c)
    BY <2>0, <2>7 DEF PopClaimFails
  <2>8. CASE PopRead(c)
    BY <2>0, <2>8 DEF PopRead
  <2>9. CASE PopRelease(c)
    BY <2>0, <2>9 DEF PopRelease
  <2> QED
    BY <1>3, <2>1, <2>2, <2>3, <2>4, <2>5, <2>6, <2>7, <2>8, <2>9 DEF PopStep
<1>4. ASSUME NEW t \in Producers \cup Consumers, WaitStep(t) \/ SpuriousWakeup(t) PROVE ValuesOK'
  <2>0. /\ t \in Threads /\ 0 \in Nat
        /\ pos[t] + 1 \in Nat /\ pos[t] + Capacity \in Nat /\ Idx(pos[t]) \in Slots
        /\ frame[t] \in Frames \cup {NoFrame}
    BY ThreadKinds, ThreadValues
  <2>1. CASE Wake(t)
    BY <2>0, <2>1 DEF Wake
  <2>2. CASE WaitEnter(t)
    BY <2>0, <2>2 DEF WaitEnter
  <2>3. CASE WaitLock(t)
    BY <2>0, <2>3 DEF WaitLock
  <2>4. CASE WaitEnq(t)
    BY <2>0, <2>4 DEF WaitEnq
  <2>5. CASE WaitDeq(t)
    BY <2>0, <2>5 DEF WaitDeq
  <2>6. CASE WaitLeave(t)
    BY <2>0, <2>6 DEF WaitLeave
  <2>7. CASE SpuriousWakeup(t)
    BY <2>0, <2>7 DEF SpuriousWakeup
  <2> QED
    BY <1>4, <2>1, <2>2, <2>3, <2>4, <2>5, <2>6, <2>7 DEF WaitStep
<1>5. ASSUME NEW o \in Owners, Close(o) \/ Reopen(o) \/ WakeAll(o) PROVE ValuesOK'
  <2>0. /\ o \in Threads /\ 0 \in Nat
        /\ pos[o] + 1 \in Nat /\ pos[o] + Capacity \in Nat /\ Idx(pos[o]) \in Slots
        /\ frame[o] \in Frames \cup {NoFrame}
    BY ThreadKinds, ThreadValues
  <2>1. CASE Close(o)
    BY <2>0, <2>1 DEF Close
  <2>2. CASE Reopen(o)
    BY <2>0, <2>2 DEF Reopen
  <2>3. CASE WakeAll(o)
    BY <2>0, <2>3 DEF WakeAll
  <2> QED
    BY <1>5, <2>1, <2>2, <2>3
<1> QED
  BY <1>0, <1>1, <1>2, <1>3, <1>4, <1>5 DEF Next

(***************************************************************************)
(* The inductive invariant.                                                *)
(***************************************************************************)

(* Facts about the types that the steps below use. *)
LEMMA Facts ==
    ASSUME TypeOK
    PROVE  /\ Capacity \in Nat /\ Capacity >= 2
           /\ enqueue_pos \in Nat /\ dequeue_pos \in Nat /\ Len(log) \in Nat
           /\ pos \in [Threads -> Nat]
           /\ sequence \in [Slots -> Nat]
           /\ pc \in [Threads -> PushPC \cup PopPC \cup OwnPC]
           /\ frame \in [Threads -> Frames \cup {NoFrame}]
           /\ data \in [Slots -> Frames \cup {NoFrame}]
           /\ log \in Seq(Frames)
  BY RingAssumption DEF TypeOK, ValuesOK, LabelsOK

(* The caller contract: a single-producer ring has one push at a time, a   *)
(* single-consumer ring one pop.                                           *)
LEMMA SingleStep == LabelsOK /\ SingleInv /\ [Next]_vars => SingleInv'
<1> SUFFICES ASSUME LabelsOK, SingleInv, [Next]_vars PROVE SingleInv'
  OBVIOUS
<1> USE ThreadKinds DEF LabelsOK, SingleInv, InPush, InPop, SP, SC, Goto, Retry, Return
<1>0. CASE UNCHANGED vars
  BY <1>0 DEF vars
<1>1. ASSUME NEW p \in Producers, NEW try \in Tries, PushCall(p, try) PROVE SingleInv'
  BY <1>1 DEF PushCall
<1>2. ASSUME NEW p \in Producers, PushStep(p) PROVE SingleInv'
  <2>0. p \in Threads
    BY ThreadKinds
  <2>1. CASE PushClosed(p)
    BY <2>0, <2>1 DEF PushClosed
  <2>2. CASE PushPos(p)
    BY <2>0, <2>2 DEF PushPos
  <2>3. CASE PushSeq(p)
    BY <2>0, <2>3 DEF PushSeq
  <2>4. CASE PushClaim(p)
    BY <2>0, <2>4 DEF PushClaim
  <2>5. CASE PushClaimFails(p)
    BY <2>0, <2>5 DEF PushClaimFails
  <2>6. CASE PushData(p)
    BY <2>0, <2>6 DEF PushData
  <2>7. CASE PushPublish(p)
    BY <2>0, <2>7 DEF PushPublish
  <2>8. CASE PushEnq(p)
    BY <2>0, <2>8 DEF PushEnq
  <2> QED
    BY <1>2, <2>1, <2>2, <2>3, <2>4, <2>5, <2>6, <2>7, <2>8 DEF PushStep
<1>3. ASSUME NEW c \in Consumers, PopCall(c) \/ PopStep(c) PROVE SingleInv'
  <2>0. c \in Threads
    BY ThreadKinds
  <2>1. CASE PopCall(c)
    BY <2>0, <2>1 DEF PopCall
  <2>2. CASE PopPos(c)
    BY <2>0, <2>2 DEF PopPos
  <2>3. CASE PopSeq(c)
    BY <2>0, <2>3 DEF PopSeq
  <2>4. CASE PopClosed(c)
    BY <2>0, <2>4 DEF PopClosed
  <2>5. CASE PopRecheck(c)
    BY <2>0, <2>5 DEF PopRecheck
  <2>6. CASE PopClaim(c)
    BY <2>0, <2>6 DEF PopClaim
  <2>7. CASE PopClaimFails(c)
    BY <2>0, <2>7 DEF PopClaimFails
  <2>8. CASE PopRead(c)
    BY <2>0, <2>8 DEF PopRead
  <2>9. CASE PopRelease(c)
    BY <2>0, <2>9 DEF PopRelease
  <2> QED
    BY <1>3, <2>1, <2>2, <2>3, <2>4, <2>5, <2>6, <2>7, <2>8, <2>9 DEF PopStep
<1>4. ASSUME NEW t \in Producers \cup Consumers, WaitStep(t) \/ SpuriousWakeup(t) PROVE SingleInv'
  <2>0. t \in Threads
    BY ThreadKinds
  <2>1. CASE Wake(t)
    BY <2>0, <2>1 DEF Wake, Woken
  <2>2. CASE WaitEnter(t)
    BY <2>0, <2>2 DEF WaitEnter
  <2>3. CASE WaitLock(t)
    BY <2>0, <2>3 DEF WaitLock
  <2>4. CASE WaitEnq(t)
    BY <2>0, <2>4 DEF WaitEnq
  <2>5. CASE WaitDeq(t)
    BY <2>0, <2>5 DEF WaitDeq
  <2>6. CASE WaitLeave(t)
    BY <2>0, <2>6 DEF WaitLeave
  <2>7. CASE SpuriousWakeup(t)
    BY <2>0, <2>7 DEF SpuriousWakeup
  <2> QED
    BY <1>4, <2>1, <2>2, <2>3, <2>4, <2>5, <2>6, <2>7 DEF WaitStep
<1>5. ASSUME NEW o \in Owners, Close(o) \/ Reopen(o) \/ WakeAll(o) PROVE SingleInv'
  <2>0. o \in Threads
    BY ThreadKinds
  <2>1. CASE Close(o)
    BY <2>0, <2>1 DEF Close
  <2>2. CASE Reopen(o)
    BY <2>0, <2>2 DEF Reopen
  <2>3. CASE WakeAll(o)
    BY <2>0, <2>3 DEF WakeAll, Woken
  <2> QED
    BY <1>5, <2>1, <2>2, <2>3
<1> QED
  BY <1>0, <1>1, <1>2, <1>3, <1>4, <1>5 DEF Next

(* A push in progress holds a frame, and so does a pop that has read its   *)
(* cell.                                                                   *)
LEMMA FrameStep == TypeOK /\ RingInv /\ [Next]_vars => FrameInv'
<1> SUFFICES ASSUME TypeOK, RingInv, [Next]_vars PROVE FrameInv'
  OBVIOUS
<1>a. FrameInv /\ pc \in [Threads -> PushPC \cup PopPC \cup OwnPC]
      /\ frame \in [Threads -> Frames \cup {NoFrame}]
  BY DEF RingInv, TypeOK, LabelsOK, ValuesOK
<1> USE <1>a, ThreadKinds DEF FrameInv, InPush, Goto, Retry, Return, Leave, locals
<1>0. CASE UNCHANGED vars
  BY <1>0 DEF vars
<1>1. ASSUME NEW p \in Producers, NEW try \in Tries, PushCall(p, try) PROVE FrameInv'
  <2>1. calls + 1 \in Frames
    BY <1>1, RingAssumption DEF PushCall, Frames, TypeOK, ValuesOK
  <2> QED
    BY <1>1, <2>1 DEF PushCall
<1>2. ASSUME NEW p \in Producers, PushStep(p) PROVE FrameInv'
  <2>0. p \in Threads
    BY ThreadKinds
  <2>1. CASE PushClosed(p)
    BY <2>0, <2>1 DEF PushClosed
  <2>2. CASE PushPos(p)
    BY <2>0, <2>2 DEF PushPos
  <2>3. CASE PushSeq(p)
    BY <2>0, <2>3 DEF PushSeq
  <2>4. CASE PushClaim(p)
    BY <2>0, <2>4 DEF PushClaim
  <2>5. CASE PushClaimFails(p)
    BY <2>0, <2>5 DEF PushClaimFails
  <2>6. CASE PushData(p)
    BY <2>0, <2>6 DEF PushData
  <2>7. CASE PushPublish(p)
    BY <2>0, <2>7 DEF PushPublish
  <2>8. CASE PushEnq(p)
    BY <2>0, <2>8 DEF PushEnq
  <2> QED
    BY <1>2, <2>1, <2>2, <2>3, <2>4, <2>5, <2>6, <2>7, <2>8 DEF PushStep
<1>3. ASSUME NEW c \in Consumers, PopCall(c) \/ PopStep(c) PROVE FrameInv'
  <2>0. c \in Threads
    BY ThreadKinds
  <2>1. CASE PopCall(c)
    BY <2>0, <2>1 DEF PopCall
  <2>2. CASE PopPos(c)
    BY <2>0, <2>2 DEF PopPos
  <2>3. CASE PopSeq(c)
    BY <2>0, <2>3 DEF PopSeq
  <2>4. CASE PopClosed(c)
    BY <2>0, <2>4 DEF PopClosed
  <2>5. CASE PopRecheck(c)
    BY <2>0, <2>5 DEF PopRecheck
  <2>6. CASE PopClaim(c)
    BY <2>0, <2>6 DEF PopClaim
  <2>7. CASE PopClaimFails(c)
    BY <2>0, <2>7 DEF PopClaimFails
  <2>8. CASE PopRead(c)
    <3>1. data[Idx(pos[c])] \in Frames
      <4>1. /\ data[Idx(pos[c])] = log[pos[c] + 1]
            /\ pos[c] < dequeue_pos /\ dequeue_pos <= Len(log)
        BY <2>8 DEF PopRead, RingInv, PopInv, PopOwned, PopOwns, WindowInv
      <4>2. pos[c] \in Nat /\ dequeue_pos \in Nat /\ Len(log) \in Nat /\ log \in Seq(Frames)
        BY <2>0, Facts
      <4>3. pos[c] + 1 \in 1 .. Len(log)
        BY <4>1, <4>2
      <4> QED
        BY <4>1, <4>2, <4>3
    <3> QED
      BY <2>0, <2>8, <3>1 DEF PopRead
  <2>9. CASE PopRelease(c)
    BY <2>0, <2>9 DEF PopRelease
  <2> QED
    BY <1>3, <2>1, <2>2, <2>3, <2>4, <2>5, <2>6, <2>7, <2>8, <2>9 DEF PopStep
<1>4. ASSUME NEW t \in Producers \cup Consumers, WaitStep(t) \/ SpuriousWakeup(t) PROVE FrameInv'
  <2>0. t \in Threads
    BY ThreadKinds
  <2>1. CASE Wake(t)
    BY <2>0, <2>1 DEF Wake, Woken
  <2>2. CASE WaitEnter(t)
    BY <2>0, <2>2 DEF WaitEnter
  <2>3. CASE WaitLock(t)
    BY <2>0, <2>3 DEF WaitLock
  <2>4. CASE WaitEnq(t)
    BY <2>0, <2>4 DEF WaitEnq
  <2>5. CASE WaitDeq(t)
    BY <2>0, <2>5 DEF WaitDeq
  <2>6. CASE WaitLeave(t)
    BY <2>0, <2>6 DEF WaitLeave
  <2>7. CASE SpuriousWakeup(t)
    BY <2>0, <2>7 DEF SpuriousWakeup
  <2> QED
    BY <1>4, <2>1, <2>2, <2>3, <2>4, <2>5, <2>6, <2>7 DEF WaitStep
<1>5. ASSUME NEW o \in Owners, Close(o) \/ Reopen(o) \/ WakeAll(o) PROVE FrameInv'
  <2>0. o \in Threads
    BY ThreadKinds
  <2>1. CASE Close(o)
    BY <2>0, <2>1 DEF Close
  <2>2. CASE Reopen(o)
    BY <2>0, <2>2 DEF Reopen
  <2>3. CASE WakeAll(o)
    BY <2>0, <2>3 DEF WakeAll, Woken
  <2> QED
    BY <1>5, <2>1, <2>2, <2>3
<1> QED
  BY <1>0, <1>1, <1>2, <1>3, <1>4, <1>5 DEF Next

(* Labels at which the thread owns a cell or has yet to store enqueue_pos. *)
OwningPC == {"p_data", "p_pub", "p_enq", "c_read", "c_rel"}

(* Thread t stands still, or moves between labels at which it owns nothing *)
(* with the positions it has loaded as they should be.                     *)
Moves(t) ==
    \/ pc'[t] = pc[t] /\ pos'[t] = pos[t] /\ frame'[t] = frame[t]
    \/ /\ pc[t] \notin OwningPC /\ pc'[t] \notin OwningPC
       /\ PushLoaded(t)' /\ PopLoaded(t)'

(* A step that leaves the cells and the positions alone and moves threads  *)
(* between labels at which they own nothing preserves the invariant.  This *)
(* covers calling, loading, giving up, waiting, waking and closing.        *)
LEMMA Passive ==
    ASSUME RingInv, SingleInv', FrameInv', UNCHANGED <<mode, ring, log>>,
           \A t \in Producers \cup Consumers : Moves(t)
    PROVE  RingInv'
<1>1. \A p \in Producers :
         /\ pc'[p] = "p_enq" <=> pc[p] = "p_enq"
         /\ PushOwns(p)' <=> PushOwns(p)
         /\ pc'[p] \in OwningPC => /\ pc'[p] = pc[p] /\ pos'[p] = pos[p]
                                   /\ frame'[p] = frame[p]
  BY DEF Moves, PushOwns, OwningPC
<1>2. \A c \in Consumers :
         /\ PopOwns(c)' <=> PopOwns(c)
         /\ pc'[c] \in OwningPC => /\ pc'[c] = pc[c] /\ pos'[c] = pos[c]
                                   /\ frame'[c] = frame[c]
  BY DEF Moves, PopOwns, OwningPC
<1>3. /\ mode' = mode /\ enqueue_pos' = enqueue_pos /\ dequeue_pos' = dequeue_pos
      /\ sequence' = sequence /\ data' = data /\ log' = log
  BY DEF ring
<1>4. SP' = SP /\ SC' = SC
  BY <1>3 DEF SP, SC
<1>5. WindowInv'
  BY <1>1, <1>3, <1>4 DEF RingInv, WindowInv, OwningPC
<1>6. PushInv'
  <2>1. \A p \in Producers : PushLoaded(p)'
    BY <1>3, <1>4 DEF RingInv, PushInv, Moves, PushLoaded
  <2>2. \A p \in Producers : PushOwned(p)'
    BY <1>1, <1>3, <1>4 DEF RingInv, PushInv, PushOwned, PushOwns, OwningPC
  <2> QED
    BY <1>1, <2>1, <2>2 DEF RingInv, PushInv, PushOwns, OwningPC
<1>7. PopInv'
  <2>1. \A c \in Consumers : PopLoaded(c)'
    BY <1>3, <1>4 DEF RingInv, PopInv, Moves, PopLoaded
  <2>2. \A c \in Consumers : PopOwned(c)'
    BY <1>2, <1>3, <1>4 DEF RingInv, PopInv, PopOwned, PopOwns, OwningPC
  <2> QED
    BY <1>2, <2>1, <2>2 DEF RingInv, PopInv, PopOwns, OwningPC
<1>8. CellInv'
  BY <1>1, <1>2, <1>3, <1>4 DEF RingInv, CellInv, OwningPC, PushOwns, PopOwns
<1> QED
  BY <1>5, <1>6, <1>7, <1>8 DEF RingInv

(* Where a push owns a cell its position lies in the window, and no pop    *)
(* that is still releasing a cell a turn earlier owns the same one.        *)
LEMMA PushWindow ==
    ASSUME TypeOK, RingInv, NEW i \in Nat, i = Len(log), sequence[Idx(i)] = i
    PROVE  /\ i < dequeue_pos + Capacity
           /\ \A c \in Consumers : PopOwns(c) => i < pos[c] + Capacity
<1> USE Facts, ThreadKinds
<1>1. ASSUME i = dequeue_pos + Capacity PROVE FALSE
  <2>1. Idx(i) = Idx(dequeue_pos)
    BY <1>1, IdxTurn
  <2>2. dequeue_pos \in dequeue_pos .. Len(log) - 1
    BY <1>1
  <2>3. \/ sequence[Idx(dequeue_pos)] = dequeue_pos + 1
        \/ \E q \in Producers : PushOwns(q) /\ pos[q] = dequeue_pos
    BY <2>2 DEF RingInv, CellInv
  <2>4. sequence[Idx(dequeue_pos)] \in {dequeue_pos, dequeue_pos + 1}
    BY <2>3 DEF RingInv, PushInv, PushOwned
  <2> QED
    BY <1>1, <2>1, <2>4
<1>2. ASSUME NEW c \in Consumers, PopOwns(c), i = pos[c] + Capacity PROVE FALSE
  <2>1. Idx(i) = Idx(pos[c])
    BY <1>2, IdxTurn
  <2>2. sequence[Idx(pos[c])] = pos[c] + 1
    BY <1>2 DEF RingInv, PopInv, PopOwned
  <2> QED
    BY <1>2, <2>1, <2>2
<1> QED
  BY SMTT(30), <1>1, <1>2 DEF RingInv, WindowInv, PopInv, PopOwned

(* A push wins its position: the cell was free, and the log grows by it.   *)
LEMMA PushClaimStep ==
    ASSUME TypeOK, RingInv, SingleInv', FrameInv', NEW p \in Producers, PushClaim(p)
    PROVE  RingInv'
<1> USE Facts, ThreadKinds
<1> DEFINE T == Len(log)
<1>1. /\ p \in Threads /\ ~SP /\ enqueue_pos = T /\ pos[p] = T /\ sequence[Idx(T)] = T
      /\ frame[p] \in Frames
  BY DEF PushClaim, RingInv, PushInv, PushLoaded, WindowInv, FrameInv, InPush
<1>2. /\ mode' = mode /\ enqueue_pos' = T + 1 /\ dequeue_pos' = dequeue_pos
      /\ sequence' = sequence /\ data' = data /\ pos' = pos /\ frame' = frame
      /\ pc' = [pc EXCEPT ![p] = "p_data"]
      /\ log' = Append(log, frame[p])
  BY <1>1 DEF PushClaim, Goto, locals
<1>3. /\ Len(log') = T + 1 /\ log'[T + 1] = frame[p]
      /\ \A i \in 1 .. T : log'[i] = log[i]
  BY <1>1, <1>2
<1>4. SP' = SP /\ SC' = SC
  BY <1>2 DEF SP, SC
<1>5. /\ T < dequeue_pos + Capacity
      /\ \A c \in Consumers : PopOwns(c) => T < pos[c] + Capacity
  BY <1>1, PushWindow
<1>6. \A q \in Producers : pc'[q] = IF q = p THEN "p_data" ELSE pc[q]
  BY <1>2
<1>7. \A c \in Consumers : pc'[c] = pc[c]
  BY <1>2
<1>8. WindowInv'
  BY <1>1, <1>2, <1>3, <1>4, <1>5, <1>6 DEF RingInv, WindowInv
<1>9. PushInv'
  <2>1. ASSUME NEW q \in Producers PROVE PushLoaded(q)'
    BY <1>1, <1>2, <1>4, <1>6 DEF RingInv, PushInv, PushLoaded
  <2>2. ASSUME NEW q \in Producers PROVE PushOwned(q)'
    <3>1. CASE q = p
      BY <3>1, <1>1, <1>2, <1>3, <1>4, <1>6 DEF RingInv, WindowInv, PushOwned, PushOwns
    <3>2. CASE q # p
      <4> SUFFICES ASSUME PushOwns(q)' PROVE PushOwned(q)'
        BY DEF PushOwned
      <4>1. /\ PushOwns(q) /\ pc'[q] = pc[q]
            /\ sequence[Idx(pos[q])] = pos[q]
            /\ dequeue_pos <= pos[q] /\ pos[q] < T /\ log[pos[q] + 1] = frame[q]
            /\ pc[q] = "p_pub" => data[Idx(pos[q])] = frame[q]
        BY <3>2, <1>1, <1>6 DEF RingInv, PushInv, PushOwned, PushOwns
      <4>2. pos[q] < T + 1 /\ log'[pos[q] + 1] = frame[q]
        <5>1. T \in Nat /\ pos[q] \in Nat /\ pos[q] + 1 \in 1 .. T
          BY <4>1
        <5> QED
          BY <4>1, <5>1, <1>3
      <4> QED
        BY <4>1, <4>2, <1>1, <1>2, <1>3, <1>4 DEF PushOwned
    <3> QED
      BY <3>1, <3>2
  <2>3. ASSUME NEW q \in Producers, NEW r \in Producers,
               PushOwns(q)', PushOwns(r)', pos'[q] = pos'[r]
        PROVE  q = r
    BY <2>3, <1>1, <1>2, <1>6 DEF RingInv, PushInv, PushOwned, PushOwns
  <2> QED
    BY <2>1, <2>2, <2>3 DEF PushInv
<1>10. PopInv'
  <2>1. ASSUME NEW c \in Consumers PROVE PopLoaded(c)'
    BY <1>2, <1>4, <1>7 DEF RingInv, PopInv, PopLoaded
  <2>2. ASSUME NEW c \in Consumers PROVE PopOwned(c)'
    <3>1. PopOwns(c) => pos[c] + 1 \in 1 .. T
      BY DEF RingInv, PopInv, PopOwned, WindowInv
    <3> QED
      BY <3>1, <1>2, <1>3, <1>5, <1>7 DEF RingInv, PopInv, PopOwned, PopOwns
  <2> QED
    BY <1>2, <1>7, <2>1, <2>2 DEF RingInv, PopInv, PopOwns
<1>11. CellInv'
  <2>1. ASSUME NEW i \in dequeue_pos' .. Len(log') - 1
        PROVE  \/ sequence'[Idx(i)] = i + 1 /\ data'[Idx(i)] = log'[i + 1]
               \/ \E q \in Producers : PushOwns(q)' /\ pos'[q] = i
    <3>1. CASE i = T
      BY <3>1, <1>1, <1>2, <1>6 DEF PushOwns
    <3>2. CASE i # T
      <4>1. i \in dequeue_pos .. T - 1 /\ i + 1 \in 1 .. T
        BY <3>2, <1>2, <1>3
      <4>2. \/ sequence[Idx(i)] = i + 1 /\ data[Idx(i)] = log[i + 1]
            \/ \E q \in Producers : PushOwns(q) /\ pos[q] = i
        BY <4>1 DEF RingInv, CellInv
      <4> QED
        BY <4>1, <4>2, <1>1, <1>2, <1>3, <1>6 DEF PushOwns
    <3> QED
      BY <3>1, <3>2
  <2>2. ASSUME NEW i \in Len(log') .. dequeue_pos' + Capacity - 1
        PROVE  \/ sequence'[Idx(i)] = i
               \/ \E c \in Consumers : PopOwns(c)' /\ pos'[c] + Capacity = i
    <3>1. i \in T .. dequeue_pos + Capacity - 1
      BY <1>2, <1>3
    <3> QED
      BY <3>1, <1>2, <1>7 DEF RingInv, CellInv, PopOwns
  <2> QED
    BY <1>1, <1>4, <2>1, <2>2 DEF CellInv
<1> QED
  BY <1>8, <1>9, <1>10, <1>11 DEF RingInv

(* The cell a push owns is nobody else's: not another push's, not a        *)
(* pop's, and not the cell of another position of the window.              *)
LEMMA PushOwnsAlone ==
    ASSUME TypeOK, RingInv, NEW p \in Producers, PushOwns(p)
    PROVE  /\ \A q \in Producers : PushOwns(q) /\ q # p => Idx(pos[q]) # Idx(pos[p])
           /\ \A c \in Consumers : PopOwns(c) => Idx(pos[c]) # Idx(pos[p])
           /\ \A i \in dequeue_pos .. dequeue_pos + Capacity - 1 :
                 i # pos[p] => Idx(i) # Idx(pos[p])
<1> USE Facts, ThreadKinds
<1> DEFINE H == dequeue_pos
           T == Len(log)
<1>1. /\ pos[p] \in Nat /\ sequence[Idx(pos[p])] = pos[p] /\ H <= T /\ T <= H + Capacity
      /\ SP => pos[p] = T
      /\ ~SP => H <= pos[p] /\ pos[p] < T
  BY DEF RingInv, PushInv, PushOwned, WindowInv
<1>2. /\ H <= pos[p] /\ pos[p] < H + Capacity
      /\ \A c \in Consumers : PopOwns(c) => pos[p] < pos[c] + Capacity
  <2>1. CASE SP
    BY <1>1, <2>1, PushWindow
  <2>2. CASE ~SP
    BY <1>1, <2>2 DEF RingInv, PopInv, PopOwned
  <2> QED
    BY <2>1, <2>2
<1>3. ASSUME NEW q \in Producers, PushOwns(q), q # p PROVE Idx(pos[q]) # Idx(pos[p])
  <2>1. ~SP
    BY <1>3 DEF RingInv, SingleInv, InPush, PushOwns
  <2>2. pos[q] \in Nat /\ H <= pos[q] /\ pos[q] < T /\ pos[q] # pos[p]
    BY <1>3, <2>1 DEF RingInv, PushInv, PushOwned
  <2> QED
    BY <1>1, <1>2, <2>2, IdxInjective
<1>4. ASSUME NEW c \in Consumers, PopOwns(c) PROVE Idx(pos[c]) # Idx(pos[p])
  <2>1. pos[c] \in Nat /\ pos[c] < H
    BY <1>4 DEF RingInv, PopInv, PopOwned
  <2> QED
    BY <1>1, <1>2, <1>4, <2>1, IdxInjective
<1>5. ASSUME NEW i \in H .. H + Capacity - 1, i # pos[p] PROVE Idx(i) # Idx(pos[p])
  BY <1>1, <1>2, <1>5, IdxInjective
<1> QED
  BY <1>3, <1>4, <1>5

(* The cell a pop owns is nobody else's either; its next use is a turn     *)
(* later.                                                                  *)
LEMMA PopOwnsAlone ==
    ASSUME TypeOK, RingInv, NEW c \in Consumers, PopOwns(c)
    PROVE  /\ \A d \in Consumers : PopOwns(d) /\ d # c => Idx(pos[d]) # Idx(pos[c])
           /\ \A i \in dequeue_pos .. dequeue_pos + Capacity - 1 :
                 i # pos[c] + Capacity => Idx(i) # Idx(pos[c])
           /\ \A i \in dequeue_pos .. Len(log) - 1 : i # pos[c] + Capacity
<1> USE Facts, ThreadKinds
<1> DEFINE H == dequeue_pos
           T == Len(log)
<1>1. /\ pos[c] \in Nat /\ pos[c] < H /\ T <= pos[c] + Capacity /\ H <= T
  BY DEF RingInv, PopInv, PopOwned, WindowInv
<1>2. ASSUME NEW d \in Consumers, PopOwns(d), d # c PROVE Idx(pos[d]) # Idx(pos[c])
  <2>1. pos[d] \in Nat /\ pos[d] < H /\ T <= pos[d] + Capacity /\ pos[d] # pos[c]
    BY <1>2 DEF RingInv, PopInv, PopOwned
  <2> QED
    BY <1>1, <2>1, IdxInjective
<1>3. ASSUME NEW i \in H .. H + Capacity - 1, i # pos[c] + Capacity
      PROVE  Idx(i) # Idx(pos[c])
  <2>1. Idx(pos[c]) = Idx(pos[c] + Capacity)
    BY <1>1, IdxTurn
  <2>2. CASE i < pos[c] + Capacity
    BY <1>1, <1>3, <2>2, IdxInjective
  <2>3. CASE i > pos[c] + Capacity
    <3>1. /\ i \in Nat /\ pos[c] + Capacity \in Nat /\ i # pos[c] + Capacity
          /\ i < (pos[c] + Capacity) + Capacity /\ pos[c] + Capacity < i + Capacity
      BY <1>1, <1>3, <2>3
    <3>2. Idx(i) # Idx(pos[c] + Capacity)
      BY <3>1, IdxInjective
    <3> QED
      BY <3>2, <2>1
  <2>4. i < pos[c] + Capacity \/ i > pos[c] + Capacity
    <3>1. i \in Int /\ pos[c] + Capacity \in Int
      BY <1>1
    <3> QED
      BY <1>3, <3>1
  <2> QED
    BY <2>2, <2>3, <2>4
<1> QED
  BY <1>1, <1>2, <1>3

(* A single producer that finds its cell free owns it at once. *)
LEMMA PushTakesStep ==
    ASSUME TypeOK, RingInv, SingleInv', FrameInv', NEW p \in Producers, SP,
           pc[p] = "p_seq", sequence[Idx(pos[p])] = pos[p], Goto(p, "p_data"),
           UNCHANGED <<mode, ring, pos, frame, log>>
    PROVE  RingInv'
<1> USE Facts, ThreadKinds
<1>1. /\ p \in Threads
      /\ \A q \in Producers : q # p => pc[q] = "idle"
      /\ enqueue_pos = Len(log) /\ pos[p] = Len(log)
  BY DEF RingInv, SingleInv, InPush, WindowInv, PushInv, PushLoaded
<1>2. /\ mode' = mode /\ enqueue_pos' = enqueue_pos /\ dequeue_pos' = dequeue_pos
      /\ sequence' = sequence /\ data' = data /\ log' = log /\ pos' = pos /\ frame' = frame
      /\ pc' = [pc EXCEPT ![p] = "p_data"]
  BY DEF ring, Goto
<1>3. SP' = SP /\ SC' = SC
  BY <1>2 DEF SP, SC
<1>4. \A q \in Producers : pc'[q] = IF q = p THEN "p_data" ELSE "idle"
  BY <1>1, <1>2
<1>5. \A c \in Consumers : pc'[c] = pc[c]
  BY <1>2
<1>6. WindowInv'
  BY <1>1, <1>2, <1>3, <1>4 DEF RingInv, WindowInv
<1>7. PushInv'
  BY <1>1, <1>2, <1>3, <1>4 DEF PushInv, PushLoaded, PushOwned, PushOwns
<1>8. PopInv'
  BY <1>2, <1>3, <1>5 DEF RingInv, PopInv, PopLoaded, PopOwned, PopOwns
<1>9. CellInv'
  BY <1>2, <1>3, <1>5 DEF RingInv, CellInv, PopOwns
<1> QED
  BY <1>6, <1>7, <1>8, <1>9 DEF RingInv

(* A push writes the data of the cell it owns. *)
LEMMA PushDataStep ==
    ASSUME TypeOK, RingInv, SingleInv', FrameInv', NEW p \in Producers, PushData(p)
    PROVE  RingInv'
<1> USE Facts, ThreadKinds
<1>1. /\ p \in Threads /\ pc[p] = "p_data" /\ PushOwns(p) /\ Idx(pos[p]) \in Slots
      /\ mode' = mode /\ enqueue_pos' = enqueue_pos /\ dequeue_pos' = dequeue_pos
      /\ sequence' = sequence /\ log' = log /\ pos' = pos /\ frame' = frame
      /\ pc' = [pc EXCEPT ![p] = "p_pub"]
      /\ data' = [data EXCEPT ![Idx(pos[p])] = frame[p]]
  BY IdxType DEF PushData, Goto, locals, ghosts, PushOwns
<1>2. SP' = SP /\ SC' = SC
  BY <1>1 DEF SP, SC
<1>3. /\ data'[Idx(pos[p])] = frame[p]
      /\ \A i \in Nat : Idx(i) # Idx(pos[p]) => data'[Idx(i)] = data[Idx(i)]
  BY <1>1, IdxType
<1>4. \A q \in Producers : /\ pc'[q] = IF q = p THEN "p_pub" ELSE pc[q]
                           /\ PushOwns(q)' <=> PushOwns(q)
  BY <1>1 DEF PushOwns
<1>5. \A c \in Consumers : pc'[c] = pc[c] /\ (PopOwns(c)' <=> PopOwns(c))
  BY <1>1 DEF PopOwns
<1>6. WindowInv'
  BY <1>1, <1>2, <1>4 DEF RingInv, WindowInv
<1>7. PushInv'
  <2>1. ASSUME NEW q \in Producers PROVE PushLoaded(q)'
    BY <1>1, <1>2, <1>4 DEF RingInv, PushInv, PushLoaded
  <2>2. ASSUME NEW q \in Producers PROVE PushOwned(q)'
    <3>1. CASE q = p
      BY <3>1, <1>1, <1>2, <1>3, <1>4 DEF RingInv, PushInv, PushOwned
    <3>2. CASE q # p
      BY <3>2, <1>1, <1>2, <1>3, <1>4, PushOwnsAlone DEF RingInv, PushInv, PushOwned
    <3> QED
      BY <3>1, <3>2
  <2> QED
    BY <1>1, <1>4, <2>1, <2>2 DEF RingInv, PushInv
<1>8. PopInv'
  <2>1. ASSUME NEW c \in Consumers PROVE PopLoaded(c)' /\ PopOwned(c)'
    BY <1>1, <1>2, <1>3, <1>5, PushOwnsAlone
       DEF RingInv, PopInv, PopLoaded, PopOwned
  <2> QED
    BY <1>1, <1>5, <2>1 DEF RingInv, PopInv
<1>9. CellInv'
  <2>1. ASSUME NEW i \in dequeue_pos .. Len(log) - 1
        PROVE  \/ sequence[Idx(i)] = i + 1 /\ data'[Idx(i)] = log[i + 1]
               \/ ~SP /\ \E q \in Producers : PushOwns(q) /\ pos[q] = i
    <3>1. CASE i = pos[p]
      BY <3>1, <1>1 DEF RingInv, PushInv, PushOwned
    <3>2. CASE i # pos[p]
      <4>1. i \in Nat /\ i \in dequeue_pos .. dequeue_pos + Capacity - 1
        BY DEF RingInv, WindowInv
      <4>2. data'[Idx(i)] = data[Idx(i)]
        BY <3>2, <4>1, <1>1, <1>3, PushOwnsAlone
      <4> QED
        BY <4>2 DEF RingInv, CellInv
    <3> QED
      BY <3>1, <3>2
  <2> QED
    BY <1>1, <1>2, <1>4, <1>5, <2>1 DEF RingInv, CellInv
<1> QED
  BY <1>6, <1>7, <1>8, <1>9 DEF RingInv

(* A push publishes its cell; in a single-producer ring this is also where *)
(* the frame enters the log.                                               *)
LEMMA PushPublishStep ==
    ASSUME TypeOK, RingInv, SingleInv', FrameInv', NEW p \in Producers, PushPublish(p)
    PROVE  RingInv'
<1> USE Facts, ThreadKinds
<1> DEFINE H == dequeue_pos
           T == Len(log)
           i0 == pos[p]
<1>1. /\ p \in Threads /\ pc[p] = "p_pub" /\ PushOwns(p)
      /\ i0 \in Nat /\ Idx(i0) \in Slots
      /\ mode' = mode /\ enqueue_pos' = enqueue_pos /\ dequeue_pos' = H
      /\ data' = data /\ pos' = pos /\ frame' = frame
      /\ pc' = [pc EXCEPT ![p] = IF SP THEN "p_enq" ELSE "wake"]
      /\ sequence' = [sequence EXCEPT ![Idx(i0)] = i0 + 1]
      /\ log' = IF SP THEN Append(log, frame[p]) ELSE log
  BY IdxType DEF PushPublish, Goto, locals, PushOwns
<1>2. /\ sequence[Idx(i0)] = i0 /\ data[Idx(i0)] = frame[p] /\ frame[p] \in Frames
      /\ SP => i0 = T
      /\ ~SP => H <= i0 /\ i0 < T /\ log[i0 + 1] = frame[p]
  BY <1>1 DEF RingInv, PushInv, PushOwned, FrameInv, InPush
<1>3. SP' = SP /\ SC' = SC
  BY <1>1 DEF SP, SC
<1>4. /\ sequence'[Idx(i0)] = i0 + 1
      /\ \A i \in Nat : Idx(i) # Idx(i0) => sequence'[Idx(i)] = sequence[Idx(i)]
  BY <1>1, IdxType
<1>5. /\ SP => Len(log') = T + 1
      /\ ~SP => Len(log') = T
      /\ log'[i0 + 1] = frame[p]
      /\ \A i \in 1 .. T : log'[i] = log[i]
  BY <1>1, <1>2
<1>6. /\ SP => T < H + Capacity
      /\ SP => \A c \in Consumers : PopOwns(c) => T < pos[c] + Capacity
      /\ H <= T /\ T <= H + Capacity
  BY <1>2, PushWindow DEF RingInv, WindowInv
<1>7. \A q \in Producers :
         /\ pc'[q] = IF q = p THEN (IF SP THEN "p_enq" ELSE "wake") ELSE pc[q]
         /\ PushOwns(q)' <=> PushOwns(q) /\ q # p
         /\ SP /\ q # p => pc[q] = "idle"
  BY <1>1 DEF PushOwns, RingInv, SingleInv, InPush
<1>8. \A c \in Consumers : pc'[c] = pc[c] /\ (PopOwns(c)' <=> PopOwns(c))
  BY <1>1 DEF PopOwns
<1>9. WindowInv'
  <2>1. SP => enqueue_pos = T
    BY <1>1, <1>7 DEF RingInv, WindowInv
  <2> QED
    BY <1>1, <1>2, <1>3, <1>5, <1>6, <1>7, <2>1 DEF RingInv, WindowInv
<1>10. PushInv'
  <2>1. ASSUME NEW q \in Producers PROVE PushLoaded(q)'
    <3>1. CASE SP
      BY <3>1, <1>7 DEF PushLoaded
    <3>2. CASE ~SP
      <4>1. /\ pc'[q] \in {"p_seq", "p_claim"} => pc'[q] = pc[q]
            /\ enqueue_pos = T /\ pos[q] \in Nat
        BY <3>2, <1>7 DEF RingInv, WindowInv
      <4>2. sequence[Idx(pos[q])] = pos[q] /\ pos[q] = T
               => sequence'[Idx(pos[q])] = sequence[Idx(pos[q])]
        <5>1. ASSUME sequence[Idx(pos[q])] = pos[q], pos[q] = T PROVE Idx(pos[q]) # Idx(i0)
          <6>1. i0 # T
            BY <3>2, <1>1, <1>2
          <6> QED
            BY <5>1, <6>1, <1>2
        <5>2. pos[q] \in Nat
          BY <4>1
        <5> QED
          BY <5>1, <5>2, <1>4
      <4> QED
        BY <3>2, <4>1, <4>2, <1>1, <1>3 DEF RingInv, PushInv, PushLoaded
    <3> QED
      BY <3>1, <3>2
  <2>2. ASSUME NEW q \in Producers PROVE PushOwned(q)'
    <3> SUFFICES ASSUME PushOwns(q)' PROVE PushOwned(q)'
      BY DEF PushOwned
    <3>1. /\ PushOwns(q) /\ q # p /\ ~SP /\ pc'[q] = pc[q] /\ pos[q] \in Nat
      BY <1>7 DEF PushOwns
    <3>2. sequence'[Idx(pos[q])] = sequence[Idx(pos[q])]
      BY <3>1, <1>1, <1>4, PushOwnsAlone
    <3> QED
      BY <3>1, <3>2, <1>1, <1>3 DEF RingInv, PushInv, PushOwned
  <2> QED
    BY <1>1, <1>7, <2>1, <2>2 DEF RingInv, PushInv
<1>11. PopInv'
  <2>1. ASSUME NEW c \in Consumers PROVE PopLoaded(c)'
    <3>1. pos[c] \in Nat
      OBVIOUS
    <3>2. ASSUME pos[c] = H, sequence[Idx(H)] = H + 1 PROVE sequence'[Idx(H)] = H + 1
      <4>1. ASSUME Idx(H) = Idx(i0) PROVE FALSE
        <5>1. i0 = H + 1
          BY <3>2, <4>1, <1>2
        <5> QED
          BY <4>1, <5>1, IdxInjective
      <4> QED
        BY <3>2, <4>1, <1>4
    <3> QED
      BY <3>1, <3>2, <1>1, <1>3, <1>8 DEF RingInv, PopInv, PopLoaded
  <2>2. ASSUME NEW c \in Consumers PROVE PopOwned(c)'
    <3> SUFFICES ASSUME PopOwns(c) PROVE PopOwned(c)'
      BY <1>8 DEF PopOwned
    <3>1. /\ pos[c] \in Nat /\ pos[c] < H /\ T <= pos[c] + Capacity
          /\ sequence[Idx(pos[c])] = pos[c] + 1
          /\ pc[c] = "c_read" => data[Idx(pos[c])] = log[pos[c] + 1]
      BY DEF RingInv, PopInv, PopOwned
    <3>2. sequence'[Idx(pos[c])] = pos[c] + 1
      BY <3>1, <1>1, <1>4, PushOwnsAlone
    <3>3. Len(log') <= pos[c] + Capacity /\ log'[pos[c] + 1] = log[pos[c] + 1]
      <4>1. T \in Nat /\ H \in Nat /\ pos[c] + 1 \in 1 .. T
        BY <3>1, <1>6
      <4>2. log'[pos[c] + 1] = log[pos[c] + 1]
        BY <4>1, <1>5
      <4>3. CASE SP
        <5>1. T < pos[c] + Capacity /\ Len(log') = T + 1
          BY <4>3, <1>5, <1>6
        <5> QED
          BY <3>1, <4>1, <4>2, <5>1
      <4>4. CASE ~SP
        <5>1. Len(log') = T
          BY <4>4, <1>5
        <5> QED
          BY <3>1, <4>2, <5>1
      <4> QED
        BY <4>2, <4>3, <4>4
    <3> QED
      BY <3>1, <3>2, <3>3, <1>1, <1>8 DEF PopOwned
  <2> QED
    BY <1>1, <1>8, <2>1, <2>2 DEF RingInv, PopInv
<1>12. CellInv'
  <2>1. ASSUME NEW i \in H .. Len(log') - 1
        PROVE  \/ sequence'[Idx(i)] = i + 1 /\ data[Idx(i)] = log'[i + 1]
               \/ ~SP /\ \E q \in Producers : PushOwns(q)' /\ pos[q] = i
    <3>1. CASE i = i0
      BY SMTT(30), <3>1, <1>2, <1>4, <1>5
    <3>2. CASE i # i0
      <4>1. /\ i \in Nat /\ i \in H .. T - 1 /\ i + 1 \in 1 .. T
            /\ i \in H .. H + Capacity - 1
        BY <3>2, <1>2, <1>5, <1>6
      <4>2. sequence'[Idx(i)] = sequence[Idx(i)] /\ log'[i + 1] = log[i + 1]
        BY <3>2, <4>1, <1>1, <1>4, <1>5, PushOwnsAlone
      <4>3. \/ sequence[Idx(i)] = i + 1 /\ data[Idx(i)] = log[i + 1]
            \/ ~SP /\ \E q \in Producers : PushOwns(q) /\ pos[q] = i
        BY <4>1 DEF RingInv, CellInv
      <4> QED
        BY <3>2, <4>2, <4>3, <1>7
    <3> QED
      BY <3>1, <3>2
  <2>2. ASSUME NEW i \in Len(log') .. H + Capacity - 1
        PROVE  \/ sequence'[Idx(i)] = i
               \/ \E c \in Consumers : PopOwns(c)' /\ pos[c] + Capacity = i
    <3>1. /\ i \in Nat /\ i \in T .. H + Capacity - 1 /\ i # i0
          /\ i \in H .. H + Capacity - 1
      BY <1>2, <1>5, <1>6
    <3>2. sequence'[Idx(i)] = sequence[Idx(i)]
      BY <3>1, <1>1, <1>4, PushOwnsAlone
    <3> QED
      BY <3>1, <3>2, <1>8 DEF RingInv, CellInv
  <2> QED
    BY <1>1, <1>3, <2>1, <2>2 DEF CellInv
<1> QED
  BY <1>9, <1>10, <1>11, <1>12 DEF RingInv

(* A single producer stores the position it has published. *)
LEMMA PushEnqStep ==
    ASSUME TypeOK, RingInv, SingleInv', FrameInv', NEW p \in Producers, PushEnq(p)
    PROVE  RingInv'
<1> USE Facts, ThreadKinds
<1>1. /\ p \in Threads /\ pc[p] = "p_enq" /\ SP /\ pos[p] + 1 = Len(log)
      /\ mode' = mode /\ enqueue_pos' = Len(log) /\ dequeue_pos' = dequeue_pos
      /\ sequence' = sequence /\ data' = data /\ log' = log /\ pos' = pos /\ frame' = frame
      /\ pc' = [pc EXCEPT ![p] = "wake"]
  BY DEF PushEnq, Goto, locals, ghosts, RingInv, WindowInv
<1>2. SP' = SP /\ SC' = SC
  BY <1>1 DEF SP, SC
<1>3. \A q \in Producers : pc'[q] = IF q = p THEN "wake" ELSE "idle"
  BY <1>1 DEF RingInv, SingleInv, InPush
<1>4. \A c \in Consumers : pc'[c] = pc[c]
  BY <1>1
<1>5. WindowInv'
  BY <1>1, <1>2, <1>3 DEF RingInv, WindowInv
<1>6. PushInv'
  BY <1>3 DEF PushInv, PushLoaded, PushOwned, PushOwns
<1>7. PopInv'
  BY <1>1, <1>2, <1>4 DEF RingInv, PopInv, PopLoaded, PopOwned, PopOwns
<1>8. CellInv'
  BY <1>1, <1>2, <1>4 DEF RingInv, CellInv, PopOwns
<1> QED
  BY <1>5, <1>6, <1>7, <1>8 DEF RingInv

(* A position that is published and not yet taken is in the log, and its  *)
(* cell holds its frame.                                                   *)
LEMMA PublishedHead ==
    ASSUME TypeOK, RingInv, sequence[Idx(dequeue_pos)] = dequeue_pos + 1
    PROVE  dequeue_pos < Len(log) /\ data[Idx(dequeue_pos)] = log[dequeue_pos + 1]
<1> USE Facts, ThreadKinds
<1> DEFINE H == dequeue_pos
           T == Len(log)
<1>1. H <= T
  BY DEF RingInv, WindowInv
<1>2. H < T
  <2>1. ASSUME H = T PROVE FALSE
    <3>1. H \in T .. H + Capacity - 1
      BY <2>1
    <3>2. \/ sequence[Idx(H)] = H
          \/ \E d \in Consumers : PopOwns(d) /\ pos[d] + Capacity = H
      BY <3>1 DEF RingInv, CellInv
    <3>3. ASSUME NEW d \in Consumers, PopOwns(d), pos[d] + Capacity = H PROVE FALSE
      <4>1. Idx(H) = Idx(pos[d])
        BY <3>3, IdxTurn
      <4>2. sequence[Idx(pos[d])] = pos[d] + 1
        BY <3>3 DEF RingInv, PopInv, PopOwned
      <4> QED
        BY <3>3, <4>1, <4>2
    <3> QED
      BY <3>2, <3>3
  <2> QED
    BY <1>1, <2>1
<1>3. data[Idx(H)] = log[H + 1]
  <2>1. H \in H .. T - 1
    BY <1>2
  <2>2. \/ data[Idx(H)] = log[H + 1]
        \/ \E q \in Producers : PushOwns(q) /\ pos[q] = H
    BY <2>1 DEF RingInv, CellInv
  <2> QED
    BY <2>2 DEF RingInv, PushInv, PushOwned
<1> QED
  BY <1>2, <1>3

(* A pop wins the oldest position: it is published, so nobody owns its     *)
(* cell, and the cell holds the frame of that position.                    *)
LEMMA PopClaimStep ==
    ASSUME TypeOK, RingInv, SingleInv', FrameInv', NEW c \in Consumers, PopClaim(c)
    PROVE  RingInv'
<1> USE Facts, ThreadKinds
<1> DEFINE H == dequeue_pos
           T == Len(log)
<1>1. /\ c \in Threads /\ pc[c] = "c_claim" /\ pos[c] = H /\ sequence[Idx(H)] = H + 1
      /\ H <= T /\ T <= H + Capacity
  BY DEF PopClaim, RingInv, PopInv, PopLoaded, WindowInv
<1>2. /\ mode' = mode /\ enqueue_pos' = enqueue_pos /\ dequeue_pos' = H + 1
      /\ sequence' = sequence /\ data' = data /\ log' = log /\ pos' = pos /\ frame' = frame
      /\ pc' = [pc EXCEPT ![c] = "c_read"]
  BY <1>1 DEF PopClaim, Goto, locals, ghosts
<1>3. SP' = SP /\ SC' = SC
  BY <1>2 DEF SP, SC
<1>4. H < T
  BY <1>1, PublishedHead
<1>5. data[Idx(H)] = log[H + 1]
  BY <1>1, PublishedHead
<1>6. \A q \in Producers : pc'[q] = pc[q] /\ (PushOwns(q)' <=> PushOwns(q))
  BY <1>2 DEF PushOwns
<1>7. \A d \in Consumers : /\ pc'[d] = IF d = c THEN "c_read" ELSE pc[d]
                           /\ PopOwns(d)' <=> PopOwns(d) \/ d = c
  BY <1>1, <1>2 DEF PopOwns
<1>8. WindowInv'
  BY <1>1, <1>2, <1>3, <1>4, <1>6 DEF RingInv, WindowInv
<1>9. PushInv'
  <2>1. ASSUME NEW q \in Producers PROVE PushLoaded(q)'
    BY <1>2, <1>3, <1>6 DEF RingInv, PushInv, PushLoaded
  <2>2. ASSUME NEW q \in Producers PROVE PushOwned(q)'
    <3>1. PushOwns(q) => pos[q] # H
      BY <1>1 DEF RingInv, PushInv, PushOwned
    <3> QED
      BY <3>1, <1>2, <1>3, <1>6 DEF RingInv, PushInv, PushOwned
  <2> QED
    BY <1>2, <1>6, <2>1, <2>2 DEF RingInv, PushInv
<1>10. PopInv'
  <2>1. ASSUME NEW d \in Consumers PROVE PopLoaded(d)'
    <3>1. pc'[d] \in {"c_seq", "c_claim"} => d # c /\ pc[d] = pc'[d] /\ ~SC
      BY <1>1, <1>7 DEF RingInv, SingleInv, InPop
    <3>2. pc'[d] \in {"c_seq", "c_claim"} => pos[d] <= H /\ pos[d] \in Nat
      BY <3>1 DEF RingInv, PopInv, PopLoaded
    <3> QED
      BY <3>1, <3>2, <1>2, <1>3 DEF PopLoaded
  <2>2. ASSUME NEW d \in Consumers PROVE PopOwned(d)'
    <3>1. CASE d = c
      BY <3>1, <1>1, <1>2, <1>4, <1>5, <1>7 DEF PopOwned
    <3>2. CASE d # c
      BY <3>2, <1>2, <1>7 DEF RingInv, PopInv, PopOwned
    <3> QED
      BY <3>1, <3>2
  <2>3. ASSUME NEW d \in Consumers, NEW e \in Consumers,
               PopOwns(d)', PopOwns(e)', pos'[d] = pos'[e]
        PROVE  d = e
    BY <2>3, <1>1, <1>2, <1>7 DEF RingInv, PopInv, PopOwned
  <2> QED
    BY <2>1, <2>2, <2>3 DEF PopInv
<1>11. CellInv'
  <2>1. ASSUME NEW i \in H + 1 .. T - 1
        PROVE  \/ sequence[Idx(i)] = i + 1 /\ data[Idx(i)] = log[i + 1]
               \/ ~SP /\ \E q \in Producers : PushOwns(q)' /\ pos[q] = i
    BY <1>6 DEF RingInv, CellInv
  <2>2. ASSUME NEW i \in T .. H + Capacity
        PROVE  \/ sequence[Idx(i)] = i
               \/ \E d \in Consumers : PopOwns(d)' /\ pos[d] + Capacity = i
    <3>1. CASE i = H + Capacity
      BY <3>1, <1>1, <1>7
    <3>2. CASE i # H + Capacity
      <4>1. i \in T .. H + Capacity - 1
        <5>1. i \in Int /\ T <= i /\ i <= H + Capacity /\ H + Capacity \in Int
          OBVIOUS
        <5>2. i < H + Capacity
          BY <3>2, <5>1
        <5> QED
          BY <5>1, <5>2
      <4> QED
        BY <4>1, <1>7 DEF RingInv, CellInv
    <3> QED
      BY <3>1, <3>2
  <2>3. T .. dequeue_pos' + Capacity - 1 = T .. H + Capacity
    BY <1>2
  <2> QED
    BY <1>2, <1>3, <2>1, <2>2, <2>3 DEF CellInv
<1> QED
  BY <1>8, <1>9, <1>10, <1>11 DEF RingInv

(* A pop reads and clears the data of the cell it owns. *)
LEMMA PopReadStep ==
    ASSUME TypeOK, RingInv, SingleInv', FrameInv', NEW c \in Consumers, PopRead(c)
    PROVE  RingInv'
<1> USE Facts, ThreadKinds
<1>1. /\ c \in Threads /\ pc[c] = "c_read" /\ PopOwns(c)
      /\ pos[c] \in Nat /\ Idx(pos[c]) \in Slots
      /\ mode' = mode /\ enqueue_pos' = enqueue_pos /\ dequeue_pos' = dequeue_pos
      /\ sequence' = sequence /\ log' = log /\ pos' = pos
      /\ pc' = [pc EXCEPT ![c] = "c_rel"]
      /\ data' = [data EXCEPT ![Idx(pos[c])] = NoFrame]
      /\ \A q \in Producers : frame'[q] = frame[q]
  BY IdxType DEF PopRead, Goto, ghosts, PopOwns
<1>2. SP' = SP /\ SC' = SC
  BY <1>1 DEF SP, SC
<1>3. \A i \in Nat : Idx(i) # Idx(pos[c]) => data'[Idx(i)] = data[Idx(i)]
  BY <1>1, IdxType
<1>4. \A q \in Producers : pc'[q] = pc[q] /\ (PushOwns(q)' <=> PushOwns(q))
  BY <1>1 DEF PushOwns
<1>5. \A d \in Consumers : /\ pc'[d] = IF d = c THEN "c_rel" ELSE pc[d]
                           /\ PopOwns(d)' <=> PopOwns(d)
  BY <1>1 DEF PopOwns
<1>6. WindowInv'
  BY <1>1, <1>2, <1>4 DEF RingInv, WindowInv
<1>7. PushInv'
  <2>1. ASSUME NEW q \in Producers PROVE PushLoaded(q)' /\ PushOwned(q)'
    <3>1. PushOwns(q) => data'[Idx(pos[q])] = data[Idx(pos[q])]
      BY <1>1, <1>3, PushOwnsAlone
    <3> QED
      BY <3>1, <1>1, <1>2, <1>4 DEF RingInv, PushInv, PushLoaded, PushOwned
  <2> QED
    BY <1>1, <1>4, <2>1 DEF RingInv, PushInv
<1>8. PopInv'
  <2>1. ASSUME NEW d \in Consumers PROVE PopLoaded(d)' /\ PopOwned(d)'
    <3>1. PopOwns(d) /\ d # c => data'[Idx(pos[d])] = data[Idx(pos[d])]
      BY <1>1, <1>3, PopOwnsAlone
    <3> QED
      BY <3>1, <1>1, <1>2, <1>5 DEF RingInv, PopInv, PopLoaded, PopOwned
  <2> QED
    BY <1>1, <1>5, <2>1 DEF RingInv, PopInv
<1>9. CellInv'
  <2>1. ASSUME NEW i \in dequeue_pos .. Len(log) - 1
        PROVE  data'[Idx(i)] = data[Idx(i)]
    <3>1. i \in Nat /\ i \in dequeue_pos .. dequeue_pos + Capacity - 1
      BY DEF RingInv, WindowInv
    <3> QED
      BY <3>1, <1>1, <1>3, PopOwnsAlone
  <2> QED
    BY <1>1, <1>2, <1>4, <1>5, <2>1 DEF RingInv, CellInv
<1> QED
  BY <1>6, <1>7, <1>8, <1>9 DEF RingInv

(* A pop hands its cell to the push one turn later. *)
LEMMA PopReleaseStep ==
    ASSUME TypeOK, RingInv, SingleInv', FrameInv', NEW c \in Consumers, PopRelease(c)
    PROVE  RingInv'
<1> USE Facts, ThreadKinds
<1> DEFINE H == dequeue_pos
           T == Len(log)
           i0 == pos[c]
<1>1. /\ c \in Threads /\ PopOwns(c) /\ i0 \in Nat /\ Idx(i0) \in Slots
      /\ mode' = mode /\ enqueue_pos' = enqueue_pos /\ dequeue_pos' = dequeue_pos
      /\ data' = data /\ log' = log /\ pos' = pos /\ frame' = frame
      /\ pc' = [pc EXCEPT ![c] = "wake"]
      /\ sequence' = [sequence EXCEPT ![Idx(i0)] = i0 + Capacity]
  BY IdxType DEF PopRelease, Goto, locals, ghosts, PopOwns
<1>2. /\ i0 < H /\ T <= i0 + Capacity /\ sequence[Idx(i0)] = i0 + 1
      /\ Idx(i0 + Capacity) = Idx(i0)
  BY <1>1, IdxTurn DEF RingInv, PopInv, PopOwned
<1>3. SP' = SP /\ SC' = SC
  BY <1>1 DEF SP, SC
<1>4. /\ sequence'[Idx(i0)] = i0 + Capacity
      /\ \A i \in Nat : Idx(i) # Idx(i0) => sequence'[Idx(i)] = sequence[Idx(i)]
  BY <1>1, IdxType
<1>5. \A q \in Producers : pc'[q] = pc[q] /\ (PushOwns(q)' <=> PushOwns(q))
  BY <1>1 DEF PushOwns
<1>6. \A d \in Consumers : /\ pc'[d] = IF d = c THEN "wake" ELSE pc[d]
                           /\ PopOwns(d)' <=> PopOwns(d) /\ d # c
  BY <1>1 DEF PopOwns
<1>7. WindowInv'
  BY <1>1, <1>3, <1>5 DEF RingInv, WindowInv
<1>8. PushInv'
  <2>1. ASSUME NEW q \in Producers PROVE PushLoaded(q)'
    <3>1. ASSUME sequence[Idx(pos[q])] = pos[q] PROVE sequence'[Idx(pos[q])] = pos[q]
      <4>1. ASSUME Idx(pos[q]) = Idx(i0) PROVE FALSE
        <5>1. pos[q] \in Nat /\ pos[q] = i0 + 1
          BY <3>1, <4>1, <1>2
        <5>2. /\ i0 + 1 \in Nat /\ i0 # i0 + 1
              /\ i0 < i0 + 1 + Capacity /\ i0 + 1 < i0 + Capacity
          BY <1>1
        <5> QED
          BY <4>1, <5>1, <5>2, <1>1, IdxInjective
      <4> QED
        BY <3>1, <4>1, <1>4
    <3> QED
      BY <3>1, <1>1, <1>3, <1>5 DEF RingInv, PushInv, PushLoaded
  <2>2. ASSUME NEW q \in Producers PROVE PushOwned(q)'
    <3>1. PushOwns(q) => sequence'[Idx(pos[q])] = sequence[Idx(pos[q])]
      BY <1>1, <1>4, PushOwnsAlone
    <3> QED
      BY <3>1, <1>1, <1>3, <1>5 DEF RingInv, PushInv, PushOwned
  <2> QED
    BY <1>1, <1>5, <2>1, <2>2 DEF RingInv, PushInv
<1>9. PopInv'
  <2>1. ASSUME NEW d \in Consumers PROVE PopLoaded(d)'
    <3>1. pc'[d] \in {"c_seq", "c_claim"} => pc'[d] = pc[d]
      BY <1>6
    <3>2. sequence[Idx(H)] = H + 1 => sequence'[Idx(H)] = H + 1
      <4>1. sequence[Idx(H)] = H + 1 => Idx(H) # Idx(i0)
        BY <1>1, <1>2
      <4> QED
        BY <4>1, <1>4
    <3> QED
      BY <3>1, <3>2, <1>1, <1>3 DEF RingInv, PopInv, PopLoaded
  <2>2. ASSUME NEW d \in Consumers PROVE PopOwned(d)'
    <3>1. PopOwns(d) /\ d # c => sequence'[Idx(pos[d])] = sequence[Idx(pos[d])]
      BY <1>1, <1>4, PopOwnsAlone
    <3> QED
      BY <3>1, <1>1, <1>6 DEF RingInv, PopInv, PopOwned
  <2> QED
    BY <1>1, <1>6, <2>1, <2>2 DEF RingInv, PopInv
<1>10. CellInv'
  <2>1. ASSUME NEW i \in H .. T - 1
        PROVE  sequence'[Idx(i)] = sequence[Idx(i)]
    <3>1. i \in Nat /\ i \in H .. H + Capacity - 1
      BY DEF RingInv, WindowInv
    <3> QED
      BY <3>1, <1>1, <1>4, PopOwnsAlone
  <2>2. ASSUME NEW i \in T .. H + Capacity - 1
        PROVE  \/ sequence'[Idx(i)] = i
               \/ \E d \in Consumers : PopOwns(d)' /\ pos[d] + Capacity = i
    <3>1. CASE i = i0 + Capacity
      BY <3>1, <1>2, <1>4
    <3>2. CASE i # i0 + Capacity
      <4>1. i \in Nat /\ i \in H .. H + Capacity - 1
        BY DEF RingInv, WindowInv
      <4>2. sequence'[Idx(i)] = sequence[Idx(i)]
        BY <3>2, <4>1, <1>1, <1>4, PopOwnsAlone
      <4> QED
        BY <3>2, <4>2, <1>6 DEF RingInv, CellInv
    <3> QED
      BY <3>1, <3>2
  <2> QED
    BY <1>1, <1>3, <1>5, <2>1, <2>2 DEF RingInv, CellInv
<1> QED
  BY <1>7, <1>8, <1>9, <1>10 DEF RingInv

(* Every step preserves the invariant. *)
LEMMA RingStep == TypeOK /\ RingInv /\ [Next]_vars => RingInv'
<1> SUFFICES ASSUME TypeOK, RingInv, [Next]_vars PROVE RingInv'
  OBVIOUS
<1>s. SingleInv' /\ FrameInv'
  BY SingleStep, FrameStep DEF TypeOK, RingInv
<1>t. /\ pc \in [Threads -> PushPC \cup PopPC \cup OwnPC]
      /\ pos \in [Threads -> Nat] /\ frame \in [Threads -> Frames \cup {NoFrame}]
      /\ enqueue_pos \in Nat /\ dequeue_pos \in Nat
  BY Facts
<1>m. ASSUME UNCHANGED <<mode, ring, log>>, \A t \in Producers \cup Consumers : Moves(t)
      PROVE  RingInv'
  BY <1>s, <1>m, Passive
<1> USE ThreadKinds
<1>0. CASE UNCHANGED vars
  <2>1. UNCHANGED <<mode, ring, log>> /\ \A t \in Producers \cup Consumers : Moves(t)
    BY <1>0 DEF vars, locals, ghosts, Moves
  <2> QED
    BY <2>1, <1>m
<1>1. ASSUME NEW p \in Producers, NEW try \in Tries, PushCall(p, try) PROVE RingInv'
  <2>1. UNCHANGED <<mode, ring, log>>
    BY <1>1 DEF PushCall, ghosts, ring
  <2>2. \A t \in Producers \cup Consumers : Moves(t)
    BY <1>1, <1>t DEF PushCall, Moves, OwningPC, PushLoaded, PopLoaded, Goto, Retry,
         Return, Leave, locals, ring
  <2> QED
    BY <2>1, <2>2, <1>m
<1>2. ASSUME NEW p \in Producers, PushStep(p) PROVE RingInv'
  <2>1. CASE PushClosed(p)
    <3>1. UNCHANGED <<mode, ring, log>>
      BY <2>1 DEF PushClosed, ghosts, ring
    <3>2. \A t \in Producers \cup Consumers : Moves(t)
      BY <2>1, <1>t DEF PushClosed, Moves, OwningPC, PushLoaded, PopLoaded, Goto, Retry,
         Return, Leave, locals, ring
    <3> QED
      BY <3>1, <3>2, <1>m
  <2>2. CASE PushPos(p)
    <3>1. UNCHANGED <<mode, ring, log>>
      BY <2>2 DEF PushPos, ghosts, ring
    <3>2. \A t \in Producers \cup Consumers : Moves(t)
      BY <2>2, <1>t DEF PushPos, Moves, OwningPC, PushLoaded, PopLoaded, Goto, Retry,
         Return, Leave, locals, ring
    <3> QED
      BY <3>1, <3>2, <1>m
  <2>3. CASE PushSeq(p)
    <3>0. /\ UNCHANGED <<mode, ring, log>> /\ pc[p] = "p_seq" /\ p \in Threads
          /\ pos[p] \in Nat /\ sequence[Idx(pos[p])] \in Nat
          /\ pos[p] <= enqueue_pos
      BY <2>3, IdxType, Facts DEF PushSeq, ghosts, ring, RingInv, PushInv, PushLoaded
    <3>1. CASE sequence[Idx(pos[p])] - pos[p] = 0 /\ SP
      <4>1. sequence[Idx(pos[p])] = pos[p]
        BY <3>0, <3>1
      <4>2. Goto(p, "p_data") /\ UNCHANGED <<mode, ring, pos, frame, log>>
        BY <2>3, <3>0, <3>1 DEF PushSeq, locals
      <4> QED
        BY <3>0, <3>1, <4>1, <4>2, <1>s, PushTakesStep
    <3>2. CASE sequence[Idx(pos[p])] - pos[p] = 0 /\ ~SP
      <4>1. sequence[Idx(pos[p])] = pos[p]
        BY <3>0, <3>2
      <4>2. Goto(p, "p_claim") /\ UNCHANGED <<mode, ring, pos, frame, log>>
        BY <2>3, <3>0, <3>2 DEF PushSeq, locals
      <4>3. ~SP'
        BY <3>0, <3>2 DEF SP
      <4>4. PushLoaded(p)' /\ PopLoaded(p)'
        BY <3>0, <4>1, <4>2, <4>3, <1>t DEF PushLoaded, PopLoaded, Goto, ring
      <4>5. \A t \in Producers \cup Consumers : Moves(t)
        BY <3>0, <4>2, <4>4, <1>t DEF Moves, OwningPC, Goto
      <4> QED
        BY <3>0, <4>5, <1>m
    <3>3. CASE sequence[Idx(pos[p])] - pos[p] # 0
      <4>1. \/ Return(p, "idle") \/ Retry(p, "p_closed") \/ Retry(p, "wait_inc")
        BY <2>3, <3>3 DEF PushSeq
      <4>2. \A t \in Producers \cup Consumers : Moves(t)
        BY <3>0, <4>1, <1>t DEF Moves, OwningPC, PushLoaded, PopLoaded, Goto, Retry,
           Return, Leave
      <4> QED
        BY <3>0, <4>2, <1>m
    <3> QED
      BY <3>1, <3>2, <3>3
  <2>4. CASE PushClaim(p)
    BY <2>4, <1>s, PushClaimStep
  <2>5. CASE PushClaimFails(p)
    <3>1. UNCHANGED <<mode, ring, log>>
      BY <2>5 DEF PushClaimFails, ghosts, ring
    <3>2. \A t \in Producers \cup Consumers : Moves(t)
      BY <2>5, <1>t DEF PushClaimFails, Moves, OwningPC, PushLoaded, PopLoaded, Goto, Retry,
         Return, Leave, locals, ring
    <3> QED
      BY <3>1, <3>2, <1>m
  <2>6. CASE PushData(p)
    BY <2>6, <1>s, PushDataStep
  <2>7. CASE PushPublish(p)
    BY <2>7, <1>s, PushPublishStep
  <2>8. CASE PushEnq(p)
    BY <2>8, <1>s, PushEnqStep
  <2> QED
    BY <1>2, <2>1, <2>2, <2>3, <2>4, <2>5, <2>6, <2>7, <2>8 DEF PushStep
<1>3. ASSUME NEW c \in Consumers, PopCall(c) \/ PopStep(c) PROVE RingInv'
  <2>1. CASE PopCall(c)
    <3>1. UNCHANGED <<mode, ring, log>>
      BY <2>1 DEF PopCall, ghosts, ring
    <3>2. \A t \in Producers \cup Consumers : Moves(t)
      BY <2>1, <1>t DEF PopCall, Moves, OwningPC, PushLoaded, PopLoaded, Goto, Retry,
         Return, Leave, locals, ring
    <3> QED
      BY <3>1, <3>2, <1>m
  <2>2. CASE PopPos(c)
    <3>1. UNCHANGED <<mode, ring, log>>
      BY <2>2 DEF PopPos, ghosts, ring
    <3>2. \A t \in Producers \cup Consumers : Moves(t)
      BY <2>2, <1>t DEF PopPos, Moves, OwningPC, PushLoaded, PopLoaded, Goto, Retry,
         Return, Leave, locals, ring
    <3> QED
      BY <3>1, <3>2, <1>m
  <2>3. CASE PopSeq(c)
    <3>0. /\ UNCHANGED <<mode, ring, log>> /\ pc[c] = "c_seq" /\ c \in Threads
          /\ pos[c] \in Nat /\ sequence[Idx(pos[c])] \in Nat
          /\ PopLoaded(c)
      BY <2>3, IdxType, Facts DEF PopSeq, ghosts, ring, RingInv, PopInv
    <3>1. CASE Goto(c, "c_claim") /\ UNCHANGED locals
                /\ sequence[Idx(pos[c])] - (pos[c] + 1) = 0
      <4>1. sequence[Idx(pos[c])] = pos[c] + 1
        BY <3>0, <3>1
      <4>2. SC' = SC
        BY <3>0 DEF SC
      <4>3. PushLoaded(c)' /\ PopLoaded(c)'
        BY <3>0, <3>1, <4>1, <4>2, <1>t DEF PushLoaded, PopLoaded, Goto, ring, locals
      <4>4. \A t \in Producers \cup Consumers : Moves(t)
        BY <3>0, <3>1, <4>3, <1>t DEF Moves, OwningPC, Goto, locals
      <4> QED
        BY <3>0, <4>4, <1>m
    <3>2. CASE (Goto(c, "c_closed") /\ UNCHANGED locals) \/ Retry(c, "c_pos")
      <4>1. \A t \in Producers \cup Consumers : Moves(t)
        BY <3>0, <3>2, <1>t DEF Moves, OwningPC, PushLoaded, PopLoaded, Goto, Retry, locals
      <4> QED
        BY <3>0, <4>1, <1>m
    <3> QED
      BY <2>3, <3>1, <3>2 DEF PopSeq
  <2>4. CASE PopClosed(c)
    <3>1. UNCHANGED <<mode, ring, log>>
      BY <2>4 DEF PopClosed, ghosts, ring
    <3>2. \A t \in Producers \cup Consumers : Moves(t)
      BY <2>4, <1>t DEF PopClosed, Moves, OwningPC, PushLoaded, PopLoaded, Goto, Retry,
         Return, Leave, locals, ring
    <3> QED
      BY <3>1, <3>2, <1>m
  <2>5. CASE PopRecheck(c)
    <3>1. UNCHANGED <<mode, ring, log>>
      BY <2>5 DEF PopRecheck, ghosts, ring
    <3>2. \A t \in Producers \cup Consumers : Moves(t)
      BY <2>5, <1>t DEF PopRecheck, Moves, OwningPC, PushLoaded, PopLoaded, Goto, Retry,
         Return, Leave, locals, ring
    <3> QED
      BY <3>1, <3>2, <1>m
  <2>6. CASE PopClaim(c)
    BY <2>6, <1>s, PopClaimStep
  <2>7. CASE PopClaimFails(c)
    <3>1. UNCHANGED <<mode, ring, log>>
      BY <2>7 DEF PopClaimFails, ghosts, ring
    <3>2. \A t \in Producers \cup Consumers : Moves(t)
      BY <2>7, <1>t DEF PopClaimFails, Moves, OwningPC, PushLoaded, PopLoaded, Goto, Retry,
         Return, Leave, locals, ring
    <3> QED
      BY <3>1, <3>2, <1>m
  <2>8. CASE PopRead(c)
    BY <2>8, <1>s, PopReadStep
  <2>9. CASE PopRelease(c)
    BY <2>9, <1>s, PopReleaseStep
  <2> QED
    BY <1>3, <2>1, <2>2, <2>3, <2>4, <2>5, <2>6, <2>7, <2>8, <2>9 DEF PopStep
<1>4. ASSUME NEW s \in Producers \cup Consumers, WaitStep(s) \/ SpuriousWakeup(s) PROVE RingInv'
  <2>1. CASE Wake(s)
    <3>1. UNCHANGED <<mode, ring, log>>
      BY <2>1 DEF Wake, ghosts, ring
    <3>2. \A t \in Producers \cup Consumers : Moves(t)
      BY <2>1, <1>t DEF Wake, Moves, OwningPC, PushLoaded, PopLoaded, Goto, Retry,
         Return, Leave, locals, ring, Woken
    <3> QED
      BY <3>1, <3>2, <1>m
  <2>2. CASE WaitEnter(s)
    <3>1. UNCHANGED <<mode, ring, log>>
      BY <2>2 DEF WaitEnter, ghosts, ring
    <3>2. \A t \in Producers \cup Consumers : Moves(t)
      BY <2>2, <1>t DEF WaitEnter, Moves, OwningPC, PushLoaded, PopLoaded, Goto, Retry,
         Return, Leave, locals, ring
    <3> QED
      BY <3>1, <3>2, <1>m
  <2>3. CASE WaitLock(s)
    <3>1. UNCHANGED <<mode, ring, log>>
      BY <2>3 DEF WaitLock, ghosts, ring
    <3>2. \A t \in Producers \cup Consumers : Moves(t)
      BY <2>3, <1>t DEF WaitLock, Moves, OwningPC, PushLoaded, PopLoaded, Goto, Retry,
         Return, Leave, locals, ring
    <3> QED
      BY <3>1, <3>2, <1>m
  <2>4. CASE WaitEnq(s)
    <3>1. UNCHANGED <<mode, ring, log>>
      BY <2>4 DEF WaitEnq, ghosts, ring
    <3>2. \A t \in Producers \cup Consumers : Moves(t)
      BY <2>4, <1>t DEF WaitEnq, Moves, OwningPC, PushLoaded, PopLoaded, Goto, Retry,
         Return, Leave, locals, ring
    <3> QED
      BY <3>1, <3>2, <1>m
  <2>5. CASE WaitDeq(s)
    <3>1. UNCHANGED <<mode, ring, log>>
      BY <2>5 DEF WaitDeq, ghosts, ring
    <3>2. \A t \in Producers \cup Consumers : Moves(t)
      BY <2>5, <1>t DEF WaitDeq, Moves, OwningPC, PushLoaded, PopLoaded, Goto, Retry,
         Return, Leave, locals, ring
    <3> QED
      BY <3>1, <3>2, <1>m
  <2>6. CASE WaitLeave(s)
    <3>1. UNCHANGED <<mode, ring, log>>
      BY <2>6 DEF WaitLeave, ghosts, ring
    <3>2. \A t \in Producers \cup Consumers : Moves(t)
      BY <2>6, <1>t DEF WaitLeave, Moves, OwningPC, PushLoaded, PopLoaded, Goto, Retry,
         Return, Leave, locals, ring
    <3> QED
      BY <3>1, <3>2, <1>m
  <2>7. CASE SpuriousWakeup(s)
    <3>1. UNCHANGED <<mode, ring, log>>
      BY <2>7 DEF SpuriousWakeup, ghosts, ring
    <3>2. \A t \in Producers \cup Consumers : Moves(t)
      BY <2>7, <1>t DEF SpuriousWakeup, Moves, OwningPC, PushLoaded, PopLoaded, Goto, Retry,
         Return, Leave, locals, ring
    <3> QED
      BY <3>1, <3>2, <1>m
  <2> QED
    BY <1>4, <2>1, <2>2, <2>3, <2>4, <2>5, <2>6, <2>7 DEF WaitStep
<1>5. ASSUME NEW o \in Owners, Close(o) \/ Reopen(o) \/ WakeAll(o) PROVE RingInv'
  <2>1. CASE Close(o)
    <3>1. UNCHANGED <<mode, ring, log>>
      BY <2>1 DEF Close, ghosts, ring
    <3>2. \A t \in Producers \cup Consumers : Moves(t)
      BY <2>1, <1>t DEF Close, Moves, OwningPC, PushLoaded, PopLoaded, Goto, Retry,
         Return, Leave, locals, ring
    <3> QED
      BY <3>1, <3>2, <1>m
  <2>2. CASE Reopen(o)
    <3>1. UNCHANGED <<mode, ring, log, pos, frame>>
      BY <2>2 DEF Reopen, ghosts, ring, locals
    <3>2. ASSUME NEW t \in Producers PROVE Moves(t)
      BY <2>2, <3>1, <1>t DEF Reopen, Moves
    <3>3. ASSUME NEW t \in Consumers PROVE Moves(t)
      <4>1. pc[t] \in {"idle", "drained"} /\ pc'[t] = "idle"
        BY <2>2, <1>t DEF Reopen, InPop
      <4> QED
        BY <4>1 DEF Moves, OwningPC, PushLoaded, PopLoaded
    <3> QED
      BY <3>1, <3>2, <3>3, <1>m
  <2>3. CASE WakeAll(o)
    <3>1. UNCHANGED <<mode, ring, log>>
      BY <2>3 DEF WakeAll, ghosts, ring
    <3>2. \A t \in Producers \cup Consumers : Moves(t)
      BY <2>3, <1>t DEF WakeAll, Moves, OwningPC, PushLoaded, PopLoaded, Goto, Retry,
         Return, Leave, locals, ring, Woken
    <3> QED
      BY <3>1, <3>2, <1>m
  <2> QED
    BY <1>5, <2>1, <2>2, <2>3
<1> QED
  BY <1>0, <1>1, <1>2, <1>3, <1>4, <1>5 DEF Next

(***************************************************************************)
(* Theorems.                                                               *)
(***************************************************************************)

(* A ring as awp_ring_init leaves it satisfies the invariant. *)
LEMMA RingStart == Init => TypeOK /\ RingInv
<1> SUFFICES ASSUME Init PROVE TypeOK /\ RingInv
  OBVIOUS
<1> USE ThreadKinds DEF Init
<1>1. /\ sequence \in [Slots -> Nat] /\ data \in [Slots -> Frames \cup {NoFrame}]
      /\ Len(log) = 0 /\ log \in Seq(Frames) /\ Capacity \in Nat /\ MaxPush \in Nat
  BY RingAssumption DEF Slots
<1>2. \A t \in Threads : pc[t] = "idle"
  OBVIOUS
<1>3. LabelsOK
  BY Labels DEF LabelsOK
<1>4. ValuesOK
  <2>1. calls \in 0 .. MaxPush
    BY <1>1
  <2>2. /\ pos \in [Threads -> Nat] /\ frame \in [Threads -> Frames \cup {NoFrame}]
        /\ trying \in [Threads -> BOOLEAN]
    OBVIOUS
  <2>3. closed \in BOOLEAN /\ quiet \in BOOLEAN
    BY Zenon
  <2>4. /\ mode \in Modes /\ enqueue_pos \in Nat /\ dequeue_pos \in Nat
        /\ waiters \in Int /\ wait_mu \in Threads \cup {NoThread}
    OBVIOUS
  <2> HIDE DEF Init
  <2> QED
    BY <1>1, <2>1, <2>2, <2>3, <2>4 DEF ValuesOK
<1>5. WindowInv /\ SingleInv /\ FrameInv
  BY <1>1, <1>2 DEF WindowInv, SingleInv, FrameInv, InPush, InPop
<1>6. PushInv /\ PopInv
  BY <1>2 DEF PushInv, PopInv, PushLoaded, PushOwned, PushOwns, PopLoaded, PopOwned, PopOwns
<1>7. CellInv
  <2>1. \A i \in 0 .. Capacity - 1 : sequence[Idx(i)] = i
    <3> SUFFICES ASSUME NEW i \in 0 .. Capacity - 1 PROVE sequence[Idx(i)] = i
      OBVIOUS
    <3>1. i % Capacity = i
      BY <1>1
    <3> QED
      BY <3>1 DEF Slots, Idx
  <2> QED
    BY <1>1, <2>1 DEF CellInv
<1> QED
  BY <1>3, <1>4, <1>5, <1>6, <1>7 DEF TypeOK, RingInv

(* The sequence protocol of ring.c keeps its invariant: in every reachable *)
(* state every cell is published, free or owned by one thread, and every   *)
(* thread's position is where the protocol says.                           *)
THEOREM RingCorrect == Spec => [](TypeOK /\ RingInv)
<1>1. Init => TypeOK /\ RingInv
  BY RingStart
<1>2. TypeOK /\ RingInv /\ [Next]_vars => (TypeOK /\ RingInv)'
  <2> SUFFICES ASSUME TypeOK, RingInv, [Next]_vars PROVE TypeOK' /\ RingInv'
    OBVIOUS
  <2>1. LabelsOK'
    BY LabelsStep DEF TypeOK
  <2>2. ValuesOK'
    BY ValuesStep DEF TypeOK, RingInv
  <2>3. RingInv'
    BY RingStep
  <2> QED
    BY <2>1, <2>2, <2>3 DEF TypeOK
<1> QED
  BY <1>1, <1>2, PTL DEF Spec

(* Every variable of the ring keeps its type; in particular a position, a  *)
(* sequence number and an index never leave their ranges.                  *)
THEOREM TypeCorrect == Spec => []TypeOK
  BY RingCorrect, PTL

(* Push and pop never touch one cell's data at the same time: cell->data   *)
(* needs no atomic access.                                                 *)
THEOREM NoRace == Spec => []NoSlotRace
<1>1. TypeOK /\ RingInv => NoSlotRace
  <2> SUFFICES ASSUME TypeOK, RingInv, NEW s \in Threads, NEW t \in Threads,
                      Owning(s), Owning(t), s # t
               PROVE  Idx(pos[s]) # Idx(pos[t])
    BY DEF NoSlotRace
  <2>1. ASSUME NEW r \in Threads, Owning(r)
        PROVE  \/ r \in Producers /\ PushOwns(r)
               \/ r \in Consumers /\ PopOwns(r)
    BY <2>1 DEF TypeOK, LabelsOK, Owning, PushOwns, PopOwns, Threads, PushPC, PopPC,
                OwnPC, WaitPC
  <2>2. CASE s \in Producers /\ PushOwns(s)
    BY <2>1, <2>2, PushOwnsAlone
  <2>3. CASE s \in Consumers /\ PopOwns(s)
    BY <2>1, <2>3, PushOwnsAlone, PopOwnsAlone
  <2> QED
    BY <2>1, <2>2, <2>3
<1> QED
  BY <1>1, RingCorrect, PTL

(***************************************************************************)
(* The count of waiters.                                                   *)
(***************************************************************************)

(* The labels at which awp_ring_wait_space and awp_ring_wait_data have     *)
(* incremented waiters and not yet decremented it.                         *)
CountedPC == WaitPC \ {"wait_inc"}
Waiting   == {t \in Threads : pc[t] \in CountedPC}

(* A step that takes nobody into the wait or out of it and leaves waiters  *)
(* alone keeps the count.                                                  *)
LEMMA SameWaiters ==
    ASSUME WaitersCounted, waiters' = waiters,
           \A t \in Threads : pc'[t] \in CountedPC <=> pc[t] \in CountedPC
    PROVE  WaitersCounted'
<1>1. Waiting' = Waiting
  BY DEF Waiting
<1> QED
  BY <1>1 DEF WaitersCounted, Waiting, CountedPC

(* Entering and leaving the wait. *)
LEMMA WaitMoves ==
    ASSUME TypeOK, WaitersCounted, NEW t \in Threads, WaitEnter(t) \/ WaitLeave(t)
    PROVE  WaitersCounted'
<1>1. IsFiniteSet(Waiting) /\ waiters = Cardinality(Waiting) /\ Cardinality(Waiting) \in Nat
  <2>1. IsFiniteSet(Waiting)
    BY RingAssumption, FS_Subset DEF Waiting
  <2> QED
    BY <2>1, FS_CardinalityType DEF WaitersCounted, Waiting, CountedPC
<1>2. pc \in [Threads -> PushPC \cup PopPC \cup OwnPC]
  BY DEF TypeOK, LabelsOK
<1>3. CASE WaitEnter(t)
  <2>1. t \notin Waiting /\ Waiting' = Waiting \cup {t} /\ waiters' = waiters + 1
    BY <1>2, <1>3 DEF WaitEnter, Waiting, CountedPC, WaitPC, Goto
  <2>2. Cardinality(Waiting') = Cardinality(Waiting) + 1
    BY <1>1, <2>1, FS_AddElement
  <2> QED
    BY <1>1, <2>1, <2>2 DEF WaitersCounted, Waiting, CountedPC
<1>4. CASE WaitLeave(t)
  <2>1. t \in Waiting /\ Waiting' = Waiting \ {t} /\ waiters' = waiters - 1
    BY <1>2, <1>4 DEF WaitLeave, Waiting, CountedPC, WaitPC, Goto, Retry
  <2>2. Cardinality(Waiting') = Cardinality(Waiting) - 1
    BY <1>1, <2>1, FS_RemoveElement
  <2> QED
    BY <1>1, <2>1, <2>2 DEF WaitersCounted, Waiting, CountedPC
<1> QED
  BY <1>3, <1>4

(* Every step keeps the count. *)
LEMMA WaitersStep == TypeOK /\ WaitersCounted /\ [Next]_vars => WaitersCounted'
<1> SUFFICES ASSUME TypeOK, WaitersCounted, [Next]_vars PROVE WaitersCounted'
  OBVIOUS
<1> DEFINE Same == /\ waiters' = waiters
                   /\ \A t \in Threads : pc'[t] \in CountedPC <=> pc[t] \in CountedPC
<1>1. pc \in [Threads -> PushPC \cup PopPC \cup OwnPC]
  BY DEF TypeOK, LabelsOK
<1> USE <1>1, ThreadKinds DEF Goto, Retry, Return, Leave, CountedPC, WaitPC, park
<1>2. ASSUME NEW p \in Producers, NEW try \in Tries, PushCall(p, try) PROVE Same
  BY <1>2 DEF PushCall
<1>3. ASSUME NEW p \in Producers, PushStep(p) PROVE Same
  <2>1. CASE PushClosed(p) \/ PushPos(p) \/ PushSeq(p) \/ PushClaim(p)
    BY <2>1 DEF PushClosed, PushPos, PushSeq, PushClaim
  <2>2. CASE PushClaimFails(p) \/ PushData(p) \/ PushPublish(p) \/ PushEnq(p)
    BY <2>2 DEF PushClaimFails, PushData, PushPublish, PushEnq
  <2> QED
    BY <1>3, <2>1, <2>2 DEF PushStep
<1>4. ASSUME NEW c \in Consumers, PopCall(c) \/ PopStep(c) PROVE Same
  <2>1. CASE PopCall(c) \/ PopPos(c) \/ PopSeq(c) \/ PopClosed(c) \/ PopRecheck(c)
    BY <2>1 DEF PopCall, PopPos, PopSeq, PopClosed, PopRecheck
  <2>2. CASE PopClaim(c) \/ PopClaimFails(c) \/ PopRead(c) \/ PopRelease(c)
    BY <2>2 DEF PopClaim, PopClaimFails, PopRead, PopRelease
  <2> QED
    BY <1>4, <2>1, <2>2 DEF PopStep
<1>5. ASSUME NEW t \in Threads,
             Wake(t) \/ WaitLock(t) \/ WaitEnq(t) \/ WaitDeq(t) \/ SpuriousWakeup(t)
      PROVE  Same
  BY <1>5 DEF Wake, Woken, WaitLock, WaitEnq, WaitDeq, SpuriousWakeup
<1>6. ASSUME NEW o \in Owners, Close(o) \/ WakeAll(o) PROVE Same
  BY <1>6 DEF Close, WakeAll, Woken
<1>7. ASSUME NEW o \in Owners, Reopen(o) PROVE Same
  <2>1. \A c \in Consumers : pc[c] \in {"idle", "drained"} /\ pc'[c] = "idle"
    BY <1>7 DEF Reopen, InPop
  <2>2. \A t \in Threads \ Consumers : pc'[t] = IF t = o THEN "broadcast" ELSE pc[t]
    BY <1>7 DEF Reopen
  <2> QED
    BY <1>7, <2>1, <2>2 DEF Reopen
<1>8. ASSUME UNCHANGED vars PROVE Same
  <2>1. pc' = pc /\ waiters' = waiters
    BY <1>8 DEF vars
  <2> QED
    BY <2>1
<1>9. ASSUME Same PROVE WaitersCounted'
  BY <1>9, SameWaiters
<1>10. ASSUME NEW t \in Producers \cup Consumers, WaitStep(t) \/ SpuriousWakeup(t)
       PROVE  WaitersCounted'
  BY <1>5, <1>9, <1>10, WaitMoves DEF WaitStep
<1> HIDE DEF Same
<1> QED
  BY <1>2, <1>3, <1>4, <1>6, <1>7, <1>8, <1>9, <1>10 DEF Next

(* waiters counts exactly the threads inside awp_ring_wait_space and       *)
(* awp_ring_wait_data, on every way out of them: awp_ring_wake_if_needed   *)
(* overlooks nobody.                                                       *)
THEOREM WaitersExact == Spec => []WaitersCounted
<1>1. Init => WaitersCounted
  <2> SUFFICES ASSUME Init PROVE WaitersCounted
    OBVIOUS
  <2>1. {t \in Threads : pc[t] \in WaitPC \ {"wait_inc"}} = {} /\ waiters = 0
    BY DEF Init, WaitPC
  <2> QED
    BY <2>1, FS_EmptySet DEF WaitersCounted
<1>2. TypeOK /\ WaitersCounted /\ [Next]_vars => WaitersCounted'
  BY WaitersStep
<1> QED
  BY <1>1, <1>2, TypeCorrect, PTL DEF Spec

(***************************************************************************)
(* A ring that is closed while nobody pushes is drained.                   *)
(***************************************************************************)

(* A consumer that has not given up, and whose position, if it has loaded  *)
(* one, is the one to be popped next.                                      *)
Loaded   == {"c_seq", "c_closed", "c_recheck", "c_claim"}
Fresh(c) == pc[c] # "drained" /\ (pc[c] \in Loaded => pos[c] = dequeue_pos)

(* After a quiet close nobody pushes any more.  Only a closed ring makes a *)
(* consumer give up, and the one that took the last position has still to  *)
(* look at the next: while a frame is left, somebody will find it.         *)
QuietInv == quiet => closed /\ \A p \in Producers : pc[p] \in {"idle", "p_closed"}
OpenInv  == ~closed => \A c \in Consumers : pc[c] \notin {"c_recheck", "drained"}
FreshInv == ~closed \/ (quiet /\ dequeue_pos < Len(log)) => \E c \in Consumers : Fresh(c)
DrainInv == QuietInv /\ OpenInv /\ FreshInv

(* What a step does to a consumer, short of taking a position or opening   *)
(* the ring anew.                                                          *)
Steady(c) ==
    /\ dequeue_pos' = dequeue_pos
    /\ \/ pc'[c] = pc[c] /\ pos'[c] = pos[c]
       \/ pc'[c] \notin Loaded \cup {"drained"}
       \/ {pc[c], pc'[c]} \subseteq Loaded /\ pos'[c] = pos[c]
       \/ pc'[c] = "c_seq" /\ pos'[c] = dequeue_pos
       \/ /\ pc[c] = "c_recheck" /\ pc'[c] = "drained"
          /\ sequence[Idx(pos[c])] # pos[c] + 1
    /\ closed => closed'
    /\ closed' # closed => ~closed /\ log' = log
    /\ pc'[c] = "c_recheck" => pc[c] = "c_recheck" \/ closed
    /\ pc'[c] = "drained" => pc[c] \in {"drained", "c_recheck"}

(* Claims and a reopening apart, every step leaves a consumer so.          *)
LEMMA ConsumerMoves ==
    ASSUME TypeOK, [Next]_vars, NEW c \in Consumers
    PROVE  \/ \E d \in Consumers : PopClaim(d)
           \/ \E o \in Owners : Reopen(o)
           \/ Steady(c)
<1>1. pc \in [Threads -> PushPC \cup PopPC \cup OwnPC] /\ pos \in [Threads -> Nat] /\ c \in Threads
  BY ThreadKinds DEF TypeOK, LabelsOK, ValuesOK
<1> USE <1>1, ThreadKinds DEF Steady, Loaded, Goto, Retry, Return, Leave, park, ring, locals
<1>2. ASSUME NEW p \in Producers, NEW try \in Tries, PushCall(p, try) PROVE Steady(c)
  BY <1>2 DEF PushCall
<1>3. ASSUME NEW p \in Producers, PushStep(p) PROVE Steady(c)
  <2>1. CASE PushClosed(p) \/ PushPos(p) \/ PushSeq(p) \/ PushClaim(p)
    BY <2>1 DEF PushClosed, PushPos, PushSeq, PushClaim
  <2>2. CASE PushClaimFails(p) \/ PushData(p) \/ PushPublish(p) \/ PushEnq(p)
    BY <2>2 DEF PushClaimFails, PushData, PushPublish, PushEnq
  <2> QED
    BY <1>3, <2>1, <2>2 DEF PushStep
<1>4. ASSUME NEW d \in Consumers, PopCall(d) \/ PopPos(d) \/ PopSeq(d) PROVE Steady(c)
  BY <1>4 DEF PopCall, PopPos, PopSeq
<1>5. ASSUME NEW d \in Consumers, PopClosed(d) \/ PopRecheck(d) PROVE Steady(c)
  BY <1>5 DEF PopClosed, PopRecheck
<1>6. ASSUME NEW d \in Consumers, PopClaimFails(d) \/ PopRead(d) \/ PopRelease(d) PROVE Steady(c)
  BY <1>6 DEF PopClaimFails, PopRead, PopRelease
<1>7. ASSUME NEW t \in Threads, Wake(t) \/ WaitEnter(t) \/ WaitLock(t) \/ WaitEnq(t)
      PROVE  Steady(c)
  BY <1>7 DEF Wake, Woken, WaitEnter, WaitLock, WaitEnq
<1>8. ASSUME NEW t \in Threads, WaitDeq(t) \/ WaitLeave(t) \/ SpuriousWakeup(t) PROVE Steady(c)
  BY <1>8 DEF WaitDeq, WaitLeave, SpuriousWakeup
<1>9. ASSUME NEW o \in Owners, Close(o) \/ WakeAll(o) PROVE Steady(c)
  <2>1. CASE Close(o)
    BY <2>1 DEF Close
  <2>2. CASE WakeAll(o)
    <3>1. UNCHANGED <<dequeue_pos, pos, closed, log>>
      BY <2>2 DEF WakeAll, ghosts
    <3>2. pc'[c] = pc[c] \/ pc'[c] = "wait_lock"
      BY <2>2 DEF WakeAll, Woken
    <3> QED
      BY <3>1, <3>2
  <2> QED
    BY <1>9, <2>1, <2>2
<1>10. CASE UNCHANGED vars
  BY <1>10 DEF vars
<1> QED
  BY <1>2, <1>3, <1>4, <1>5, <1>6, <1>7, <1>8, <1>9, <1>10 DEF Next, PopStep, WaitStep

(* A quiet close stays quiet and lets no frame in. *)
QuietKept == (quiet => log' = log) /\ (closed /\ quiet' => quiet)

(* What a step does to the producers of a ring that was closed quietly:    *)
(* only calls that find it closed.                                         *)
LEMMA QuietStep ==
    ASSUME TypeOK, QuietInv, [Next]_vars
    PROVE  QuietInv' /\ QuietKept
<1> DEFINE Kept == QuietInv' /\ QuietKept
<1>1. pc \in [Threads -> PushPC \cup PopPC \cup OwnPC] /\ \A p \in Producers : p \in Threads
  BY ThreadKinds DEF TypeOK, LabelsOK
<1> USE <1>1, ThreadKinds DEF QuietInv, QuietKept, Goto, Retry, Return, Leave, park, ghosts
<1>2. ASSUME NEW p \in Producers, NEW try \in Tries, PushCall(p, try)
      PROVE  Kept
  BY <1>2 DEF PushCall
<1>3. ASSUME NEW p \in Producers, PushStep(p) PROVE Kept
  <2>1. CASE PushClosed(p)
    BY <2>1 DEF PushClosed
  <2>2. CASE pc[p] \notin {"idle", "p_closed"}
    <3>1. ~quiet
      BY <2>2
    <3>2. quiet' = quiet
      BY <1>3 DEF PushStep, PushClosed, PushPos, PushSeq, PushClaim, PushClaimFails, PushData,
                  PushPublish, PushEnq
    <3> QED
      BY <3>1, <3>2
  <2> QED
    BY <1>3, <2>1, <2>2 DEF PushStep, PushPos, PushSeq, PushClaim, PushClaimFails, PushData,
                            PushPublish, PushEnq
<1>4. ASSUME NEW d \in Consumers, PopCall(d) \/ PopStep(d)
      PROVE  Kept
  <2>1. UNCHANGED <<quiet, closed, log>>
    BY <1>4 DEF PopCall, PopStep, PopPos, PopSeq, PopClosed, PopRecheck, PopClaim, PopClaimFails,
                PopRead, PopRelease
  <2>2. \A p \in Producers : pc'[p] = pc[p]
    BY <1>4 DEF PopCall, PopStep, PopPos, PopSeq, PopClosed, PopRecheck, PopClaim, PopClaimFails,
                PopRead, PopRelease
  <2> QED
    BY <2>1, <2>2
<1>5. ASSUME NEW t \in Producers \cup Consumers, WaitStep(t) \/ SpuriousWakeup(t)
      PROVE  Kept
  <2>1. UNCHANGED <<quiet, closed, log>>
    BY <1>5 DEF WaitStep, Wake, WaitEnter, WaitLock, WaitEnq, WaitDeq, WaitLeave, SpuriousWakeup
  <2>2. quiet => t \in Consumers
    BY <1>5 DEF WaitStep, Wake, WaitEnter, WaitLock, WaitEnq, WaitDeq, WaitLeave, SpuriousWakeup
  <2>3. \A p \in Producers : p # t => pc'[p] = IF pc[p] = "parked" THEN pc'[p] ELSE pc[p]
    BY <1>5 DEF WaitStep, Wake, Woken, WaitEnter, WaitLock, WaitEnq, WaitDeq, WaitLeave,
                SpuriousWakeup
  <2> QED
    BY <2>1, <2>2, <2>3
<1>6. ASSUME NEW o \in Owners, Close(o) \/ Reopen(o) \/ WakeAll(o)
      PROVE  Kept
  <2>1. CASE Close(o)
    <3>1. \A p \in Producers : pc'[p] = pc[p]
      BY <2>1 DEF Close
    <3> QED
      BY <2>1, <3>1 DEF Close, InPush
  <2>2. CASE Reopen(o)
    BY <2>2 DEF Reopen
  <2>3. CASE WakeAll(o)
    <3>1. \A p \in Producers : pc'[p] = pc[p] \/ pc[p] = "parked"
      BY <2>3 DEF WakeAll, Woken
    <3> QED
      BY <2>3, <3>1 DEF WakeAll
  <2> QED
    BY <1>6, <2>1, <2>2, <2>3
<1>7. CASE UNCHANGED vars
  BY <1>7 DEF vars
<1> QED
  BY <1>2, <1>3, <1>4, <1>5, <1>6, <1>7 DEF Next

(* Who is fresh and looks a second time finds the frame that is left. *)
LEMMA FreshFinds ==
    ASSUME TypeOK, RingInv, QuietInv, quiet, dequeue_pos < Len(log)
    PROVE  sequence[Idx(dequeue_pos)] = dequeue_pos + 1
<1>1. dequeue_pos \in dequeue_pos .. Len(log) - 1
  BY Facts
<1> QED
  BY <1>1 DEF RingInv, CellInv, QuietInv, PushOwns

(* Every step keeps somebody fresh while a frame is left. *)
LEMMA DrainStep == TypeOK /\ RingInv /\ DrainInv /\ [Next]_vars => DrainInv'
<1> SUFFICES ASSUME TypeOK, RingInv, DrainInv, [Next]_vars PROVE DrainInv'
  OBVIOUS
<1>0. /\ pc \in [Threads -> PushPC \cup PopPC \cup OwnPC] /\ pos \in [Threads -> Nat]
      /\ dequeue_pos \in Nat /\ \A c \in Consumers : c \in Threads
  BY ThreadKinds, Facts
<1>1. QuietInv' /\ QuietKept
  BY QuietStep DEF DrainInv
<1>2. ASSUME NEW d \in Consumers, PopClaim(d)
      PROVE  OpenInv' /\ FreshInv'
  <2>1. /\ UNCHANGED closed /\ pc'[d] = "c_read" /\ \A c \in Consumers : c # d => pc'[c] = pc[c]
    BY <1>0, <1>2 DEF PopClaim, park, Goto
  <2>2. Fresh(d)'
    BY <2>1 DEF Fresh, Loaded
  <2> QED
    BY <2>1, <2>2 DEF DrainInv, OpenInv, FreshInv
<1>3. ASSUME NEW o \in Owners, Reopen(o)
      PROVE  OpenInv' /\ FreshInv'
  <2>1. \A c \in Consumers : pc'[c] = "idle"
    BY <1>0, <1>3, ThreadKinds DEF Reopen
  <2>2. \A c \in Consumers : Fresh(c)'
    BY <2>1 DEF Fresh, Loaded
  <2> QED
    BY <2>1, <2>2, RingAssumption DEF OpenInv, FreshInv
<1>4. ASSUME \A c \in Consumers : Steady(c)
      PROVE  OpenInv' /\ FreshInv'
  <2>1. OpenInv'
    BY <1>4 DEF DrainInv, OpenInv, Steady
  <2>2. ASSUME ~closed' \/ (quiet' /\ dequeue_pos' < Len(log'))
        PROVE  \E c \in Consumers : Fresh(c)'
    <3>0. PICK e \in Consumers : TRUE
      BY RingAssumption
    <3>1. /\ dequeue_pos' = dequeue_pos /\ (closed => closed')
          /\ closed' # closed => ~closed /\ log' = log
      BY <1>4, <3>0 DEF Steady
    <3>2. ~closed \/ (quiet /\ dequeue_pos < Len(log))
      BY <1>1, <2>2, <3>1 DEF QuietKept
    <3>3. PICK c \in Consumers : Fresh(c)
      BY <3>2 DEF DrainInv, FreshInv
    <3>4. ~(pc[c] = "c_recheck" /\ pc'[c] = "drained" /\ sequence[Idx(pos[c])] # pos[c] + 1)
      <4>1. CASE ~closed
        BY <4>1 DEF DrainInv, OpenInv
      <4>2. CASE quiet /\ dequeue_pos < Len(log)
        BY <3>3, <4>2, FreshFinds DEF DrainInv, Fresh, Loaded
      <4> QED
        BY <3>2, <4>1, <4>2
    <3>5. Fresh(c)'
      BY <1>4, <3>1, <3>3, <3>4 DEF Steady, Fresh, Loaded
    <3> QED
      BY <3>5
  <2> QED
    BY <2>1, <2>2 DEF FreshInv
<1> QED
  BY <1>1, <1>2, <1>3, <1>4, ConsumerMoves DEF DrainInv

(* awp_ring_pop answers -1 only when nothing is left: a ring closed while  *)
(* no push was in progress is empty once all its consumers have given up,  *)
(* although each may give up at a position another one has taken.          *)
THEOREM Drained == Spec => []DrainComplete
<1>1. Init => DrainInv
  <2> SUFFICES ASSUME Init PROVE DrainInv
    OBVIOUS
  <2>1. \A c \in Consumers : pc[c] = "idle"
    BY ThreadKinds DEF Init
  <2> QED
    BY <2>1, RingAssumption DEF Init, DrainInv, QuietInv, OpenInv, FreshInv, Fresh, Loaded
<1>2. TypeOK /\ RingInv /\ DrainInv /\ [Next]_vars => DrainInv'
  BY DrainStep
<1>3. TypeOK /\ RingInv /\ DrainInv => DrainComplete
  <2> SUFFICES ASSUME TypeOK, RingInv, DrainInv, quiet, \A c \in Consumers : pc[c] = "drained"
               PROVE  dequeue_pos = Len(log)
    BY DEF DrainComplete
  <2>1. ~(dequeue_pos < Len(log))
    BY DEF DrainInv, FreshInv, Fresh
  <2> QED
    BY <2>1, Facts DEF RingInv, WindowInv
<1> QED
  BY <1>1, <1>2, <1>3, RingCorrect, PTL DEF Spec

=============================================================================
