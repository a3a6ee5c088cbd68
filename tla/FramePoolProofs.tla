--------------------------- MODULE FramePoolProofs ---------------------------
(***************************************************************************)
(* The free list of module FramePool never hands a frame to two owners and *)
(* is a stack of the free frames, for every number of threads and frames.  *)
(***************************************************************************)
EXTENDS FramePool, Sequences, FiniteSetTheorems, WellFoundedInduction, TLAPS

(* The labels at which a thread relies on what it has read, or owns a frame. *)
Critical == {"anext", "acas", "rload", "rnext", "rcas"}

(* Frames, EMPTY and the types of the words are integers. *)
LEMMA Indices == Frames \subseteq Nat /\ EMPTY \notin Frames /\ EMPTY \in Index
  BY FramePoolAssumption DEF Frames, EMPTY, Index

(* The list as awp_frame_pool_init leaves it satisfies the invariant. *)
LEMMA InitInv == Init => ListInv
<1> SUFFICES ASSUME Init PROVE ListInv
  OBVIOUS
<1> USE FramePoolAssumption
<1>1. TypeOK
  <2>1. head \in Word /\ NoWord \in Word
    BY DEF Init, Word, Index, Frames, EMPTY, NoWord
  <2>2. next \in [Frames -> Index]
    BY DEF Init, Index, Frames, EMPTY
  <2>3. pc \in [Threads -> PC] /\ old \in [Threads -> Word]
    BY <2>1 DEF Init, PC
  <2>4. nidx \in [Threads -> Index] /\ frame \in [Threads -> Index]
    BY Indices DEF Init
  <2>5. app \subseteq Frames /\ waiters \in Int /\ acquires \in Nat
    BY DEF Init
  <2>6. closed \in BOOLEAN /\ wait_mu \in BOOLEAN /\ opc \in {"idle", "broadcast"}
    BY DEF Init
  <2> QED
    BY <2>1, <2>2, <2>3, <2>4, <2>5, <2>6 DEF TypeOK
<1>2. Out = {}
  BY DEF Init, Out, Releasing
<1>3. OneOwner
  BY <1>2 DEF Init, OneOwner, Releasing
<1>4. Linked
  BY <1>2 DEF Init, Linked, Free, Frames, EMPTY
<1>5. TagFresh
  BY DEF Init, TagFresh, Releasing
<1> QED
  BY <1>1, <1>3, <1>4, <1>5 DEF ListInv

(* A step that neither touches the list nor moves a thread into or out of  *)
(* the critical labels preserves the invariant.                            *)
LEMMA QuietStep ==
  ASSUME ListInv, TypeOK', UNCHANGED <<head, next, app, old, nidx, frame>>,
         \A t \in Threads : pc'[t] = pc[t] \/ {pc[t], pc'[t]} \cap Critical = {}
  PROVE  ListInv'
<1>1. \A t \in Threads : Releasing(t)' <=> Releasing(t)
  BY DEF Releasing, Critical
<1>2. Out' = Out
  BY <1>1 DEF Out
<1>3. OneOwner'
  BY <1>1, <1>2 DEF ListInv, OneOwner
<1>4. Linked'
  BY <1>2 DEF ListInv, Linked, Free
<1>5. TagFresh'
  BY <1>1 DEF ListInv, TagFresh, Critical
<1> QED
  BY <1>3, <1>4, <1>5 DEF ListInv

(* Every step preserves the types. *)
LEMMA StepType == ListInv /\ [Next]_vars => TypeOK'
<1> SUFFICES ASSUME ListInv, [Next]_vars PROVE TypeOK'
  OBVIOUS
<1> USE FramePoolAssumption, Indices DEF ListInv, TypeOK, Word, PC, Goto
<1>1. ASSUME NEW t \in Threads, AcquireCall(t) PROVE TypeOK'
  BY <1>1 DEF AcquireCall, shared, park, local
<1>2. ASSUME NEW t \in Threads, AcquireLoad(t) PROVE TypeOK'
  BY <1>2 DEF AcquireLoad, shared, park, NoWord
<1>3. ASSUME NEW t \in Threads, AcquireNext(t) PROVE TypeOK'
  <2>0. old[t] \in Word /\ pc[t] = "anext"
    BY <1>3 DEF AcquireNext
  <2>1. old[t].idx \in Frames
    BY <2>0 DEF TagFresh, Index
  <2> QED
    BY <1>3, <2>1 DEF AcquireNext, shared, park
<1>4. ASSUME NEW t \in Threads, AcquireCas(t) PROVE TypeOK'
  <2>0. old[t] \in Word /\ pc[t] = "acas" /\ NoWord \in Word
    BY <1>4 DEF AcquireCas, NoWord
  <2>1. old[t].idx \in Frames
    BY <2>0 DEF TagFresh, Index
  <2>2. head' \in Word
    BY <1>4 DEF AcquireCas
  <2>3. app' \subseteq Frames
    BY <1>4, <2>1 DEF AcquireCas
  <2> QED
    BY <1>4, <2>0, <2>2, <2>3 DEF AcquireCas, park, ForgetHead
<1>5. ASSUME NEW t \in Threads, CasFails(t) PROVE TypeOK'
  BY <1>5 DEF CasFails, shared, park, ForgetHead, NoWord
<1>6. ASSUME NEW t \in Threads, AcquireEmpty(t) PROVE TypeOK'
  BY <1>6 DEF AcquireEmpty, shared, local
<1>7. ASSUME NEW t \in Threads, Lock(t) PROVE TypeOK'
  BY <1>7 DEF Lock, shared, local
<1>8. ASSUME NEW t \in Threads, TestHead(t) PROVE TypeOK'
  BY <1>8 DEF TestHead, shared, local
<1>9. ASSUME NEW t \in Threads, CondWait(t) PROVE TypeOK'
  BY <1>9 DEF CondWait, shared, local
<1>10. ASSUME NEW t \in Threads, SpuriousWakeup(t) PROVE TypeOK'
  BY <1>10 DEF SpuriousWakeup, shared, park, local
<1>11. ASSUME NEW t \in Threads, Unpark(t) PROVE TypeOK'
  BY <1>11 DEF Unpark, shared, local
<1>12. ASSUME NEW t \in Threads, NEW f \in Frames, ReleaseCall(t, f) PROVE TypeOK'
  BY <1>12 DEF ReleaseCall, shared, park, Index
<1>13. ASSUME NEW t \in Threads, ReleaseLoad(t) PROVE TypeOK'
  BY <1>13 DEF ReleaseLoad, shared, park
<1>14. ASSUME NEW t \in Threads, ReleaseNext(t) PROVE TypeOK'
  BY <1>14 DEF ReleaseNext, park, local
<1>15. ASSUME NEW t \in Threads, ReleaseCas(t) PROVE TypeOK'
  BY <1>15 DEF ReleaseCas, park, ForgetHead, NoWord
<1>16. ASSUME NEW t \in Threads, ReleaseWaiters(t) PROVE TypeOK'
  BY <1>16 DEF ReleaseWaiters, shared, park, local
<1>17. ASSUME NEW t \in Threads, Signal(t) PROVE TypeOK'
  BY <1>17 DEF Signal, Sleepers, shared, park, local
<1>18. CASE SetClosed
  BY <1>18 DEF SetClosed, shared, local
<1>19. CASE Broadcast
  BY <1>19 DEF Broadcast, shared, park, local
<1>20. CASE UNCHANGED vars
  BY <1>20 DEF vars, shared, park, local
<1> QED
  BY <1>1, <1>2, <1>3, <1>4, <1>5, <1>6, <1>7, <1>8, <1>9, <1>10, <1>11, <1>12, <1>13, <1>14,
     <1>15, <1>16, <1>17, <1>18, <1>19, <1>20 DEF Next, PoolStep

(* A load of the head: the thread that has loaded it sees it as it is. *)
LEMMA LoadStep ==
  ASSUME ListInv, TypeOK', NEW t \in Threads,
         AcquireLoad(t) \/ AcquireNext(t) \/ ReleaseLoad(t)
  PROVE  ListInv'
<1> USE DEF ListInv, TypeOK, Word, Goto
<1>1. \A u \in Threads : pc[u] = "rload" => head.idx # frame[u]
  BY DEF OneOwner, Out, Releasing, TagFresh
<1>2. UNCHANGED <<head, next, app, frame>> /\ \A u \in Threads : Releasing(u)' <=> Releasing(u)
  BY <1>1 DEF AcquireLoad, AcquireNext, ReleaseLoad, shared, Releasing
<1>3. Out' = Out
  BY <1>2 DEF Out
<1>4. OneOwner'
  BY <1>2, <1>3 DEF OneOwner
<1>5. Linked'
  BY <1>2, <1>3 DEF Linked, Free
<1>6. TagFresh'
  <2>1. CASE AcquireLoad(t)
    BY <1>2, <2>1 DEF AcquireLoad, TagFresh, NoWord
  <2>2. CASE AcquireNext(t)
    BY <1>2, <2>2 DEF AcquireNext, TagFresh
  <2>3. CASE ReleaseLoad(t)
    BY <1>1, <1>2, <2>3 DEF ReleaseLoad, TagFresh
  <2> QED
    BY <2>1, <2>2, <2>3
<1> QED
  BY <1>4, <1>5, <1>6

(* Acquire takes the head; what was below it is the new head. *)
LEMMA AcquireTakes ==
  ASSUME ListInv, NEW t \in Threads, AcquireCas(t)
  PROVE  LET f == head.idx
         IN  /\ f \in Free /\ f \in Frames /\ f # EMPTY
             /\ head'.idx = next[f] /\ head'.tag = head.tag + 1
             /\ UNCHANGED <<next, frame>>
             /\ app' = app \cup {f} /\ Out' = Out \cup {f} /\ Free' = Free \ {f}
             /\ pc'[t] = "idle"
             /\ \A u \in Threads : (Releasing(u)' <=> Releasing(u)) /\ (u # t => pc'[u] = pc[u])
<1> USE DEF ListInv, TypeOK, Word, Goto
<1> DEFINE f == head.idx
<1>1. /\ f \in Free /\ f \in Frames /\ f # EMPTY
      /\ head'.idx = next[f] /\ head'.tag = head.tag + 1
      /\ app' = app \cup {f}
      /\ UNCHANGED <<next, frame>>
  BY Indices DEF AcquireCas, TagFresh, Linked, Index
<1>2. /\ pc'[t] = "idle"
      /\ \A u \in Threads : (Releasing(u)' <=> Releasing(u)) /\ (u # t => pc'[u] = pc[u])
  BY DEF AcquireCas, Releasing
<1>3. Out' = Out \cup {f} /\ Free' = Free \ {f}
  BY <1>1, <1>2 DEF Out, Free
<1> HIDE DEF ListInv, TypeOK, Word, Goto
<1> QED
  BY <1>1, <1>2, <1>3

(* Acquire preserves the invariant. *)
LEMMA AcquireStep ==
  ASSUME ListInv, TypeOK', NEW t \in Threads, AcquireCas(t)
  PROVE  ListInv'
<1> USE DEF ListInv, TypeOK, Word, Goto
<1> DEFINE f == head.idx
<1>1. /\ f \in Free /\ f \in Frames /\ f # EMPTY
      /\ head'.idx = next[f] /\ head'.tag = head.tag + 1
      /\ app' = app \cup {f}
      /\ UNCHANGED <<next, frame>>
  BY AcquireTakes
<1>2. \A u \in Threads : (Releasing(u)' <=> Releasing(u)) /\ (u # t => pc'[u] = pc[u])
                                                        /\ pc'[t] = "idle"
  BY AcquireTakes
<1>3. Out' = Out \cup {f} /\ Free' = Free \ {f}
  BY AcquireTakes
<1>4. next[f] \in (Free \ {f}) \cup {EMPTY}
  BY <1>1 DEF Linked
<1>5. OneOwner'
  <2>1. head'.idx \notin Out'
    BY <1>1, <1>3, <1>4, Indices DEF Free, Out
  <2>2. \A u \in Threads : Releasing(u) => frame[u] # f
    BY <1>1 DEF Free, Out
  <2> QED
    BY <1>1, <1>2, <2>1, <2>2 DEF OneOwner
<1>6. Linked'
  BY <1>1, <1>3, <1>4 DEF Linked
<1>7. TagFresh'
  BY <1>1, <1>2 DEF TagFresh, AcquireCas, ForgetHead
<1> QED
  BY <1>5, <1>6, <1>7

(* A failed compare-and-swap only goes back to the load. *)
LEMMA FailStep ==
  ASSUME ListInv, TypeOK', NEW t \in Threads, CasFails(t)
  PROVE  ListInv'
<1> USE DEF ListInv, TypeOK, Goto
<1>1. /\ UNCHANGED <<head, next, app, frame>>
      /\ \A u \in Threads : (Releasing(u)' <=> Releasing(u))
                             /\ (u # t => pc'[u] = pc[u] /\ old'[u] = old[u] /\ nidx'[u] = nidx[u])
      /\ pc'[t] \in {"aload", "rload"}
  BY DEF CasFails, ForgetHead, shared, Releasing
<1>2. Out' = Out
  BY <1>1 DEF Out
<1>3. OneOwner' /\ Linked'
  BY <1>1, <1>2 DEF OneOwner, Linked, Free
<1>4. TagFresh'
  BY <1>1 DEF TagFresh
<1> QED
  BY <1>3, <1>4

(* The application gives a frame up: it stays off the list. *)
LEMMA ReleaseCallStep ==
  ASSUME ListInv, TypeOK', NEW t \in Threads, NEW f \in Frames, ReleaseCall(t, f)
  PROVE  ListInv'
<1> USE DEF ListInv, TypeOK, Goto
<1>1. /\ f \in app /\ app' = app \ {f} /\ frame'[t] = f /\ pc[t] = "idle" /\ pc'[t] = "rload"
      /\ UNCHANGED <<head, next, old, nidx>>
      /\ \A u \in Threads : u # t => pc'[u] = pc[u] /\ frame'[u] = frame[u]
  BY DEF ReleaseCall, shared
<1>2. Releasing(t)' /\ ~Releasing(t) /\ \A u \in Threads : u # t => (Releasing(u)' <=> Releasing(u))
  BY <1>1 DEF Releasing
<1>3. Out' = Out
  BY <1>1, <1>2 DEF Out
<1>4. OneOwner'
  BY <1>1, <1>2, <1>3 DEF OneOwner
<1>5. Linked'
  BY <1>1, <1>3 DEF Linked, Free
<1>6. TagFresh'
  BY <1>1, <1>2 DEF TagFresh
<1> QED
  BY <1>4, <1>5, <1>6

(* Release writes next of its own frame, which is not on the list. *)
LEMMA ReleaseNextStep ==
  ASSUME ListInv, TypeOK', NEW t \in Threads, ReleaseNext(t)
  PROVE  ListInv'
<1> USE DEF ListInv, TypeOK, Goto
<1>1. /\ pc[t] = "rnext" /\ pc'[t] = "rcas" /\ Releasing(t)
      /\ next' = [next EXCEPT ![frame[t]] = old[t].idx]
      /\ UNCHANGED <<head, app, old, nidx, frame>>
      /\ \A u \in Threads : (Releasing(u)' <=> Releasing(u)) /\ (u # t => pc'[u] = pc[u])
  BY DEF ReleaseNext, local, Releasing
<1>2. Out' = Out /\ frame[t] \in Out /\ frame[t] \in Frames
  BY <1>1 DEF Out, TagFresh
<1>3. \A f \in Free : next'[f] = next[f]
  BY <1>1, <1>2 DEF Free
<1>4. OneOwner'
  BY <1>1, <1>2 DEF OneOwner
<1>5. Linked'
  BY <1>1, <1>2, <1>3 DEF Linked, Free
<1>6. TagFresh'
  <2>1. \A u \in Threads : pc[u] = "acas" /\ old[u] = head => next'[head.idx] = next[head.idx]
    BY <1>3, Indices DEF TagFresh, Linked, Free
  <2>2. \A u \in Threads : u # t /\ pc[u] = "rcas" => next'[frame[u]] = next[frame[u]]
    BY <1>1, <1>2 DEF OneOwner, Releasing, TagFresh
  <2> QED
    BY <1>1, <1>2, <2>1, <2>2 DEF TagFresh
<1> QED
  BY <1>4, <1>5, <1>6

(* Release puts its frame on top of the head it points to. *)
LEMMA ReleasePuts ==
  ASSUME ListInv, NEW t \in Threads, ReleaseCas(t)
  PROVE  LET f == frame[t]
         IN  /\ pc[t] = "rcas" /\ pc'[t] = "rwaiters" /\ Releasing(t) /\ ~Releasing(t)'
             /\ f \in Frames /\ f \in Out /\ next[f] = head.idx
             /\ head'.idx = f /\ head'.tag = head.tag + 1
             /\ UNCHANGED <<next, app>>
             /\ Out' = Out \ {f} /\ Free' = Free \cup {f}
             /\ \A u \in Threads : u # t => /\ pc'[u] = pc[u] /\ (Releasing(u)' <=> Releasing(u))
                                            /\ frame'[u] = frame[u] /\ old'[u] = old[u]
                                            /\ nidx'[u] = nidx[u]
<1> USE DEF ListInv, TypeOK, Word, Goto
<1> DEFINE f == frame[t]
<1>1. /\ pc[t] = "rcas" /\ pc'[t] = "rwaiters" /\ Releasing(t) /\ ~Releasing(t)'
      /\ head'.idx = f /\ head'.tag = head.tag + 1
      /\ UNCHANGED <<next, app>>
      /\ \A u \in Threads : u # t => /\ pc'[u] = pc[u] /\ (Releasing(u)' <=> Releasing(u))
                                     /\ frame'[u] = frame[u] /\ old'[u] = old[u]
                                     /\ nidx'[u] = nidx[u]
  BY DEF ReleaseCas, ForgetHead, Releasing
<1>2. f \in Frames /\ f \in Out /\ next[f] = head.idx
  BY <1>1 DEF ReleaseCas, Out, TagFresh
<1>3. Out' = Out \ {f} /\ Free' = Free \cup {f}
  <2>1. f \notin app /\ \A u \in Threads : u # t /\ Releasing(u) => frame[u] # f
    BY <1>1 DEF OneOwner
  <2>2. \A g : g \in Out' <=> g \in Out /\ g # f
    BY <1>1, <1>2, <2>1 DEF Out
  <2> QED
    BY <1>2, <2>2 DEF Free
<1> HIDE DEF ListInv, TypeOK, Word, Goto
<1> QED
  BY <1>1, <1>2, <1>3

(* Release preserves the invariant. *)
LEMMA ReleaseCasStep ==
  ASSUME ListInv, TypeOK', NEW t \in Threads, ReleaseCas(t)
  PROVE  ListInv'
<1> DEFINE f == frame[t]
<1>1. /\ pc[t] = "rcas" /\ pc'[t] = "rwaiters" /\ Releasing(t) /\ ~Releasing(t)'
      /\ head'.idx = f /\ head'.tag = head.tag + 1
      /\ UNCHANGED <<next, app>>
      /\ \A u \in Threads : u # t => /\ pc'[u] = pc[u] /\ (Releasing(u)' <=> Releasing(u))
                                     /\ frame'[u] = frame[u] /\ old'[u] = old[u]
                                     /\ nidx'[u] = nidx[u]
  BY ReleasePuts
<1>2. f \in Frames /\ f \in Out /\ next[f] = head.idx
  BY ReleasePuts
<1>3. Out' = Out \ {f} /\ Free' = Free \cup {f}
  BY ReleasePuts
<1>4. OneOwner'
  <2>1. app' = app /\ \A u \in Threads : Releasing(u)' => u # t /\ Releasing(u) /\ frame'[u] = frame[u]
    BY <1>1
  <2>2. OneOwner
    BY DEF ListInv
  <2>3. head'.idx \notin Out'
    BY <1>1, <1>3
  <2> QED
    BY <2>1, <2>2, <2>3 DEF OneOwner
<1> USE DEF ListInv, TypeOK, Word, Goto
<1>5. Linked'
  <2>1. head'.idx \in Free'
    BY <1>1, <1>3
  <2>2. \A g \in Free : next[g] # f /\ (next[g] # EMPTY => next[g] # next[f])
    BY <1>2, Indices DEF Linked, Free
  <2>3. next[f] \in Free \cup {EMPTY} /\ next[f] # f
    BY <1>2, Indices DEF Linked, Free
  <2> QED
    BY <1>1, <1>3, <2>1, <2>2, <2>3 DEF Linked
<1>6. TagFresh'
  BY <1>1 DEF TagFresh
<1> QED
  BY <1>4, <1>5, <1>6

(* Every step preserves the invariant. *)
LEMMA StepInv == ListInv /\ [Next]_vars => ListInv'
<1> SUFFICES ASSUME ListInv, [Next]_vars PROVE ListInv'
  OBVIOUS
<1>0. TypeOK'
  BY StepType
<1>1. ASSUME NEW t \in Threads,
             \/ AcquireCall(t) \/ AcquireEmpty(t) \/ Lock(t) \/ TestHead(t) \/ CondWait(t)
             \/ SpuriousWakeup(t) \/ Unpark(t) \/ ReleaseWaiters(t)
      PROVE  ListInv'
  <2>1. /\ UNCHANGED <<head, next, app, old, nidx, frame>>
        /\ \A u \in Threads : pc'[u] = pc[u] \/ {pc[u], pc'[u]} \cap Critical = {}
    BY <1>1 DEF AcquireCall, AcquireEmpty, Lock, TestHead, CondWait, SpuriousWakeup, Unpark,
                ReleaseWaiters, shared, local, Critical, Goto, ListInv, TypeOK
  <2> QED
    BY <1>0, <2>1, QuietStep
<1>2. ASSUME NEW t \in Threads, Signal(t) PROVE ListInv'
  <2>1. /\ UNCHANGED <<head, next, app, old, nidx, frame>>
        /\ \A u \in Threads : pc'[u] = pc[u] \/ {pc[u], pc'[u]} \cap Critical = {}
    BY <1>2 DEF Signal, Sleepers, shared, local, Critical, Goto, ListInv, TypeOK
  <2> QED
    BY <1>0, <2>1, QuietStep
<1>3. CASE SetClosed \/ Broadcast \/ UNCHANGED vars
  <2>1. /\ UNCHANGED <<head, next, app, old, nidx, frame>>
        /\ \A u \in Threads : pc'[u] = pc[u] \/ {pc[u], pc'[u]} \cap Critical = {}
    BY <1>3 DEF SetClosed, Broadcast, vars, shared, local, Critical, ListInv, TypeOK
  <2> QED
    BY <1>0, <2>1, QuietStep
<1> QED
  BY <1>0, <1>1, <1>2, <1>3, LoadStep, AcquireStep, FailStep, ReleaseCallStep, ReleaseNextStep,
     ReleaseCasStep DEF Next, PoolStep

(* The invariant of the free list: whoever still sees the tag it has       *)
(* loaded may rely on the index and on next (acquire's compare-and-swap,   *)
(* frame_pool.c:118).                                                      *)
THEOREM ListInvariant == Spec => []ListInv
  BY InitInv, StepInv, PTL DEF Spec

(* No frame is handed to two owners: frame_pool.c never hands out a frame  *)
(* the application has, whatever acquires and releases run at once.        *)
THEOREM FramesExclusive == Spec => []OneOwner
<1>1. ListInv => OneOwner
  BY DEF ListInv
<1> QED
  BY <1>1, ListInvariant, PTL

(***************************************************************************)
(* The free list is a stack.                                               *)
(***************************************************************************)

(* A set of natural numbers has a least element: the form in which the     *)
(* proofs below use induction.                                             *)
LEMMA Smallest ==
    ASSUME NEW T, T \subseteq Nat, T # {}
    PROVE  \E x \in T : \A y \in T : x <= y
<1> DEFINE R == OpToRel(<, Nat)
<1>1. IsWellFoundedOn(R, Nat)
  BY NatLessThanWellFounded
<1>2. \A x, y \in Nat : y < x => <<y, x>> \in R
  BY DEF OpToRel
<1> HIDE DEF R
<1>3. PICK x \in T : \A y \in T : ~ (<<y, x>> \in R)
  BY <1>1, WFMin, Zenon
<1>4. \A y \in T : ~ (y < x)
  BY <1>2, <1>3, Zenon
<1>5. \A y \in T : x <= y
  BY <1>4
<1> QED
  BY <1>5

(* The number of elements of an interval that starts at 0 or 1. *)
LEMMA Counting ==
    ASSUME NEW n \in Nat
    PROVE  /\ IsFiniteSet(0 .. n - 1) /\ Cardinality(0 .. n - 1) = n
           /\ IsFiniteSet(1 .. n) /\ Cardinality(1 .. n) = n
<1>1. 0 \in Int /\ 1 \in Int /\ n \in Int /\ n - 1 \in Int
  OBVIOUS
<1>2. /\ IsFiniteSet(0 .. n - 1)
      /\ Cardinality(0 .. n - 1) = IF 0 > n - 1 THEN 0 ELSE (n - 1) - 0 + 1
  BY <1>1, FS_Interval, Zenon
<1>3. IsFiniteSet(1 .. n) /\ Cardinality(1 .. n) = IF 1 > n THEN 0 ELSE n - 1 + 1
  BY <1>1, FS_Interval, Zenon
<1> QED
  BY <1>2, <1>3

(* The sequence s is what one finds walking from head along next, and it   *)
(* has every free frame once.                                              *)
IsList(s) ==
    /\ s \in Seq(Frames)
    /\ head.idx = IF Len(s) = 0 THEN EMPTY ELSE s[1]
    /\ \A i \in 1 .. Len(s) : next[s[i]] = IF i < Len(s) THEN s[i + 1] ELSE EMPTY
    /\ \A f \in Frames : f \in Free <=> \E i \in 1 .. Len(s) : s[i] = f
    /\ \A i, j \in 1 .. Len(s) : s[i] = s[j] => i = j

ChainInv == \E s : IsList(s)

(* A list of different frames is no longer than the pool. *)
LEMMA ListLength ==
    ASSUME NEW s, IsList(s)
    PROVE  Len(s) \in 0 .. Size
<1>1. s \in [1 .. Len(s) -> Frames] /\ Len(s) \in Nat /\ Size \in Nat
  BY FramePoolAssumption DEF IsList
<1>2. IsFiniteSet(Frames) /\ Cardinality(Frames) = Size
  BY <1>1, Counting DEF Frames
<1>3. IsFiniteSet(1 .. Len(s)) /\ Cardinality(1 .. Len(s)) = Len(s)
  BY <1>1, Counting
<1>4. ASSUME Size < Len(s) PROVE FALSE
  <2>1. \E x, y \in 1 .. Len(s) : x # y /\ s[x] = s[y]
    BY <1>1, <1>2, <1>3, <1>4, FS_PigeonHole
  <2> QED
    BY <2>1 DEF IsList
<1> QED
  BY <1>1, <1>4

(* Walk follows the list and then stays at EMPTY. *)
Step(w, n) == IF w[n - 1] = EMPTY THEN EMPTY ELSE next[w[n - 1]]
Walks(w) == w[0] = head.idx /\ \A n \in 1 .. Size : w[n] = Step(w, n)

(* Two walks from the head are the same. *)
LEMMA WalkUnique ==
    ASSUME NEW v \in [0 .. Size -> Index], NEW w \in [0 .. Size -> Index], Walks(v), Walks(w)
    PROVE  v = w
<1> DEFINE T == {n \in 0 .. Size : v[n] # w[n]}
<1>0. Size \in Nat
  BY FramePoolAssumption
<1>1. ASSUME T # {} PROVE FALSE
  <2>1. T \subseteq Nat
    BY <1>0
  <2>2. PICK m \in T : \A n \in T : m <= n
    BY <1>1, <2>1, Smallest
  <2>3. m \in 0 .. Size /\ v[m] # w[m]
    OBVIOUS
  <2>4. m # 0
    BY <2>3 DEF Walks
  <2>5. m \in 1 .. Size /\ m - 1 \in 0 .. Size
    BY <1>0, <2>3, <2>4
  <2>6. v[m - 1] = w[m - 1]
    BY <1>0, <2>2, <2>5
  <2>7. v[m] = w[m]
    BY <2>5, <2>6 DEF Walks, Step
  <2> QED
    BY <2>3, <2>7
<1>2. \A n \in 0 .. Size : v[n] = w[n]
  BY <1>1
<1>3. v = [n \in 0 .. Size |-> v[n]] /\ w = [n \in 0 .. Size |-> w[n]]
  OBVIOUS
<1> QED
  BY <1>2, <1>3

(* FreeList is the list. *)
LEMMA ListFound ==
    ASSUME TypeOK, NEW s, IsList(s)
    PROVE  FreeList = s
<1> DEFINE n == Len(s)
           v == [k \in 0 .. Size |-> IF k < n THEN s[k + 1] ELSE EMPTY]
<1>0. /\ n \in 0 .. Size /\ n \in Nat /\ Size \in Nat /\ s \in [1 .. n -> Frames]
      /\ EMPTY \notin Frames /\ Index = Frames \cup {EMPTY}
  BY ListLength, FramePoolAssumption, Indices DEF IsList, Index
<1>1. v \in [0 .. Size -> Index]
  BY <1>0
<1>2. Walks(v)
  <2>1. v[0] = head.idx
    BY <1>0 DEF IsList
  <2>2. ASSUME NEW k \in 1 .. Size PROVE v[k] = Step(v, k)
    <3>1. k - 1 \in 0 .. Size /\ k \in 0 .. Size
      BY <1>0
    <3>2. CASE k - 1 < n
      <4>1. k \in 1 .. n /\ v[k - 1] = s[k] /\ v[k - 1] # EMPTY
        BY <1>0, <3>1, <3>2
      <4>2. next[s[k]] = IF k < n THEN s[k + 1] ELSE EMPTY
        BY <4>1 DEF IsList
      <4> QED
        BY <3>1, <4>1, <4>2 DEF Step
    <3>3. CASE ~(k - 1 < n)
      BY <1>0, <3>1, <3>3 DEF Step
    <3> QED
      BY <3>2, <3>3
  <2> QED
    BY <2>1, <2>2 DEF Walks
<1> HIDE DEF v
<1>3. Walk = v
  <2> DEFINE P(w) == /\ w[0] = head.idx
                     /\ \A k \in 1 .. Size :
                           w[k] = IF w[k - 1] = EMPTY THEN EMPTY ELSE next[w[k - 1]]
  <2>1. \A w : P(w) <=> Walks(w)
    BY DEF Walks, Step
  <2>2. Walk = CHOOSE w \in [0 .. Size -> Index] : P(w)
    BY DEF Walk
  <2> HIDE DEF P
  <2>3. Walk \in [0 .. Size -> Index] /\ P(Walk)
    BY <1>1, <1>2, <2>1, <2>2
  <2> QED
    BY <1>1, <1>2, <2>1, <2>3, WalkUnique
<1>4. {m \in 0 .. Size - 1 : Walk[m] # EMPTY} = 0 .. n - 1
  <2>1. ASSUME NEW m \in 0 .. Size - 1 PROVE Walk[m] # EMPTY <=> m < n
    <3>1. m \in 0 .. Size /\ Walk[m] = IF m < n THEN s[m + 1] ELSE EMPTY
      BY <1>0, <1>3 DEF v
    <3>2. m < n => m + 1 \in 1 .. n
      BY <1>0
    <3>3. m < n => s[m + 1] # EMPTY
      BY <1>0, <3>2
    <3> QED
      BY <3>1, <3>3
  <2> QED
    BY <1>0, <2>1
<1>5. Cardinality(0 .. n - 1) = n
  BY <1>0, Counting
<1>6. FreeList = [k \in 1 .. n |-> Walk[k - 1]]
  BY <1>4, <1>5 DEF FreeList
<1>7. \A k \in 1 .. n : Walk[k - 1] = s[k]
  BY <1>0, <1>3 DEF v
<1> QED
  BY <1>0, <1>6, <1>7

(* The same, after a step. *)
LEMMA ListFoundNext ==
    ASSUME NEW s
    PROVE  TypeOK' /\ IsList(s)' => FreeList' = s
<1>1. TypeOK /\ IsList(s) => FreeList = s
  BY ListFound
<1>2. (TypeOK /\ IsList(s) => FreeList = s)'
  BY <1>1, PTL
<1> QED
  BY <1>2

(* The list as awp_frame_pool_init leaves it has the frames in order. *)
LEMMA ListStart ==
    ASSUME Init
    PROVE  IsList([i \in 1 .. Size |-> i - 1])
<1> DEFINE s == [i \in 1 .. Size |-> i - 1]
<1>1. Size \in Nat \ {0} /\ Frames = 0 .. Size - 1
  BY FramePoolAssumption DEF Frames
<1>2. s \in Seq(Frames) /\ Len(s) = Size /\ \A i \in 1 .. Size : s[i] = i - 1
  BY <1>1
<1>3. Free = Frames
  BY DEF Init, Free, Out, Releasing
<1>4. \A i \in 1 .. Size : next[i - 1] = IF i < Size THEN i ELSE EMPTY
  BY <1>1 DEF Init
<1>5. head.idx = 0
  BY DEF Init
<1> HIDE DEF s
<1>6. \A f \in Frames : \E i \in 1 .. Size : s[i] = f
  <2> SUFFICES ASSUME NEW f \in Frames PROVE \E i \in 1 .. Size : s[i] = f
    OBVIOUS
  <2>1. f + 1 \in 1 .. Size /\ (f + 1) - 1 = f
    BY <1>1
  <2> QED
    BY <1>2, <2>1
<1>7. head.idx = IF Len(s) = 0 THEN EMPTY ELSE s[1]
  BY <1>1, <1>2, <1>5
<1>8. \A i \in 1 .. Len(s) : next[s[i]] = IF i < Len(s) THEN s[i + 1] ELSE EMPTY
  BY <1>1, <1>2, <1>4
<1>9. \A i, j \in 1 .. Len(s) : s[i] = s[j] => i = j
  BY <1>1, <1>2
<1>10. IsList(s)
  BY <1>2, <1>3, <1>6, <1>7, <1>8, <1>9 DEF IsList
<1> QED
  BY <1>10 DEF s

(* Acquire takes the first frame of the list. *)
LEMMA ListTaken ==
    ASSUME ListInv, NEW s, IsList(s), NEW t \in Threads, AcquireCas(t)
    PROVE  /\ s # <<>> /\ Head(s) = head.idx
           /\ IsList(Tail(s))'
<1> DEFINE f == head.idx
           r == Tail(s)
<1>0. /\ f \in Free /\ f # EMPTY /\ head'.idx = next[f] /\ next' = next /\ Free' = Free \ {f}
  BY AcquireTakes
<1>1. s \in Seq(Frames) /\ Len(s) \in Nat /\ Len(s) # 0 /\ s[1] = f
  BY <1>0 DEF IsList
<1>2. /\ r \in Seq(Frames) /\ Len(r) = Len(s) - 1
      /\ \A i \in 1 .. Len(r) : r[i] = s[i + 1] /\ i + 1 \in 1 .. Len(s)
  BY <1>1
<1>3. s # <<>> /\ Head(s) = f
  BY <1>1
<1> HIDE DEF r
<1>4. head'.idx = IF Len(r) = 0 THEN EMPTY ELSE r[1]
  <2>1. 1 \in 1 .. Len(s) /\ next[s[1]] = IF 1 < Len(s) THEN s[2] ELSE EMPTY
    BY <1>1 DEF IsList
  <2> QED
    BY <1>0, <1>1, <1>2, <2>1
<1>5. \A i \in 1 .. Len(r) : next'[r[i]] = IF i < Len(r) THEN r[i + 1] ELSE EMPTY
  <2> SUFFICES ASSUME NEW i \in 1 .. Len(r)
               PROVE  next[r[i]] = IF i < Len(r) THEN r[i + 1] ELSE EMPTY
    BY <1>0
  <2>1. i + 1 \in 1 .. Len(s) /\ r[i] = s[i + 1]
    BY <1>2
  <2>2. next[s[i + 1]] = IF i + 1 < Len(s) THEN s[i + 2] ELSE EMPTY
    BY <1>1, <2>1 DEF IsList
  <2>3. i < Len(r) => i + 1 \in 1 .. Len(r) /\ r[i + 1] = s[i + 2]
    BY <1>1, <1>2
  <2> QED
    BY <1>1, <1>2, <2>1, <2>2, <2>3
<1>6. \A g \in Frames : g \in Free' <=> \E i \in 1 .. Len(r) : r[i] = g
  <2> SUFFICES ASSUME NEW g \in Frames
               PROVE  g \in Free /\ g # f <=> \E i \in 1 .. Len(r) : r[i] = g
    BY <1>0
  <2>1. ASSUME g \in Free, g # f PROVE \E i \in 1 .. Len(r) : r[i] = g
    <3>1. PICK k \in 1 .. Len(s) : s[k] = g
      BY <2>1 DEF IsList
    <3>2. k # 1 /\ k - 1 \in 1 .. Len(r) /\ (k - 1) + 1 = k
      BY <1>1, <1>2, <2>1, <3>1
    <3> QED
      BY <1>2, <3>1, <3>2
  <2>2. ASSUME NEW i \in 1 .. Len(r), r[i] = g PROVE g \in Free /\ g # f
    <3>1. i + 1 \in 1 .. Len(s) /\ s[i + 1] = g /\ i + 1 # 1 /\ 1 \in 1 .. Len(s)
      BY <1>1, <1>2, <2>2
    <3> QED
      BY <1>1, <3>1 DEF IsList
  <2> QED
    BY <2>1, <2>2
<1>7. \A i, j \in 1 .. Len(r) : r[i] = r[j] => i = j
  <2> SUFFICES ASSUME NEW i \in 1 .. Len(r), NEW j \in 1 .. Len(r), r[i] = r[j] PROVE i = j
    OBVIOUS
  <2>1. i + 1 = j + 1
    BY <1>2 DEF IsList
  <2> QED
    BY <1>1, <1>2, <2>1
<1>8. IsList(r)'
  BY <1>2, <1>4, <1>5, <1>6, <1>7 DEF IsList
<1> QED
  BY <1>3, <1>8 DEF r

(* Release puts its frame in front of the list. *)
LEMMA ListGiven ==
    ASSUME ListInv, NEW s, IsList(s), NEW t \in Threads, ReleaseCas(t), NEW f, f = frame[t]
    PROVE  IsList(<<f>> \o s)'
<1> DEFINE r == <<f>> \o s
<1>0. /\ f \in Frames /\ f \in Out /\ next[f] = head.idx /\ head'.idx = f /\ next' = next
      /\ Free' = Free \cup {f} /\ f \notin Free
  <2>1. f \in Out => f \notin Free
    BY DEF Free
  <2> QED
    BY <2>1, ReleasePuts
<1>1. s \in Seq(Frames) /\ Len(s) \in Nat
  BY DEF IsList
<1>2. /\ r \in Seq(Frames) /\ Len(r) = Len(s) + 1 /\ r[1] = f
      /\ \A i \in 1 .. Len(s) : r[i + 1] = s[i] /\ i + 1 \in 1 .. Len(r)
  BY <1>0, <1>1
<1>3. \A k \in 1 .. Len(r) : k = 1 \/ (k - 1 \in 1 .. Len(s) /\ r[k] = s[k - 1])
  <2> SUFFICES ASSUME NEW k \in 1 .. Len(r), k # 1
               PROVE  k - 1 \in 1 .. Len(s) /\ r[k] = s[k - 1]
    OBVIOUS
  <2>1. k - 1 \in 1 .. Len(s) /\ (k - 1) + 1 = k
    BY <1>1, <1>2
  <2> QED
    BY <1>2, <2>1
<1> HIDE DEF r
<1>4. head'.idx = IF Len(r) = 0 THEN EMPTY ELSE r[1]
  BY <1>0, <1>1, <1>2
<1>5. \A i \in 1 .. Len(r) : next'[r[i]] = IF i < Len(r) THEN r[i + 1] ELSE EMPTY
  <2> SUFFICES ASSUME NEW i \in 1 .. Len(r)
               PROVE  next[r[i]] = IF i < Len(r) THEN r[i + 1] ELSE EMPTY
    BY <1>0
  <2>1. CASE i = 1
    <3>1. head.idx = IF Len(s) = 0 THEN EMPTY ELSE s[1]
      BY DEF IsList
    <3>2. 1 < Len(r) => 1 \in 1 .. Len(s) /\ r[2] = s[1]
      BY <1>1, <1>2
    <3> QED
      BY <1>0, <1>1, <1>2, <2>1, <3>1, <3>2
  <2>2. CASE i # 1
    <3>1. i - 1 \in 1 .. Len(s) /\ r[i] = s[i - 1]
      BY <1>3, <2>2
    <3>2. next[s[i - 1]] = IF i - 1 < Len(s) THEN s[(i - 1) + 1] ELSE EMPTY
      BY <3>1 DEF IsList
    <3>3. i < Len(r) => i \in 1 .. Len(s) /\ r[i + 1] = s[i] /\ (i - 1) + 1 = i
      BY <1>1, <1>2
    <3> QED
      BY <1>1, <1>2, <3>1, <3>2, <3>3
  <2> QED
    BY <2>1, <2>2
<1>6. \A g \in Frames : g \in Free' <=> \E i \in 1 .. Len(r) : r[i] = g
  <2> SUFFICES ASSUME NEW g \in Frames
               PROVE  g \in Free \/ g = f <=> \E i \in 1 .. Len(r) : r[i] = g
    BY <1>0
  <2>1. ASSUME g = f PROVE \E i \in 1 .. Len(r) : r[i] = g
    <3>1. 1 \in 1 .. Len(r)
      BY <1>1, <1>2
    <3> QED
      BY <1>2, <2>1, <3>1
  <2>2. ASSUME g \in Free PROVE \E i \in 1 .. Len(r) : r[i] = g
    <3>1. PICK k \in 1 .. Len(s) : s[k] = g
      BY <2>2 DEF IsList
    <3> QED
      BY <1>2, <3>1
  <2>3. ASSUME NEW i \in 1 .. Len(r), r[i] = g PROVE g \in Free \/ g = f
    BY <1>2, <1>3, <2>3 DEF IsList
  <2> QED
    BY <2>1, <2>2, <2>3
<1>7. \A i, j \in 1 .. Len(r) : r[i] = r[j] => i = j
  <2> SUFFICES ASSUME NEW i \in 1 .. Len(r), NEW j \in 1 .. Len(r), r[i] = r[j] PROVE i = j
    OBVIOUS
  <2>0. \A k \in 1 .. Len(s) : s[k] # f
    BY <1>0, <1>1 DEF IsList
  <2>1. CASE i = 1 \/ j = 1
    BY <1>2, <1>3, <2>0, <2>1
  <2>2. CASE i # 1 /\ j # 1
    <3>1. i - 1 \in 1 .. Len(s) /\ j - 1 \in 1 .. Len(s) /\ s[i - 1] = s[j - 1]
      BY <1>3, <2>2
    <3>2. \A k, l \in 1 .. Len(s) : s[k] = s[l] => k = l
      BY DEF IsList
    <3>3. i - 1 = j - 1
      BY <3>1, <3>2
    <3> QED
      BY <1>1, <1>2, <3>3
  <2> QED
    BY <2>1, <2>2
<1>8. IsList(r)'
  BY <1>2, <1>4, <1>5, <1>6, <1>7 DEF IsList
<1> QED
  BY <1>8 DEF r

(* Every other step leaves the list alone. *)
LEMMA ListKept ==
    ASSUME ListInv, [Next]_vars, \A t \in Threads : ~AcquireCas(t) /\ ~ReleaseCas(t)
    PROVE  Out' = Out /\ \A s : IsList(s) => IsList(s)'
<1> USE DEF ListInv, TypeOK, Goto
<1>0. \A u \in Threads : pc[u] = "rload" => head.idx # frame[u]
  BY DEF OneOwner, Out, Releasing, TagFresh
<1> DEFINE Kept == /\ UNCHANGED <<head, next, app, frame>>
                   /\ \A u \in Threads : Releasing(u)' <=> Releasing(u)
<1>1. ASSUME NEW t \in Threads,
             \/ AcquireCall(t) \/ AcquireLoad(t) \/ AcquireNext(t) \/ CasFails(t) \/ AcquireEmpty(t)
             \/ Lock(t) \/ TestHead(t) \/ CondWait(t) \/ SpuriousWakeup(t) \/ Unpark(t)
      PROVE  Kept
  BY <1>1 DEF AcquireCall, AcquireLoad, AcquireNext, CasFails, AcquireEmpty, Lock, TestHead,
              CondWait, SpuriousWakeup, Unpark, ForgetHead, shared, local, Releasing
<1>2. ASSUME NEW t \in Threads, ReleaseLoad(t) \/ ReleaseWaiters(t) \/ Signal(t)
      PROVE  Kept
  BY <1>0, <1>2 DEF ReleaseLoad, ReleaseWaiters, Signal, Sleepers, shared, local, Releasing
<1>3. ASSUME SetClosed \/ Broadcast \/ UNCHANGED vars
      PROVE  Kept
  BY <1>3 DEF SetClosed, Broadcast, vars, shared, local, Releasing
<1>4. ASSUME Kept
      PROVE  Out' = Out /\ \A s : IsList(s) => IsList(s)'
  <2>1. Out' = Out
    BY <1>4 DEF Out
  <2> QED
    BY <1>4, <2>1 DEF IsList, Free
<1>5. ASSUME NEW t \in Threads, NEW f \in Frames, ReleaseCall(t, f)
      PROVE  Out' = Out /\ \A s : IsList(s) => IsList(s)'
  <2>1. /\ f \in app /\ app' = app \ {f} /\ frame'[t] = f /\ pc[t] = "idle" /\ pc'[t] = "rload"
        /\ UNCHANGED <<head, next>>
        /\ \A u \in Threads : u # t => pc'[u] = pc[u] /\ frame'[u] = frame[u]
    BY <1>5 DEF ReleaseCall, shared
  <2>2. Out' = Out
    BY <2>1 DEF Out, Releasing
  <2> QED
    BY <2>1, <2>2 DEF IsList, Free
<1>6. ASSUME NEW t \in Threads, ReleaseNext(t)
      PROVE  Out' = Out /\ \A s : IsList(s) => IsList(s)'
  <2>1. /\ next' = [next EXCEPT ![frame[t]] = old[t].idx] /\ Releasing(t)
        /\ UNCHANGED <<head, app, frame>>
        /\ \A u \in Threads : Releasing(u)' <=> Releasing(u)
    BY <1>6 DEF ReleaseNext, local, Releasing
  <2>2. Out' = Out /\ frame[t] \in Out
    BY <2>1 DEF Out, TagFresh
  <2>3. \A g \in Free : next'[g] = next[g]
    BY <2>1, <2>2 DEF Free
  <2>4. ASSUME NEW s, IsList(s) PROVE IsList(s)'
    <3>1. \A i \in 1 .. Len(s) : s[i] \in Free
      BY <2>4 DEF IsList
    <3>2. \A i \in 1 .. Len(s) : next'[s[i]] = next[s[i]]
      BY <2>3, <3>1
    <3> QED
      BY <2>1, <2>2, <2>4, <3>2 DEF IsList, Free
  <2> QED
    BY <2>2, <2>4
<1> HIDE DEF Kept, ListInv, TypeOK, Goto
<1> QED
  BY <1>1, <1>2, <1>3, <1>4, <1>5, <1>6 DEF Next, PoolStep

(* Every step is a step of the stack, and leaves a list. *)
LEMMA StackStep ==
    ASSUME ListInv, ChainInv, [Next]_vars
    PROVE  /\ ChainInv'
           /\ [Stack!Take \/ \E f \in Frames : Stack!Give(f)]_<<FreeList, Out>>
<1>0. TypeOK /\ TypeOK'
  BY StepType DEF ListInv
<1>1. PICK s : IsList(s)
  BY DEF ChainInv
<1>2. FreeList = s
  BY <1>0, <1>1, ListFound
<1>3. ASSUME NEW r, IsList(r)'
      PROVE  ChainInv' /\ FreeList' = r
  <2>1. FreeList' = r
    BY <1>0, <1>3, ListFoundNext
  <2> QED
    BY <1>3, <2>1 DEF ChainInv
<1>4. ASSUME NEW t \in Threads, AcquireCas(t)
      PROVE  ChainInv' /\ Stack!Take
  <2>1. s # <<>> /\ Head(s) = head.idx /\ IsList(Tail(s))'
    BY <1>1, <1>4, ListTaken
  <2>2. ChainInv' /\ FreeList' = Tail(s)
    BY <1>3, <2>1
  <2>3. Out' = Out \cup {Head(s)}
    BY <1>4, <2>1, AcquireTakes
  <2> QED
    BY <1>2, <2>1, <2>2, <2>3 DEF Stack!Take
<1>5. ASSUME NEW t \in Threads, ReleaseCas(t)
      PROVE  ChainInv' /\ \E f \in Frames : Stack!Give(f)
  <2>1. PICK f : f = frame[t]
    OBVIOUS
  <2>2. ChainInv' /\ FreeList' = <<f>> \o s
    BY <1>1, <1>3, <1>5, <2>1, ListGiven
  <2>3. f \in Frames /\ f \in Out /\ Out' = Out \ {f}
    BY <1>5, <2>1, ReleasePuts
  <2> QED
    BY <1>2, <2>2, <2>3 DEF Stack!Give
<1>6. ASSUME \A t \in Threads : ~AcquireCas(t) /\ ~ReleaseCas(t)
      PROVE  ChainInv' /\ UNCHANGED <<FreeList, Out>>
  <2>1. Out' = Out /\ IsList(s)'
    BY <1>1, <1>6, ListKept
  <2> QED
    BY <1>2, <1>3, <2>1
<1> QED
  BY <1>4, <1>5, <1>6

(* The compare-and-swap list of frame_pool.c is a stack: acquire takes the *)
(* frame released last, release puts its frame on top, and no frame is     *)
(* lost or found twice, whatever acquires and releases run at once.        *)
THEOREM ImplementsStack == Spec => IsStack
<1>1. Init => ListInv /\ ChainInv /\ Stack!StackInit
  <2> SUFFICES ASSUME Init PROVE ListInv /\ ChainInv /\ Stack!StackInit
    OBVIOUS
  <2> DEFINE s == [i \in 1 .. Size |-> i - 1]
  <2>1. ListInv /\ IsList(s)
    BY InitInv, ListStart
  <2> HIDE DEF s
  <2>2. FreeList = s
    BY <2>1, ListFound DEF ListInv
  <2>3. Out = {} /\ Free = Frames
    BY DEF Init, Out, Free, Releasing
  <2>4. DOMAIN s = 1 .. Len(s)
    BY <2>1 DEF IsList
  <2>5. Stack!Filled(s)
    BY <2>1, <2>3, <2>4 DEF Stack!Filled, IsList
  <2> QED
    BY <2>1, <2>2, <2>3, <2>5 DEF ChainInv, Stack!StackInit
<1>2. ListInv /\ ChainInv /\ [Next]_vars =>
         /\ ListInv' /\ ChainInv'
         /\ [Stack!Take \/ \E f \in Frames : Stack!Give(f)]_<<FreeList, Out>>
  BY StepInv, StackStep
<1> QED
  BY <1>1, <1>2, PTL DEF Spec, IsStack, Stack!StackSpec

=============================================================================
