------------------------------ MODULE FramePool ------------------------------
(***************************************************************************)
(* The frame pool of src/src/frame_pool.c: a free list of frame indices    *)
(* whose head is one word, an index and a tag, swapped by compare-and-     *)
(* swap; a thread that finds the list empty spins, then parks on a         *)
(* condition variable, and a release signals one parked thread.            *)
(*                                                                         *)
(* A step is one atomic operation on shared memory.  A frame that has been *)
(* acquired belongs to the application, whose threads pass it around; each *)
(* acquired frame is released once.  The tag is a natural number: the wrap *)
(* of its 32 bits while a thread sleeps between a load and a swap is not   *)
(* modelled.                                                               *)
(***************************************************************************)
EXTENDS Integers, FiniteSets

CONSTANTS Threads, Size,
          MaxAcquires     \* bound: calls of acquire

ASSUME FramePoolAssumption == Size \in Nat \ {0} /\ MaxAcquires \in Nat

Frames == 0 .. Size - 1
EMPTY  == -1               \* AWP_POOL_EMPTY
Index  == Frames \cup {EMPTY}

VARIABLES
    head,        \* the packed word: an index and a tag
    next,        \* of each frame, the index below it
    closed, waiters,
    wait_mu,     \* TRUE: held by a thread that is about to sleep
    app,         \* the frames the application has
    pc,          \* what each thread does next
    old,         \* the head it has loaded
    nidx,        \* the next index it has loaded
    frame,       \* the frame it is releasing
    opc,         \* what the thread that closes and reopens does next
    acquires     \* calls of acquire so far, for the bound

shared == <<head, next>>
park   == <<closed, waiters, wait_mu>>
local  == <<old, nidx, frame>>
vars   == <<shared, park, app, pc, local, opc, acquires>>

Goto(t, l) == pc' = [pc EXCEPT ![t] = l]

(* A value that will not be used again is forgotten. *)
NoWord     == [idx |-> EMPTY, tag |-> 0]
ForgetHead(t) == old' = [old EXCEPT ![t] = NoWord] /\ nidx' = [nidx EXCEPT ![t] = EMPTY]

(* The frames that are not on the free list. *)
Releasing(t) == pc[t] \in {"rload", "rnext", "rcas"}
Out  == app \cup {f \in Frames : \E t \in Threads : Releasing(t) /\ frame[t] = f}
Free == Frames \ Out

Init ==
    /\ head = [idx |-> 0, tag |-> 0]
    /\ next = [f \in Frames |-> IF f + 1 < Size THEN f + 1 ELSE EMPTY]
    /\ closed = FALSE /\ waiters = 0 /\ wait_mu = FALSE
    /\ app = {}
    /\ pc = [t \in Threads |-> "idle"]
    /\ old = [t \in Threads |-> NoWord]
    /\ nidx = [t \in Threads |-> EMPTY]
    /\ frame = [t \in Threads |-> EMPTY]
    /\ opc = "idle"
    /\ acquires = 0

(***************************************************************************)
(* awp_frame_pool_acquire.                                                 *)
(***************************************************************************)
AcquireCall(t) ==
    /\ pc[t] = "idle"
    /\ acquires < MaxAcquires
    /\ acquires' = acquires + 1
    /\ Goto(t, "aload")
    /\ UNCHANGED <<shared, park, app, local, opc>>

AcquireLoad(t) ==
    /\ pc[t] = "aload"
    /\ old' = [old EXCEPT ![t] = IF head.idx = EMPTY THEN NoWord ELSE head]
    /\ Goto(t, IF head.idx = EMPTY THEN "aempty" ELSE "anext")
    /\ UNCHANGED <<shared, park, app, nidx, frame, opc, acquires>>

AcquireNext(t) ==
    /\ pc[t] = "anext"
    /\ nidx' = [nidx EXCEPT ![t] = next[old[t].idx]]
    /\ Goto(t, "acas")
    /\ UNCHANGED <<shared, park, app, old, frame, opc, acquires>>

(* Variant: the tag does not take part in the comparison. *)
AcquireCasIndexOnly(t) ==
    /\ pc[t] = "acas"
    /\ head.idx = old[t].idx
    /\ head' = [idx |-> nidx[t], tag |-> head.tag + 1]
    /\ app' = app \cup {old[t].idx}
    /\ Goto(t, "idle")
    /\ ForgetHead(t)
    /\ UNCHANGED <<next, park, frame, opc, acquires>>

AcquireCas(t) ==
    /\ pc[t] = "acas"
    /\ head = old[t]
    /\ head' = [idx |-> nidx[t], tag |-> head.tag + 1]
    /\ app' = app \cup {old[t].idx}
    /\ Goto(t, "idle")
    /\ ForgetHead(t)
    /\ UNCHANGED <<next, park, frame, opc, acquires>>

(* The head has changed, or the weak compare-and-swap fails without cause. *)
CasFails(t) ==
    /\ pc[t] \in {"acas", "rcas"}
    /\ Goto(t, IF pc[t] = "acas" THEN "aload" ELSE "rload")
    /\ ForgetHead(t)
    /\ UNCHANGED <<shared, park, app, frame, opc, acquires>>

(* The list was empty: give up if the pool is closed, spin, or park. *)
AcquireEmpty(t) ==
    /\ pc[t] = "aempty"
    /\ \/ closed /\ Goto(t, "idle") /\ UNCHANGED waiters
       \/ ~closed /\ Goto(t, "aload") /\ UNCHANGED waiters
       \/ ~closed /\ Goto(t, "lock") /\ waiters' = waiters + 1
    /\ UNCHANGED <<shared, closed, wait_mu, app, local, opc, acquires>>

(* Lock the mutex, at first and when cond_wait returns, and test closed. *)
Lock(t) ==
    /\ pc[t] = "lock"
    /\ ~wait_mu
    /\ wait_mu' = ~closed
    /\ Goto(t, IF closed THEN "unpark" ELSE "test")
    /\ UNCHANGED <<shared, closed, waiters, app, local, opc, acquires>>

TestHead(t) ==
    /\ pc[t] = "test"
    /\ wait_mu' = (head.idx = EMPTY)
    /\ Goto(t, IF head.idx = EMPTY THEN "wait" ELSE "unpark")
    /\ UNCHANGED <<shared, closed, waiters, app, local, opc, acquires>>

CondWait(t) ==
    /\ pc[t] = "wait"
    /\ wait_mu' = FALSE
    /\ Goto(t, "sleep")
    /\ UNCHANGED <<shared, closed, waiters, app, local, opc, acquires>>

SpuriousWakeup(t) ==
    /\ pc[t] = "sleep"
    /\ Goto(t, "lock")
    /\ UNCHANGED <<shared, park, app, local, opc, acquires>>

Unpark(t) ==
    /\ pc[t] = "unpark"
    /\ waiters' = waiters - 1
    /\ Goto(t, "aload")
    /\ UNCHANGED <<shared, closed, wait_mu, app, local, opc, acquires>>

(***************************************************************************)
(* awp_frame_pool_release, of a frame that the application gives up.       *)
(***************************************************************************)
ReleaseCall(t, f) ==
    /\ pc[t] = "idle"
    /\ f \in app
    /\ app' = app \ {f}
    /\ frame' = [frame EXCEPT ![t] = f]
    /\ Goto(t, "rload")
    /\ UNCHANGED <<shared, park, old, nidx, opc, acquires>>

(* A frame that is at the head already is not put there again. *)
ReleaseLoad(t) ==
    /\ pc[t] = "rload"
    /\ old' = [old EXCEPT ![t] = head]
    /\ Goto(t, IF head.idx = frame[t] THEN "idle" ELSE "rnext")
    /\ UNCHANGED <<shared, park, app, nidx, frame, opc, acquires>>

ReleaseNext(t) ==
    /\ pc[t] = "rnext"
    /\ next' = [next EXCEPT ![frame[t]] = old[t].idx]
    /\ Goto(t, "rcas")
    /\ UNCHANGED <<head, park, app, local, opc, acquires>>

(* Variant: the head is replaced whether it has changed or not. *)
ReleaseCasBlind(t) ==
    /\ pc[t] = "rcas"
    /\ head' = [idx |-> frame[t], tag |-> head.tag + 1]
    /\ Goto(t, "rwaiters")
    /\ ForgetHead(t) /\ frame' = [frame EXCEPT ![t] = EMPTY]
    /\ UNCHANGED <<next, park, app, opc, acquires>>

(* Variant: nobody is signalled. *)
ReleaseCasQuiet(t) ==
    /\ pc[t] = "rcas"
    /\ head = old[t]
    /\ head' = [idx |-> frame[t], tag |-> head.tag + 1]
    /\ Goto(t, "idle")
    /\ ForgetHead(t) /\ frame' = [frame EXCEPT ![t] = EMPTY]
    /\ UNCHANGED <<next, park, app, opc, acquires>>

ReleaseCas(t) ==
    /\ pc[t] = "rcas"
    /\ head = old[t]
    /\ head' = [idx |-> frame[t], tag |-> head.tag + 1]
    /\ Goto(t, "rwaiters")
    /\ ForgetHead(t) /\ frame' = [frame EXCEPT ![t] = EMPTY]
    /\ UNCHANGED <<next, park, app, opc, acquires>>

ReleaseWaiters(t) ==
    /\ pc[t] = "rwaiters"
    /\ Goto(t, IF waiters > 0 THEN "rsignal" ELSE "idle")
    /\ UNCHANGED <<shared, park, app, local, opc, acquires>>

(* Under the mutex: one of the threads in cond_wait wakes, if there is one. *)
Sleepers == {t \in Threads : pc[t] = "sleep"}

Signal(t) ==
    /\ pc[t] = "rsignal"
    /\ ~wait_mu
    /\ \/ Sleepers = {} /\ Goto(t, "idle")
       \/ \E u \in Sleepers : pc' = [pc EXCEPT ![t] = "idle", ![u] = "lock"]
    /\ UNCHANGED <<shared, park, app, local, opc, acquires>>

(***************************************************************************)
(* awp_frame_pool_close and awp_frame_pool_reopen.                         *)
(***************************************************************************)
SetClosed ==
    /\ opc = "idle"
    /\ closed' = ~closed
    /\ opc' = "broadcast"
    /\ UNCHANGED <<shared, waiters, wait_mu, app, pc, local, acquires>>

(* Variant: one sleeper is woken, not all. *)
BroadcastOne ==
    /\ opc = "broadcast"
    /\ ~wait_mu
    /\ \/ Sleepers = {} /\ pc' = pc
       \/ \E u \in Sleepers : Goto(u, "lock")
    /\ opc' = "idle"
    /\ UNCHANGED <<shared, park, app, local, acquires>>

Broadcast ==
    /\ opc = "broadcast"
    /\ ~wait_mu
    /\ pc' = [t \in Threads |-> IF pc[t] = "sleep" THEN "lock" ELSE pc[t]]
    /\ opc' = "idle"
    /\ UNCHANGED <<shared, park, app, local, acquires>>

(***************************************************************************)
(* The specification.                                                      *)
(***************************************************************************)
PoolStep(t) ==
    \/ AcquireLoad(t) \/ AcquireNext(t) \/ AcquireCas(t) \/ CasFails(t) \/ AcquireEmpty(t)
    \/ Lock(t) \/ TestHead(t) \/ CondWait(t) \/ Unpark(t)
    \/ ReleaseLoad(t) \/ ReleaseNext(t) \/ ReleaseCas(t) \/ ReleaseWaiters(t) \/ Signal(t)

Next ==
    \/ \E t \in Threads : AcquireCall(t) \/ PoolStep(t) \/ SpuriousWakeup(t)
    \/ \E t \in Threads, f \in Frames : ReleaseCall(t, f)
    \/ SetClosed \/ Broadcast

Spec == Init /\ [][Next]_vars

(* Threads inside the pool go on; a frame need not be released, and a weak *)
(* compare-and-swap may fail for ever.                                     *)
Fairness == (\A t \in Threads : WF_vars(PoolStep(t))) /\ WF_vars(Broadcast)

FairSpec == Spec /\ Fairness

(***************************************************************************)
(* Properties.                                                             *)
(***************************************************************************)

(* Every variable has its type. *)
Word == [idx : Index, tag : Nat]
PC   == {"idle", "aload", "anext", "acas", "aempty", "lock", "test", "wait", "sleep", "unpark",
         "rload", "rnext", "rcas", "rwaiters", "rsignal"}

TypeOK ==
    /\ head \in Word /\ next \in [Frames -> Index]
    /\ closed \in BOOLEAN /\ waiters \in Int /\ wait_mu \in BOOLEAN
    /\ app \subseteq Frames
    /\ pc \in [Threads -> PC]
    /\ old \in [Threads -> Word] /\ nidx \in [Threads -> Index] /\ frame \in [Threads -> Index]
    /\ opc \in {"idle", "broadcast"} /\ acquires \in Nat

(* A frame has one owner: what acquire is about to hand out (the head of   *)
(* the list) nobody has, no two threads release one frame, and none        *)
(* releases a frame that the application still has.  A double release is   *)
(* never reported.                                                         *)
OneOwner ==
    /\ head.idx \notin Out
    /\ \A t \in Threads : Releasing(t) =>
          /\ frame[t] \notin app
          /\ \A u \in Threads \ {t} : Releasing(u) => frame[u] # frame[t]

(* The list that starts at head, walked along next. *)
Walk == CHOOSE w \in [0 .. Size -> Index] :
            /\ w[0] = head.idx
            /\ \A n \in 1 .. Size : w[n] = IF w[n - 1] = EMPTY THEN EMPTY ELSE next[w[n - 1]]
FreeList == [n \in 1 .. Cardinality({m \in 0 .. Size - 1 : Walk[m] # EMPTY}) |-> Walk[n - 1]]

Stack == INSTANCE FrameStack WITH stack <- FreeList, out <- Out

(* The compare-and-swap list is a stack of the free frames: no frame is    *)
(* lost or found twice although next is read before head is swapped.       *)
IsStack == Stack!StackSpec

(* No wakeup is lost: a thread that sleeps while there is a free frame     *)
(* wakes up, or another one takes the frame or is about to; a release      *)
(* signals only one thread, and only when it sees waiters.                 *)
SleeperServed ==
    \A t \in Threads : (pc[t] = "sleep" /\ head.idx # EMPTY)
        ~> \/ pc[t] # "sleep" \/ head.idx = EMPTY
           \/ \E u \in Threads : pc[u] = "acas" /\ old[u] = head

(* Close ends every wait, unless the pool is opened again. *)
CloseEndsWaits == closed ~> (~closed \/ Sleepers = {})

(***************************************************************************)
(* The inductive invariant behind OneOwner.                                *)
(***************************************************************************)

(* A free frame points to a free frame, no two to the same, none to the head. *)
Linked ==
    /\ head.idx \in Free \cup {EMPTY}
    /\ \A f \in Free :
          /\ next[f] \in Free \cup {EMPTY}
          /\ next[f] # EMPTY => /\ next[f] # head.idx
                                /\ \A g \in Free : next[g] = next[f] => g = f

(* A head that still has the tag that was loaded has not changed since, and *)
(* neither has next of the frame there.                                     *)
TagFresh ==
    \A t \in Threads :
        /\ pc[t] \in {"anext", "acas", "rnext", "rcas"} =>
              old[t].tag <= head.tag /\ (old[t].tag = head.tag => old[t] = head)
        /\ pc[t] \in {"anext", "acas"} => old[t].idx # EMPTY
        /\ pc[t] = "acas" /\ old[t] = head => nidx[t] = next[head.idx]
        /\ Releasing(t) => frame[t] \in Frames
        /\ pc[t] = "rcas" => next[frame[t]] = old[t].idx

ListInv == TypeOK /\ OneOwner /\ Linked /\ TagFresh

=============================================================================
