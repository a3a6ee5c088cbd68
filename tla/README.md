# Verification of async-worker-pool

TLA+ models of the async worker pool (`src/`), the TLC runs that check them on
small instances and TLAPS proofs that hold for every instance. Source paths
below are relative to the repository, so `src/ring.c` is the ring's source file.

## 1. The system and its parts

The library is a pool of worker threads. A producer submits a *frame* (feed,
symbol, payload); a hash of feed and symbol picks a *shard*, which is a worker
with a bounded ring; the worker pops frames in order and calls the application's
`process()`. A full ring blocks the producer (backpressure), it never drops.
Shutdown is bounded by a deadline: whoever has not finished by then is
*quarantined*, and destroy leaks the pool instead of freeing it under a live
thread.

| Part | State | Operations | Talks to | What is hard | What makes it correct |
|---|---|---|---|---|---|
| Ring (`ring.c`) | `enqueue_pos`, `dequeue_pos`, `cells[i].sequence/data`, `closed`, `waiters`, mutex and condition variable | push, try_push, pop, wait_space, wait_data, close, reopen, depth | producers, worker, shutdown, supervisor | lock-free claims with stale positions, close racing push, park and wakeup | FIFO, no two threads in a cell, no lost frame, no lost wakeup |
| Admission (`pool.c`) | `api_refs`, `active_submits`, `submitted`, `dropped` | submit, claim, commit, submit_keyed | ring, lifecycle flags | registration against shutdown, claims held for ever | nothing enters a ring that has been drained; counters exact; no drops |
| Worker (`worker.c`) | `state`, `stop`, `joined`, `processed`, the box of a join helper | main loop, start, join by deadline | ring, pool flags | stuck in `process()`; a late worker overwrites its state; the join gives up while its helper finishes | joined means ended; one consumer per ring; the box is freed once |
| Lifecycle (`pool.c`) | `lifecycle`, `quarantined`, `shutdown_aborts`, `shutdown_waiters` | shutdown | everything | many callers, deadline at any moment, sticky quarantine | returns in time; clean means joined and drained; late is reported |
| Destroy (`pool.c`) | `destroy_started`, the pool's memory | destroy, destroy from a callback | shutdown, `api_refs` | who may still use the pool | freed only when unused; comes to an end |
| Create (`pool.c`) | the whole pool | create, rollback | workers, supervisor | a thread fails to start | all or nothing, or a leak; comes to an end |
| Supervisor (`supervisor.c`) | `supervisor_phase/alive/joined/stop` | stall detection, quarantine, restart with reopen | worker state, ring, shutdown | restart racing shutdown, stale samples | a restart happens beside no live worker; a restarted ring is not left open after shutdown; no worker and no parked producer is forgotten |
| Frame pool (`frame_pool.c`) | tagged head, `next[]`, `waiters` | acquire, release, close, reopen | formerly submit; now only close and release of foreign frames | ABA, one signal for many waiters | each frame held once, no lost wakeup |
| Arena (`arena.c`) | chunk list, offset | alloc, calloc, reset, destroy | application | alignment and 32-bit limits | blocks are disjoint and inside their chunk |
| Shard (`shard.c`) | none | hash, shard_of | submit | modulo with broadcast workers | in range, stable |
| Metrics, configuration | counters | get_metrics, drops, config_init | all | none | reads only |
| Rust binding (`bindings/rust`) | none of its own | wrappers, `ClaimGuard` | C interface | a dropped guard is an uncommitted claim | see claims |

Tests, benchmarks, examples and scripts are clients of the library.

## 2. Modules

| Module | Contents |
|---|---|
| `BoundedFifo` | What a ring promises: positions are reserved, published and taken in order; at most `Capacity` are in use. |
| `Ring` | `ring.c` in all four modes. |
| `RingProofs`, `RingFifoProofs` | The inductive invariant of the ring, the absence of cell races, the count of waiters, the drain of a closed ring; `Ring` implements `BoundedFifo`. Proved. |
| `Pool` | Admission, workers, shutdown and destroy (`pool.c`, `worker.c`) over rings that behave as `Ring` is shown to. |
| `PoolProofs` | Every safety property of `Pool` that a run checks. Proved. |
| `Supervisor` | Extends `Pool` by create with its rollback, the supervisor thread (`supervisor.c`) and the part of shutdown that waits for it. |
| `SupervisorProofs` | Every safety property of `Supervisor` that a run checks. Proved, with the invariant and the step lemmas of `PoolProofs`. |
| `JoinBox`, `JoinBoxProofs` | `awp_pthread_join_deadline` and its helper thread. Checked and proved. |
| `FrameStack` | What a free list promises: a stack of the free frames. |
| `FramePool`, `FramePoolProofs` | `frame_pool.c`; one owner per frame, implements `FrameStack`. Proved. |
| `Arena`, `ArenaProofs` | `arena.c`: blocks in bounds, disjoint and aligned. Proved. |
| `Shard` | Shard selection as operators, with two theorems. |
| `MCRing`, `MCPool`, `MCSupervisor`, `MCFramePool`, `MCJoinBox` | What TLC needs: symmetry, where it is used, and a bound on the calls beside two callers of shutdown. |

`Pool` rests on three of the others: its rings are those of `BoundedFifo`, its
deadline joins have the outcomes of `JoinBox` (0 only when the thread has ended,
late only after the deadline), and `Supervisor` runs the actions of `Pool` beside
its own.

### Ring and the code

Variables carry the C names. `pc` is the program counter of a thread; `pos`,
`frame` and `trying` are its local variables (`trying` tells `try_push` from
`push`). One action is one atomic operation: for a push `PushClosed` (load
`closed`), `PushPos`, `PushSeq` (load the sequence and branch on `dif`),
`PushClaim` or `PushClaimFails` (the weak compare-and-swap of `push_mp`, which
may fail for no reason), `PushData`, `PushPublish`, and `PushEnq` (the plain
store of `push_sp`, which comes after the publication). `pop_sc` and `pop_mc`
are treated alike. `WaitEnter` to `WaitLeave` are `wait_space` for a producer
and `wait_data` for a consumer, including the two separate loads of
`awp_ring_depth`; `Wake` is `wake_if_needed`; `Close` and `Reopen` store the
flag and `WakeAll` broadcasts. The spin budget is abstracted: where the code
spins 64 times and then parks, the model may do either at any time. The ghosts
are `log` (the frames in the order of their positions), `quiet` (the ring was
closed with no push in progress) and the call bound `calls`.

The contracts of the header are guards: one push at a time in a single-producer
mode, one pop at a time in a single-consumer mode, and reopen only when the
consumers have returned (the supervisor joins the worker first).

### Pool and the code

`spc`, `wpc` and `cpc` are the program counters of submitters, workers and
callers of shutdown. The ring of each worker is reduced to `enqueue_pos`,
`dequeue_pos`, the published positions `ready`, the storage `store` (each slot
holds the position whose frame was written there last) and `closed`; taking and
releasing a cell is one step, as in `BoundedFifo`. Reading `lifecycle`,
`quarantined` and `destroy_started` is one step: each leaves its admitting value
once and for ever, so the three loads are equivalent to one at the time of the
first (if all admit) or of the one that refuses. Writing the frame and
publishing it is one step. The deadline is the flag `expired`, which may be
raised at any time between QUIESCING and STOPPED. Of `shutdown_aborts` only zero
or non-zero is kept. Actions that stand for several lines say so in a comment.
`process()` may return or not; with `CallbackDestroys` it may call destroy. The
contract of `awp.h` for destroy (one owner, every producer and every other
caller of shutdown joined before) is the guard `OthersDone`; a producer may have
ended with an uncommitted claim. `EnableSupervisor` is `cfg.enable_supervisor`:
the runs of `MCPool` set it to `FALSE` and start from a pool whose workers have
been started.

### Supervisor and the code

`EnableSupervisor = TRUE`. The owner starts in `awp_pool_create`: `CreateWorker`
and `CreateSupervisor` start the threads one by one and any of them may fail,
after which `Rollback` to its end stops, closes, joins and frees, or leaks when
a join fails. `Published` says that the handle has been handed out. `upc` and
`uidx` are the supervisor's program counter and the worker it looks at. A turn
samples state and depth, requests the stop of a worker that seems stalled,
grants it the grace period, and then withdraws the request or closes the ring
and marks worker and pool quarantined; a worker that has exited is joined,
restarted, its ring reopened, and closed again if the lifecycle has changed in
between. Of `last_progress_ns` the flag `progress` keeps whether it has moved
since it was sampled. Time is abstract: a stall may be seen whenever frames
wait, and the grace period may end at any moment, so the model covers every
setting of the thresholds and every delay of the threads. `enable_restart = 1`.
Shutdown's wait for the supervisor, its deadline join and the decision whether
the shutdown may close the rings itself are `supwait`, `supjoin` and `suphelper`
of `cpc`.

### The smaller components and the code

`JoinBox`: a join allocates a box, starts a helper that calls `pthread_join`, and
polls the box under its mutex until the helper is done or the deadline has
passed; whoever leaves last frees it. `FramePool`: one action per atomic
operation on the packed head (index and tag), `next[]`, `closed` and `waiters`;
a compare-and-swap may fail spuriously, a sleeper may wake spuriously, and the
application hands acquired frames from thread to thread. `Arena`: an action is a
whole call (one thread); malloc may fail or return any address. `Padding` rounds
with the code's mask, `x & ~(alignment - 1)`, whose AND (`BitAnd`) is spelled out for
the six bits of an alignment up to 64; an alignment of 0 is the request for 8 that the
code makes of it. `Shard`: the hash
is an arbitrary function of feed and symbol, so the theorems hold for FNV-1a too.

## 3. Runs

| Run | Instance | Shows |
|---|---|---|
| `MCRing` | 2 producers, 2 consumers, 1 owner, 2 cells, 3 pushes; SPSC, MPSC, SPMC | `RingInv`, `NoSlotRace`, `WaitersCounted`, `DrainComplete`, implements `BoundedFifo` |
| `MCRingLive` | 1 producer, 1 consumer, 1 owner that closes and reopens, 4 pushes; SPSC, MPMC | every push returns, every frame is taken, close ends every pop |
| `MCPool` | 2 submitters, 2 callers, 1 worker, 2 cells, 3 submits, destroy from callbacks | clean means joined for both callers, no frame lost, no drop, no use after free, one consumer, counters exact, admission ends |
| `MCPoolClaims` | 1 submitter, 1 caller, 4 calls of claim, keyed and plain submit, or 2 callers and 1 claim; fair | shutdown (the caller that waits for the other included), destroy and parked submits return although a claim is never committed and `process()` never returns; safe nevertheless |
| `MCSupervisor` | 2 workers, 1 submitter, 1 caller, 1 submit | one consumer per ring, a restart beside no live worker, rings closed again, no worker forgotten, clean means joined, no use after free |
| `MCServing` | 1 worker, 4 submits, nobody shuts down; fair | an exited worker is replaced, a parked producer wakes, create ends |
| `MCFramePool` | 3 threads, 2 frames, 4 acquires; fair | one owner per frame, `ListInv`, implements `FrameStack`, no lost signal, close ends the waits |
| `MCJoinBox` | 2 joins under one deadline; fair | the box is used and freed safely, the result is true, the box is reclaimed |
| `MCPoolFrame` | expected violation | a frame is overwritten during `process()` |
| `MCPoolKeyed` | expected violation | `awp_submit_keyed` never returns once a shutdown has begun |
| `MCPoolClaimLost` | expected violation | a clean shutdown overtakes a claim |
| `MCSupervisorDrain` | expected violation | a worker that was told to stop leaves its ring undrained, and shutdown returns 0 |

Bounds. Two cells are the smallest ring the code builds (`awp_round_up_pow2`),
three pushes go once round it, so a cell is published, taken, released and
reused, with stale positions in two other threads. In the pool three submits
fill the ring while a worker holds one frame; the fourth (in `MCPoolClaims` and
`MCServing`) is the one that parks for good when `process()` is stuck. Two
workers in `MCSupervisor` make the loops of create, rollback, shutdown and the
supervisor meet a worker in front of them and one behind; one submit is enough to
make a worker look stalled. The frame pool needs a third thread for a head that
is taken and put back between another thread's load and swap (ABA), two frames for the
head to have a successor, and four acquires for a frame to go round twice. Joins
are independent but for the deadline. `JointSpec` of `MCPool` is `FairSpec` with the bounds
`JointCalls` and `JointApis`: the four calls of `MCPoolClaims` are made beside one caller
of shutdown, and a second caller comes in only where a single claim, made after its
call began, is all the traffic. `MCPool` has two callers beside everything else. With two producers and two consumers the MPMC mode is left to the
proofs, where the number of threads is arbitrary. Deadlock checking is off: an
idle pool, a destroyed pool, a sleeper on an empty free list whose frames nobody
returns and a consumer that found its ring closed stop rightly, and so does
everybody once the call bound is used up.

Fairness. A thread that can take a step of the library eventually does (weak
fairness per thread: the operating system schedules it) and time passes
(`Expire`). Strong fairness is assumed in four places: in `Ring` a mutex that is free
again and again is obtained, and a compare-and-swap that could succeed again and
again does not fail for ever; in `JoinBox` the helper gets the mutex that the
caller only holds while it polls; in `MCServing` a worker that never gets on
while frames wait is found stalled (its threshold passes), and `pthread_join` of
an ended thread does not fail for ever. `FramePool` assumes weak fairness only: a
compare-and-swap may fail for ever and a frame need not be released. Nobody is
assumed to submit, commit a claim, close, shut down, destroy or return from
`process()`.

### What the violations say

`MCPoolFrame`: `awp_ring_pop` releases the cell before the worker calls
`process()`, and the frame lies in the ring's own storage, so later submits to
the same shard overwrite it. `MCPoolKeyed`: the retry loop ends only on `-1`,
but a pool that is not running answers `-EINVAL`. `MCPoolClaimLost`:
`awp_claim_frame` registers in `active_submits` after the admission test and the
reservation, the order `awp_submit` avoids. `MCSupervisorDrain`: a worker leaves its
loop when `stop` is set and its ring is empty at that moment (`worker.c`, line
30); the supervisor sets `stop` on a worker it takes for stalled (`supervisor.c`,
line 122) while the ring is open. A frame accepted after the worker's exit
waits for the restart, and when a shutdown comes first the residual drain counts
it as abandoned (`pool.c`, lines 727 to 731) and shutdown returns 0; if the
deadline passes between the join and that drain it is not counted either.
`PROJECT.json` quotes the sentences that say otherwise.

### Observations that are not runs

- Shutdown reads `active_submits` a second time after its wait loop (`pool.c`,
  line 653), and a submit that is about to be rejected counts: a shutdown may
  give up and quarantine the pool before its deadline.
- Shutdown reads `shutdown_aborts` and `quarantined` after it has published
  STOPPED, contrary to the comment in `pool.c` (line 752); only the destroy contract
  makes this harmless.
- `awp_pool_mark_quarantined` wakes the waiters of the frame pool, where submits no
  longer wait, not those of the rings.
- The supervisor closes the ring of a condemned worker before it marks the
  quarantine; a submit in between is counted as a drop. `NoDrops` is
  therefore a property of pools without a supervisor.
- A condemned worker that comes back from `process()` after all overwrites
  QUARANTINED by EXITED and is restarted, in a pool that stays quarantined.
- A restart whose thread cannot be created ends the supervision of all workers,
  hence the escape `supervisor_stop` in `ExitedReplaced` and `ParkedWakes`.
- `awp_submit_keyed` sends the frames of broadcast feeds to the workers of the other
  feeds (`KeyedAgrees` states when the two calls agree).
- `awp_arena_alloc` tests no alignment. For one that is no power of two (24, say) the
  mask gives an address that is no multiple of it: the block is in bounds and disjoint
  from the others all the same, and `Aligned` does not speak of it.
- Shutdown loads `state` twice where it decides whether to overwrite it (`pool.c`, lines
  739 and 740) and may pass over a worker that starts in between; `CloseRing` tests it in
  one step. The pool is quarantined there in either case.
- `awp_round_up_pow2` answers 0 above `AWP_RING_CAP_MAX` (2^24), so the arena makes a chunk of
  capacity 0 for larger sizes. The chunk dedicated to a large
  block is cut without a second test and may reach into the spare cache line.
  After a reset only the newest chunk is used again.

## 4. Proofs

Proved with TLAPS for every value of the constants: every invariant, action property
and refinement that a passing run checks. `PROJECT.json` lists the theorems.

**Ring**, from `RingAssumption` alone (a finite set of threads with at least one
consumer, a capacity of at least 2, any subset of the modes, any number of calls):

- `TypeCorrect`: `Spec => []TypeOK`.
- `RingCorrect`: `Spec => [](TypeOK /\ RingInv)`.
- `NoRace`: `Spec => []NoSlotRace`.
- `WaitersExact`: `Spec => []WaitersCounted`.
- `Drained`: `Spec => []DrainComplete`.
- `ImplementsFifo`: `Spec => IsFifo`, step simulation under the refinement mapping
  `ready <- Published`, `head <- dequeue_pos`, `holding <- HeldBy`.

`NoSlotRace` is not inductive: that two owners have different cells follows from
what the sequences say. `RingInv` divides the positions into taken (below
`dequeue_pos`), reserved or published (up to `Len(log)`) and free or still being
released (up to `dequeue_pos + Capacity`); `CellInv` says which sequence number
and which datum the cell of each has, or who owns it; `PushInv` and `PopInv` say
what a thread between its load and its claim may rely on, and that an owner's
position is its own; `WindowInv` bounds the positions and covers the moment in
which a single producer has published and not yet stored `enqueue_pos`;
`SingleInv` carries the single-producer and single-consumer contracts. The
arithmetic that two different positions less than `Capacity` apart have
different cells is a lemma. The refinement reuses the
invariant and shows that `PushClaim` is a `Reserve` (multi-producer) or
`PushPublish` an `Insert` (single producer), `PushPublish` a `Publish`,
`PopClaim` a `Take` and `Wake` a `Return`; everything else is a stutter.

`WaitersCounted` is inductive beside the types; what its proof needs is how the size of
a finite set changes when one thread moves. `DrainComplete` is not inductive, for a
consumer may give up with a stale position while frames are left. `DrainInv` finds
the reason why another one will not: while the ring is open nobody gives up
(`OpenInv`), after a quiet close nobody pushes (`QuietInv`), and as long as a frame is
left some consumer has not given up and has either no position yet or the position
of that frame (`FreshInv`), since the consumer that takes a position is itself the one
that has still to look at the next. With `RingInv` the frame is published then, so
that consumer's second look at the sequence finds it. An empty set of consumers
satisfies the premise of `DrainComplete` and not its conclusion, hence `Consumers # {}`:
create starts at least one worker.

**Pool**, from `PoolAssumption` (any number of workers from 1, rings of at least 2
cells, finite sets of submitters and callers with the owner among the callers, any
of the three calls, destroy from callbacks or not, any number of calls):
`PoolTypeCorrect`, `PoolRefsCounted`, `PoolNoUseAfterFree`, `PoolSingleConsumer`,
`PoolCleanMeansJoined`, `PoolNoDrops`; and, for pools that are used through
`awp_submit` alone, `PoolAdmissionEnds` and `PoolNoFrameLost`. That hypothesis is the
code's: `MCPoolClaimLost` shows that a claim which has passed the
admission test is not waited for.

None of these is inductive. The invariant is a conjunction of parts:

- `Counted`: `active_submits`, `api_refs` and `shutdown_waiters` are the sizes of
  sets of threads. Without it a decrement could leave the naturals, and shutdown could
  go on, or destroy free, with somebody inside.
- `DriverInv`: one caller at most is between the winning compare-and-swap and
  STOPPED, and `lifecycle` says in which phase. Every other part that speaks of `widx` or
  `can_close`, which belong to that caller, needs it.
- `EndedInv`, `JoinInv`: a worker that is joined has ended; at each step of the join
  loop the worker at hand has ended, or the deadline has passed, or it is written off.
- `CleanInv`: unless the pool is quarantined, the workers below `widx` are joined, all of
  them at the end, and each way to give up on one raises the quarantine first.
- `DestroyInv`, `GoneInv`: when destroy has begun the others are outside and, as the
  destroy contract says, do not come back; who finds the references at zero may free.
- `FifoInv`, `FrameInv`: each reserved position of a ring is published or pending with
  exactly one submitter; the frames taken are those processed, being processed and
  abandoned, and those accepted are `submitted` and the ones about to be counted,
  stated with sizes of sets of (worker, position) pairs.
- `ApiInv`, `AdmissionInv`: which call is at which label; once draining has begun without
  quarantine no `awp_submit` is between its admission and its count, because it
  registered before it looked at `lifecycle` and shutdown has seen the count at zero.
- `ExitInv` (for `PoolNoFrameLost`): a worker that is not written off leaves its loop only
  when its ring is closed and empty. `stop` is set only for a worker that is
  written off here; under the supervisor it is not, which is what `MCSupervisorDrain` finds.

**Supervisor**, from `PoolAssumption` and `SupervisorAssumption` (supervision is on):
`SupTypeCorrect`, `SupNoUseAfterFreed`, `SupRestartAlone`, `SupSingleConsumer`,
`SupCleanMeansJoined`, `SupRingsReclosed`, `SupNoForgottenWorker`. The parts of the pool's
invariant that stay true beside a supervisor (`SharedInv`) are taken over: a step of
the pool's own threads preserves them by the lemmas of `PoolProofs`, and frame lemmas
say what create, the supervisor and its part of shutdown leave alone. Four parts
are added:

- `CreateInv`: before the handle is published only the owner and the workers run, and workers
  not yet started, or rolled back, count as joined; so rollback frees a pool that nobody is in.
- `WatchInv` (`BegunInv`, `AtInv`, `AwayInv`): the worker that a restart is about has been
  joined or has ended, one that is condemned has begun; and the supervisor has ended
  when shutdown, having decided that it may close the rings, joins workers. The last
  is why restarts and the residual drain never meet (`RestartAlone`, `SingleConsumer`).
- `ShutInv`: shutdown's loop leaves behind it only rings that are closed, except the one the
  supervisor has reopened and is about to test again.
- `NoForgottenWorker` is inductive together with these: the supervisor overwrites `state`
  with values derived from an old sample, and each such store leaves the worker EXITED,
  its ring closed, or itself still busy with that worker.

**Frame pool**, from `FramePoolAssumption` (at least one frame): `ListInvariant`,
`FramesExclusive` and `ImplementsStack`. That a frame has one owner is not inductive, for acquire
takes `next` as loaded some time before the swap. `Linked` says that the links of
the free frames are injective, stay among the free frames and never lead back to
the head; `TagFresh` says that a thread whose loaded tag is the present one has
loaded the present head and, after it, the present successor: this is what the
tag is for. `ListInv` does not say that the head reaches every free frame. `ChainInv`
does: there is a sequence of all free frames, each once, that starts at the
head and follows `next` to EMPTY (`IsList`). The refinement maps the stack to the list
that the model computes by walking along `next`, and `ListFound` shows that the walk
exists, is unique and is that sequence. These facts about every length are proved by taking
the least index at which they fail (`Smallest`, from the well-foundedness of the
naturals), since the induction theorems of the library are not usable with the
installed provers.

**Join box**, without assumptions: `BoxInvariant`, `BoxNeverUsedAfterFree` and
`JoinHonest`. `MutexHeld` says who is inside the mutex, `Handoff` that `released`
and `done` name exactly one thread that will free.

**Arena**, under `Servable` (sizes and chunk sizes up to `AWP_RING_CAP_MAX`, any
alignment up to the cache line, itself at most 64): `ArenaInvariant`, `BlocksApart` and
`BlocksAligned`. The invariant adds to bounds, disjointness and alignment that every
block lies below the offset of its chunk. Two facts about the mask carry the proof. The
bits it takes away are bits of `alignment - 1` (`BitAndBounds`), so the padding is
smaller than the alignment whatever the alignment is, hence smaller than the spare
cache line, which the dedicated chunk needs. And for a power of two they are the
remainder (`BitAndPower`), so the address is a multiple (`PaddingAligns`).

**Shard**, under `ShardConfig` (what create accepts): `LanesSeparate` (the shard
exists, and broadcast frames share no worker with others) and `KeyedAgrees`.

Every proof that a step preserves an invariant has one part per action and,
under it, one per conjunct the action can disturb.

Only model-checked:

- Liveness, which is out of the prover's reach: `PushReturns`, `FramesTaken`, `CloseEndsPops`;
  `SubmitReturns`, `ShutdownReturns`, `DestroyEnds`; `ParkedWakes`, `ExitedReplaced`,
  `CreateEnds`; `SleeperServed`, `CloseEndsWaits`; `BoxReclaimed`.
- The properties that the code violates (`FrameStable`, `KeyedReturns`, `CleanDrain`, and
  `NoFrameLost` with claims): the runs give the counterexamples.

That a worker of `Pool` works on a `Ring`, and that its joins end as those of `JoinBox`
do, is the construction of `Pool` and not a theorem: `Pool` takes a ring at the grain of
`BoundedFifo`, which `ImplementsFifo` justifies for one ring at a time.

## 5. Not modelled

- Metrics (reads of counters), configuration and the runtime gate (constants and an
  environment variable), the Rust binding (wrappers; a dropped `ClaimGuard` is
  the uncommitted claim of `Pool`), tests, benchmarks and examples.
- Weak memory. The models are sequentially consistent, while the park protocol of
  the ring uses release and acquire operations only (`ring.c`, line 33). With store
  buffers the plain stores of `enqueue_pos` in `push_sp` and of `dequeue_pos` in `pop_sc`
  may pass the load of `waiters`, and nothing here excludes a lost wakeup then; `pop_sc`
  is what every worker of a pool uses.
- Wrap-around of 64-bit positions and of the 32-bit tag of the frame pool, and
  overflow of `size_t` in the arena.
- The bits of FNV-1a, and the registration of `awp_shard_of` in `api_refs`, which is
  the same pair of steps as in every other call.
- The failures of create before the first thread exists: nobody else is there.
- `enable_restart = 0`, in which the supervisor takes fewer of the modelled steps.

## 6. Plan

Done: the ring; admission, workers, shutdown and destroy; the supervisor, create
and rollback; the frame pool, the join box, the arena and shard selection, all
with their proofs.

1. Further facts of the pool beside a supervisor, which `SharedInv` already carries:
   `RefsCounted`, and what the counters say of the frames when the rings are reopened.
2. Action properties: `lifecycle` never goes back, and a quarantine is never lifted while a
   restart is under way.
3. The park protocol of the ring with store buffers.
