-------------------------------- MODULE Arena --------------------------------
(***************************************************************************)
(* The bump allocator of src/src/arena.c, used by one thread.  A chunk     *)
(* holds capacity bytes and one cache line more behind its header; blocks  *)
(* are cut from the newest chunk.  Where malloc puts a chunk is arbitrary; *)
(* that two chunks do not overlap is malloc's.  size_t does not overflow.  *)
(***************************************************************************)
EXTENDS Integers, Sequences

CONSTANTS default_chunk_size,
          CACHELINE,      \* AWP_CACHELINE, 64
          MinChunk,       \* 64 KB
          CapMax,         \* AWP_RING_CAP_MAX, 2^24
          Word,           \* 2^32: a uint32_t counts modulo this
          Powers,         \* the powers of two from 2 to CapMax
          Addresses,      \* where the bytes of a chunk may start
          Requests,       \* the [size, alignment] pairs asked for (8 where the call says 0)
          MaxChunks       \* bound: chunks of the arena

VARIABLES
    chunks,           \* the list, oldest chunk first; a->head is the last
    total_allocated,
    blocks            \* the blocks handed out since the last reset

vars == <<chunks, total_allocated, blocks>>

awp_round_up_pow2(v) ==
    IF v < 2 THEN 2
    ELSE IF v > CapMax THEN 0
    ELSE CHOOSE p \in Powers : v <= p /\ p < 2 * v

(* The size is cut to 32 bits before it is rounded. *)
ChunkCapacity(min_capacity) ==
    LET cap == IF min_capacity < MinChunk THEN MinChunk ELSE min_capacity
    IN  awp_round_up_pow2(cap % Word)

NewChunk(min_capacity, base) ==
    [base |-> base, capacity |-> ChunkCapacity(min_capacity), offset |-> 0]

(* x & m, where m has no bit above the sixth: alignments up to 64. *)
Bit(n, p) == (n \div p) % 2
Both(x, m, p) == IF Bit(x, p) = 1 /\ Bit(m, p) = 1 THEN p ELSE 0
BitAnd(x, m) == Both(x, m, 1) + Both(x, m, 2) + Both(x, m, 4)
                  + Both(x, m, 8) + Both(x, m, 16) + Both(x, m, 32)

(* The bytes between an address and the aligned one.  The code rounds with *)
(* a mask, x & ~(alignment - 1), and tests no alignment: one that is not a *)
(* power of two is served as well, at an address of its own kind.          *)
Padding(cur, alignment) ==
    LET x == cur + alignment - 1
    IN  (x - BitAnd(x, alignment - 1)) - cur

PaddingIn(c, alignment) == Padding(c.base + c.offset, alignment)

Last(list) == list[Len(list)]

Init == chunks = <<>> /\ total_allocated = 0 /\ blocks = {}

(* The first test asks for the largest padding, the second for the real one. *)
Full(list, r) ==
    list # <<>> => Last(list).offset + r.size + r.alignment > Last(list).capacity

Fits(list, r) ==
    Last(list).offset + PaddingIn(Last(list), r.alignment) + r.size <= Last(list).capacity

Needed(r) == IF r.size > default_chunk_size THEN r.size ELSE default_chunk_size

(* The list after the first test, if malloc puts a new chunk at base. *)
Grown(r, base) ==
    IF Full(chunks, r) THEN Append(chunks, NewChunk(Needed(r), base)) ELSE chunks

(* Cut the block from the last chunk of the list, without another test. *)
Cut(list, r) ==
    LET n   == Len(list)
        at  == list[n].offset + PaddingIn(list[n], r.alignment)
    IN  /\ chunks' = [list EXCEPT ![n].offset = at + r.size]
        /\ total_allocated' = total_allocated + PaddingIn(list[n], r.alignment) + r.size
        /\ blocks' = blocks \cup
               {[chunk |-> n, at |-> at, size |-> r.size, alignment |-> r.alignment]}

(* awp_arena_alloc, and awp_arena_calloc, which then clears the block. *)
Alloc(r) ==
    /\ Len(chunks) + 2 <= MaxChunks
    /\ \E base \in Addresses :
          \/ Fits(Grown(r, base), r) /\ Cut(Grown(r, base), r)
          \/ /\ ~Fits(Grown(r, base), r)
             /\ \E dedicated \in Addresses :
                   Cut(Append(Grown(r, base), NewChunk(r.size, dedicated)), r)

(* malloc fails for the first chunk, or for the second: the first stays.   *)
(* A chunk that is not Full fits, so the second follows only a first.      *)
AllocFails(r) ==
    /\ Len(chunks) + 2 <= MaxChunks
    /\ Full(chunks, r)
    /\ \/ UNCHANGED chunks
       \/ \E base \in Addresses : ~Fits(Grown(r, base), r) /\ chunks' = Grown(r, base)
    /\ UNCHANGED <<total_allocated, blocks>>

Reset ==
    /\ chunks' = [i \in 1 .. Len(chunks) |-> [chunks[i] EXCEPT !.offset = 0]]
    /\ total_allocated' = 0
    /\ blocks' = {}

Destroy == chunks' = <<>> /\ total_allocated' = 0 /\ blocks' = {}

Next == (\E r \in Requests : Alloc(r) \/ AllocFails(r)) \/ Reset \/ Destroy

Spec == Init /\ [][Next]_vars

(***************************************************************************)
(* Properties.                                                             *)
(***************************************************************************)

(* A block lies in the memory of its chunk; the cache line behind the      *)
(* capacity counts, for the dedicated chunk is cut without a test.         *)
InBounds ==
    \A b \in blocks : b.at + b.size <= chunks[b.chunk].capacity + CACHELINE

(* No byte belongs to two blocks. *)
Disjoint ==
    \A b, c \in blocks : b # c /\ b.chunk = c.chunk =>
        b.at + b.size <= c.at \/ c.at + c.size <= b.at

(* Every block starts at a multiple of the alignment that was asked for,   *)
(* if that is a power of two: the mask of awp_arena_alloc says nothing of  *)
(* the others.                                                             *)
Alignments == {1, 2, 4, 8, 16, 32, 64}
Aligned ==
    \A b \in blocks :
        b.alignment \in Alignments => (chunks[b.chunk].base + b.at) % b.alignment = 0

(***************************************************************************)
(* The inductive invariant.                                                *)
(***************************************************************************)
Chunk == [base : Nat, capacity : Nat, offset : Nat]
Block == [chunk : Nat, at : Nat, size : Nat \ {0}, alignment : Nat \ {0}]

TypeOK ==
    /\ chunks \in Seq(Chunk)
    /\ total_allocated \in Nat
    /\ blocks \subseteq Block

(* Blocks are below the offset of their chunk. *)
Below ==
    \A b \in blocks : b.chunk \in 1 .. Len(chunks) /\ b.at + b.size <= chunks[b.chunk].offset

ArenaInv == TypeOK /\ Below /\ InBounds /\ Disjoint /\ Aligned

(* Sizes the arena can serve: no chunk above the limit of                  *)
(* awp_round_up_pow2, which answers 0 there, and no alignment above the    *)
(* cache line that a chunk has to spare; any alignment up to there.        *)
Servable ==
    /\ CACHELINE \in 1 .. 64 /\ MinChunk \in Nat /\ Word \in Nat
    /\ Powers \subseteq Nat /\ CapMax \in Nat
    /\ \A v \in 2 .. CapMax : \E p \in Powers : v <= p /\ p < 2 * v
    /\ 2 <= MinChunk /\ MinChunk <= CapMax /\ CapMax < Word
    /\ Addresses \subseteq Nat
    /\ default_chunk_size \in 1 .. CapMax
    /\ Requests \subseteq [size : 1 .. CapMax, alignment : 1 .. CACHELINE]

=============================================================================
