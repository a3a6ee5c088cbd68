----------------------------- MODULE ArenaProofs -----------------------------
(***************************************************************************)
(* Proofs about Arena, for every size that the arena can serve (Servable). *)
(***************************************************************************)
EXTENDS Arena, TLAPS

(***************************************************************************)
(* Arithmetic.                                                             *)
(***************************************************************************)
(* Division with remainder. *)
LEMMA Division ==
    ASSUME NEW n \in Nat \ {0}, NEW i \in Nat
    PROVE  /\ i \div n \in Int
           /\ i % n \in 0 .. n - 1
           /\ i = n * (i \div n) + (i % n)
  OBVIOUS

(* A multiple of n between -n and n is 0. *)
LEMMA SmallMultiple ==
    ASSUME NEW n \in Nat \ {0}, NEW k \in Int, n * k < n, 0 - n < n * k
    PROVE  k = 0
<1>1. ASSUME k >= 1 PROVE FALSE
  BY <1>1, SMTT(20)
<1>2. ASSUME k <= 0 - 1 PROVE FALSE
  BY <1>2, SMTT(20)
<1> QED BY <1>1, <1>2

(* A multiple of n leaves no remainder. *)
LEMMA Multiple ==
    ASSUME NEW n \in Nat \ {0}, NEW k \in Int, NEW i \in Nat, i = n * k
    PROVE  i % n = 0
<1> DEFINE e == i \div n  m == i % n
<1>1. e \in Int /\ m \in 0 .. n - 1 /\ i = n * e + m
  BY Division
<1> HIDE DEF e, m
<1>2. n * (k - e) = n * k - n * e
  BY <1>1, SMTT(20)
<1>3. k - e \in Int /\ n * (k - e) = m
  BY <1>1, <1>2
<1>4. k - e = 0
  BY <1>1, <1>3, SmallMultiple
<1>5. m = 0
  BY <1>3, <1>4
<1> QED BY <1>5 DEF m

(* A number below 64 is the sum of its bits. *)
LEMMA SixBits ==
    ASSUME NEW m \in 0 .. 63
    PROVE  m = Bit(m, 1) + 2 * Bit(m, 2) + 4 * Bit(m, 4) + 8 * Bit(m, 8)
                 + 16 * Bit(m, 16) + 32 * Bit(m, 32)
  BY DEF Bit

(* The bits that a mask takes from a number are bits of the mask. *)
LEMMA BitAndBounds ==
    ASSUME NEW x \in Nat, NEW m \in 0 .. 63
    PROVE  BitAnd(x, m) \in 0 .. m
<1>1. ASSUME NEW p \in {1, 2, 4, 8, 16, 32}
      PROVE  Bit(m, p) \in {0, 1} /\ Both(x, m, p) \in {0, p * Bit(m, p)}
  BY <1>1 DEF Bit, Both
<1> QED BY <1>1, SixBits DEF BitAnd

(* Below a power of two the mask is the remainder. *)
LEMMA BitAndPower ==
    ASSUME NEW x \in Nat, NEW al \in Alignments
    PROVE  BitAnd(x, al - 1) = x % al
<1> DEFINE b1 == Bit(x, 1) b2 == Bit(x, 2) b4 == Bit(x, 4) b8 == Bit(x, 8) b16 == Bit(x, 16)
           b32 == Bit(x, 32)
<1>1. /\ x % 1 = 0 /\ x % 2 = b1
      /\ x % 4 = b1 + 2 * b2
      /\ x % 8 = b1 + 2 * b2 + 4 * b4
      /\ x % 16 = b1 + 2 * b2 + 4 * b4 + 8 * b8
      /\ x % 32 = b1 + 2 * b2 + 4 * b4 + 8 * b8 + 16 * b16
      /\ x % 64 = b1 + 2 * b2 + 4 * b4 + 8 * b8 + 16 * b16 + 32 * b32
  BY DEF Bit
<1>2. \A p \in {1, 2, 4, 8, 16, 32} : Bit(x, p) \in {0, 1}
  BY DEF Bit
<1>3. \A p \in {1, 2, 4, 8, 16, 32} :
         Both(x, al - 1, p) = IF p < al THEN p * Bit(x, p) ELSE 0
  BY <1>2 DEF Both, Bit, Alignments
<1> QED BY <1>1, <1>3 DEF BitAnd, Alignments

(* The padding is less than the alignment, whatever that is, and reaches a *)
(* multiple of it, if that is a power of two.                              *)
LEMMA PaddingAligns ==
    ASSUME NEW cur \in Nat, NEW al \in 1 .. 64
    PROVE  /\ Padding(cur, al) \in 0 .. al - 1
           /\ al \in Alignments => (cur + Padding(cur, al)) % al = 0
<1> DEFINE x == cur + al - 1  q == x \div al  m == x % al
<1>1. x \in Nat /\ al - 1 \in 0 .. 63
  OBVIOUS
<1>2. Padding(cur, al) = (x - BitAnd(x, al - 1)) - cur
  BY DEF Padding
<1>3. BitAnd(x, al - 1) \in 0 .. al - 1
  BY <1>1, BitAndBounds
<1>4. Padding(cur, al) \in 0 .. al - 1
  BY <1>2, <1>3
<1>5. ASSUME al \in Alignments
      PROVE  (cur + Padding(cur, al)) % al = 0
  <2>1. q \in Int /\ m \in 0 .. al - 1 /\ x = al * q + m
    <3>1. al \in Nat \ {0}
      OBVIOUS
    <3> HIDE DEF x
    <3> QED BY <1>1, <3>1, Division
  <2>2. BitAnd(x, al - 1) = m
    BY <1>1, <1>5, BitAndPower
  <2> HIDE DEF q, m
  <2>3. cur + Padding(cur, al) = x - m
    BY <1>1, <1>2, <2>1, <2>2
  <2>4. cur + Padding(cur, al) = al * q /\ cur + Padding(cur, al) \in Nat
    BY <1>4, <2>1, <2>3
  <2> QED BY <2>1, <2>4, Multiple
<1> QED BY <1>4, <1>5

(* A new chunk has the capacity that was asked for, or more. *)
LEMMA ChunkLargeEnough ==
    ASSUME Servable, NEW v \in 1 .. CapMax
    PROVE  ChunkCapacity(v) \in Nat /\ v <= ChunkCapacity(v)
<1> DEFINE cap == IF v < MinChunk THEN MinChunk ELSE v
<1>1. cap \in 2 .. CapMax /\ v <= cap /\ cap < Word /\ Word \in Nat
  BY DEF Servable
<1>2. cap % Word = cap
  BY <1>1
<1>3. PICK p \in Powers : cap <= p /\ p < 2 * cap
  BY <1>1 DEF Servable
<1> HIDE DEF cap
<1>4. /\ awp_round_up_pow2(cap) \in Powers
      /\ cap <= awp_round_up_pow2(cap)
  BY <1>1, <1>3 DEF Servable, awp_round_up_pow2
<1>5. ChunkCapacity(v) = awp_round_up_pow2(cap)
  BY <1>2 DEF ChunkCapacity, cap
<1>6. awp_round_up_pow2(cap) \in Nat /\ CapMax \in Nat
  BY <1>4 DEF Servable
<1> QED BY <1>1, <1>4, <1>5, <1>6

(***************************************************************************)
(* The invariant.                                                          *)
(***************************************************************************)
(* arena_new_chunk: an empty chunk with room for what was asked. *)
LEMMA NewChunkType ==
    ASSUME Servable, NEW v \in 1 .. CapMax, NEW base \in Addresses
    PROVE  /\ NewChunk(v, base) \in Chunk
           /\ NewChunk(v, base).offset = 0 /\ v <= NewChunk(v, base).capacity
<1>1. ChunkCapacity(v) \in Nat /\ v <= ChunkCapacity(v)
  BY ChunkLargeEnough
<1> QED BY <1>1 DEF Servable, NewChunk, Chunk

(* A list that keeps the arena's chunks and may have new ones behind them. *)
Extends(list) ==
    /\ list \in Seq(Chunk) /\ list # <<>>
    /\ Len(chunks) <= Len(list)
    /\ \A i \in 1 .. Len(chunks) : list[i] = chunks[i]

(* The first test of awp_arena_alloc leaves the old chunks where they are. *)
LEMMA GrownExtends ==
    ASSUME Servable, TypeOK, NEW r \in Requests, NEW base \in Addresses
    PROVE  Extends(Grown(r, base))
<1>1. Needed(r) \in 1 .. CapMax
  BY DEF Servable, Needed
<1>2. NewChunk(Needed(r), base) \in Chunk
  BY <1>1, NewChunkType
<1>3. chunks \in Seq(Chunk)
  BY DEF TypeOK
<1>4. CASE Full(chunks, r)
  <2>1. Grown(r, base) = Append(chunks, NewChunk(Needed(r), base))
    BY <1>4 DEF Grown
  <2> HIDE DEF NewChunk
  <2> QED BY <1>2, <1>3, <2>1 DEF Extends
<1>5. CASE ~Full(chunks, r)
  <2>1. Grown(r, base) = chunks /\ chunks # <<>>
    BY <1>5 DEF Grown, Full
  <2> QED BY <1>3, <2>1 DEF Extends
<1> QED BY <1>4, <1>5

(* Cutting a block for which the last chunk has room, the cache line       *)
(* behind its capacity included, keeps the invariant.                      *)
LEMMA CutKeeps ==
    ASSUME ArenaInv, NEW list, Extends(list), CACHELINE \in Nat,
           NEW r, r \in [size : Nat \ {0}, alignment : 1 .. 64],
           Last(list).offset + PaddingIn(Last(list), r.alignment) + r.size
               <= Last(list).capacity + CACHELINE,
           Cut(list, r)
    PROVE  ArenaInv'
<1> DEFINE n    == Len(list)
           last == list[n]
           base == last.base
           off  == last.offset
           cap  == last.capacity
           pad  == PaddingIn(last, r.alignment)
           at   == off + pad
           new  == [chunk |-> n, at |-> at, size |-> r.size, alignment |-> r.alignment]
           cut  == [last EXCEPT !.offset = at + r.size]
<1>1. n \in Nat \ {0} /\ last \in Chunk /\ list \in Seq(Chunk)
  BY DEF Extends
<1> HIDE DEF n
<1>2. base \in Nat /\ off \in Nat /\ cap \in Nat
  BY <1>1 DEF Chunk
<1>3. r.size \in Nat \ {0} /\ r.alignment \in 1 .. 64 /\ r.alignment \in Nat \ {0}
  OBVIOUS
<1>4. pad = Padding(base + off, r.alignment)
  BY DEF PaddingIn
<1>5. /\ chunks' = [list EXCEPT ![n] = cut]
      /\ total_allocated' = total_allocated + pad + r.size
      /\ blocks' = blocks \cup {new}
  BY DEF Cut, n
<1>6. at + r.size <= cap + CACHELINE
  BY DEF Last, n
<1> DEFINE cur == base + off
<1>7. pad \in Nat /\ (r.alignment \in Alignments => (cur + pad) % r.alignment = 0)
  <2>1. cur \in Nat
    BY <1>2
  <2>2. pad = Padding(cur, r.alignment)
    BY <1>4
  <2> HIDE DEF cur, pad
  <2>3. /\ Padding(cur, r.alignment) \in 0 .. r.alignment - 1
        /\ r.alignment \in Alignments => (cur + Padding(cur, r.alignment)) % r.alignment = 0
    BY <1>3, <2>1, PaddingAligns
  <2> QED BY <1>3, <2>2, <2>3
<1> HIDE DEF pad
<1>8. cut \in Chunk /\ cut.offset = at + r.size /\ cut.base = base /\ cut.capacity = cap
  <2>1. at + r.size \in Nat
    BY <1>2, <1>3, <1>7
  <2> HIDE DEF at
  <2> QED BY <1>1, <2>1 DEF Chunk
<1> HIDE DEF last, base, off, cap, cut
<1>9. /\ at \in Nat /\ off <= at
      /\ r.alignment \in Alignments => (base + at) % r.alignment = 0
  <2>1. cur + pad = base + at
    BY <1>2, <1>7
  <2> QED BY <1>2, <1>7, <2>1
<1> HIDE DEF at
<1>10. new \in Block
  BY <1>1, <1>3, <1>9 DEF Block
<1>11. chunks' \in Seq(Chunk) /\ Len(chunks') = n
  BY <1>1, <1>5, <1>8 DEF n
<1>12. chunks'[n] = cut /\ \A i \in 1 .. n : i # n => chunks'[i] = list[i]
  BY <1>1, <1>5 DEF n
(* What the invariant says of the old blocks, in terms of the new list. *)
<1>13. ASSUME NEW b \in blocks
       PROVE  /\ b \in Block /\ b.chunk \in 1 .. n
              /\ b.at \in Nat /\ b.size \in Nat /\ b.alignment \in Nat \ {0}
              /\ list[b.chunk] = chunks[b.chunk]
              /\ b.at + b.size <= list[b.chunk].offset
              /\ b.at + b.size <= list[b.chunk].capacity + CACHELINE
              /\ b.alignment \in Alignments => (list[b.chunk].base + b.at) % b.alignment = 0
  <2>1. b \in Block /\ b.chunk \in 1 .. Len(chunks)
    BY DEF ArenaInv, TypeOK, Below
  <2>2. list[b.chunk] = chunks[b.chunk] /\ b.chunk \in 1 .. n
    BY <1>1, <2>1 DEF Extends, n, ArenaInv, TypeOK
  <2>3. b.at \in Nat /\ b.size \in Nat /\ b.alignment \in Nat \ {0}
    BY <2>1 DEF Block
  <2> QED BY <2>1, <2>2, <2>3 DEF ArenaInv, Below, InBounds, Aligned
<1>14. ASSUME NEW b \in blocks
       PROVE  /\ b.at + b.size <= chunks'[b.chunk].offset
              /\ chunks'[b.chunk].capacity = list[b.chunk].capacity
              /\ chunks'[b.chunk].base = list[b.chunk].base
  <2>1. CASE b.chunk = n
    <3>1. b.at + b.size <= off /\ b.at \in Nat /\ b.size \in Nat
      BY <1>13, <2>1 DEF off, last
    <3>2. b.at + b.size <= at + r.size
      BY <1>2, <1>3, <1>9, <3>1
    <3>3. chunks'[b.chunk] = cut /\ list[b.chunk] = last
      BY <1>12, <2>1 DEF last
    <3> QED BY <1>8, <3>2, <3>3 DEF cap, base
  <2>2. CASE b.chunk # n
    BY <1>12, <1>13, <2>2
  <2> QED BY <2>1, <2>2
<1>15. TypeOK'
  BY <1>3, <1>5, <1>7, <1>10, <1>11 DEF ArenaInv, TypeOK
<1>16. Below'
  <2> SUFFICES ASSUME NEW b \in blocks'
               PROVE  b.chunk \in 1 .. Len(chunks') /\ b.at + b.size <= chunks'[b.chunk].offset
    BY DEF Below
  <2>1. CASE b \in blocks
    BY <1>11, <1>13, <1>14, <2>1
  <2>2. CASE b = new
    <3>1. b.chunk = n /\ b.at + b.size = at + r.size
      BY <2>2
    <3> QED BY <1>1, <1>3, <1>8, <1>9, <1>11, <1>12, <3>1
  <2> QED BY <1>5, <2>1, <2>2
<1>17. InBounds'
  <2> SUFFICES ASSUME NEW b \in blocks'
               PROVE  b.at + b.size <= chunks'[b.chunk].capacity + CACHELINE
    BY DEF InBounds
  <2>1. CASE b \in blocks
    BY <1>13, <1>14, <2>1
  <2>2. CASE b = new
    <3>1. b.chunk = n /\ b.at + b.size = at + r.size
      BY <2>2
    <3> QED BY <1>6, <1>8, <1>12, <3>1
  <2> QED BY <1>5, <2>1, <2>2
<1>18. Disjoint'
  <2> SUFFICES ASSUME NEW b \in blocks', NEW c \in blocks', b # c, b.chunk = c.chunk
               PROVE  b.at + b.size <= c.at \/ c.at + c.size <= b.at
    BY DEF Disjoint
  <2>1. ASSUME NEW o \in blocks, o.chunk = n PROVE o.at + o.size <= at
    <3>1. o.at + o.size <= off /\ o.at \in Nat /\ o.size \in Nat
      BY <1>13, <2>1 DEF off, last
    <3> QED BY <1>2, <1>9, <3>1
  <2>2. CASE b \in blocks /\ c \in blocks
    BY <2>2 DEF ArenaInv, Disjoint
  <2>3. CASE b \in blocks /\ c = new
    BY <2>1, <2>3
  <2>4. CASE b = new /\ c \in blocks
    BY <2>1, <2>4
  <2> QED BY <1>5, <2>2, <2>3, <2>4
<1>19. Aligned'
  <2> SUFFICES ASSUME NEW b \in blocks', b.alignment \in Alignments
               PROVE  (chunks'[b.chunk].base + b.at) % b.alignment = 0
    BY DEF Aligned
  <2>1. CASE b \in blocks
    BY <1>13, <1>14, <2>1
  <2>2. CASE b = new
    <3>1. b.chunk = n /\ b.at = at /\ b.alignment = r.alignment
      BY <2>2
    <3> QED BY <1>8, <1>9, <1>12, <3>1
  <2> QED BY <1>5, <2>1, <2>2
<1> QED BY <1>15, <1>16, <1>17, <1>18, <1>19 DEF ArenaInv

(* An allocation, with a chunk of its own or without, keeps the invariant. *)
LEMMA AllocKeeps ==
    ASSUME Servable, ArenaInv, NEW r \in Requests, Alloc(r)
    PROVE  ArenaInv'
<1>1. /\ r \in [size : Nat \ {0}, alignment : 1 .. 64] /\ CACHELINE \in Nat
      /\ r.size \in 1 .. CapMax /\ r.alignment \in 1 .. CACHELINE
      /\ r.alignment \in 1 .. 64
  BY DEF Servable
<1>2. TypeOK
  BY DEF ArenaInv
<1>3. PICK base \in Addresses :
        \/ Fits(Grown(r, base), r) /\ Cut(Grown(r, base), r)
        \/ \E d \in Addresses : Cut(Append(Grown(r, base), NewChunk(r.size, d)), r)
  BY DEF Alloc
<1> DEFINE list == Grown(r, base)
<1>4. Extends(list)
  BY <1>2, GrownExtends
<1> HIDE DEF list
<1>5. CASE Fits(list, r) /\ Cut(list, r)
  <2>1. Last(list) \in Chunk
    BY <1>4 DEF Extends, Last
  <2>2. Last(list).capacity \in Nat
    BY <2>1 DEF Chunk
  <2>3. /\ Last(list).base + Last(list).offset \in Nat
        /\ Last(list).offset \in Nat
    BY <2>1 DEF Chunk
  <2>4. PaddingIn(Last(list), r.alignment) \in Nat
    <3>1. PaddingIn(Last(list), r.alignment) \in 0 .. r.alignment - 1
      BY <1>1, <2>3, PaddingAligns DEF PaddingIn
    <3> QED BY <1>1, <3>1
  <2>5. Last(list).offset + PaddingIn(Last(list), r.alignment) + r.size
            <= Last(list).capacity + CACHELINE
    BY <1>1, <1>5, <2>2, <2>3, <2>4 DEF Fits
  <2> QED BY <1>1, <1>4, <1>5, <2>5, CutKeeps
<1>6. ASSUME NEW d \in Addresses, Cut(Append(list, NewChunk(r.size, d)), r)
      PROVE  ArenaInv'
  <2> DEFINE c == NewChunk(r.size, d)  more == Append(list, c)
  <2>1. c \in Chunk /\ c.offset = 0 /\ r.size <= c.capacity
    BY <1>1, NewChunkType
  <2>2. c.base \in Nat /\ c.capacity \in Nat
    BY <2>1 DEF Chunk
  <2> HIDE DEF c
  <2>3. Extends(more) /\ Last(more) = c
    BY <1>4, <2>1 DEF Extends, Last, TypeOK
  <2>4. c.base + c.offset \in Nat
    BY <2>1, <2>2
  <2>5. PaddingIn(c, r.alignment) \in 0 .. r.alignment - 1
    BY <1>1, <2>4, PaddingAligns DEF PaddingIn
  <2>6. c.offset + PaddingIn(c, r.alignment) + r.size <= c.capacity + CACHELINE
    BY <1>1, <2>1, <2>2, <2>5
  <2>7. Cut(more, r)
    BY <1>6 DEF c
  <2> HIDE DEF more
  <2> QED BY <1>1, <2>3, <2>6, <2>7, CutKeeps
<1> QED BY <1>3, <1>5, <1>6 DEF list

(* A failed allocation may leave a new chunk behind, and no block. *)
LEMMA FailKeeps ==
    ASSUME Servable, ArenaInv, NEW r \in Requests, AllocFails(r)
    PROVE  ArenaInv'
<1>1. blocks' = blocks /\ total_allocated' = total_allocated /\ TypeOK
  BY DEF AllocFails, ArenaInv
<1>2. CASE chunks' = chunks
  BY <1>1, <1>2 DEF ArenaInv, TypeOK, Below, InBounds, Disjoint, Aligned
<1>3. CASE \E base \in Addresses : chunks' = Grown(r, base)
  <2>1. Extends(chunks')
    BY <1>1, <1>3, GrownExtends
  <2>2. /\ chunks' \in Seq(Chunk) /\ Len(chunks) <= Len(chunks')
        /\ \A i \in 1 .. Len(chunks) : chunks'[i] = chunks[i]
    BY <2>1 DEF Extends
  <2>3. Len(chunks) \in Nat /\ Len(chunks') \in Nat
    BY <1>1, <2>2 DEF TypeOK
  <2>4. ASSUME NEW b \in blocks
        PROVE  chunks'[b.chunk] = chunks[b.chunk] /\ b.chunk \in 1 .. Len(chunks')
    BY <2>2, <2>3 DEF ArenaInv, Below
  <2>5. TypeOK'
    BY <1>1, <2>2 DEF TypeOK
  <2> QED BY <1>1, <2>4, <2>5 DEF ArenaInv, Below, InBounds, Disjoint, Aligned
<1> QED BY <1>2, <1>3 DEF AllocFails

(* awp_arena_reset keeps the chunks and forgets the blocks. *)
LEMMA ResetKeeps ==
    ASSUME ArenaInv, Reset
    PROVE  ArenaInv'
<1>1. chunks \in Seq(Chunk)
  BY DEF ArenaInv, TypeOK
<1>2. \A c \in Chunk : [c EXCEPT !.offset = 0] \in Chunk
  BY DEF Chunk
<1>3. chunks' \in Seq(Chunk)
  BY <1>1, <1>2 DEF Reset
<1> QED BY <1>3 DEF Reset, ArenaInv, TypeOK, Below, InBounds, Disjoint, Aligned

(* The invariant of the arena: blocks are below the offset of their chunk  *)
(* and inside its memory, apart from one another, and aligned where the    *)
(* mask of awp_arena_alloc aligns, through every sequence of alloc, failed *)
(* alloc, reset and destroy, whatever the addresses malloc returns, for    *)
(* the sizes and alignments of Servable.                                   *)
THEOREM ArenaInvariant ==
    ASSUME Servable
    PROVE  Spec => []ArenaInv
<1>1. Init => ArenaInv
  BY DEF Init, ArenaInv, TypeOK, Below, InBounds, Disjoint, Aligned
<1>2. ArenaInv /\ [Next]_vars => ArenaInv'
  <2> SUFFICES ASSUME ArenaInv, [Next]_vars PROVE ArenaInv'
    OBVIOUS
  <2>1. CASE Destroy
    BY <2>1 DEF Destroy, ArenaInv, TypeOK, Below, InBounds, Disjoint, Aligned
  <2>2. CASE UNCHANGED vars
    BY <2>2 DEF vars, ArenaInv, TypeOK, Below, InBounds, Disjoint, Aligned
  <2> QED BY <2>1, <2>2, AllocKeeps, FailKeeps, ResetKeeps DEF Next
<1> QED BY <1>1, <1>2, PTL DEF Spec

(* No block of the arena reaches outside its chunk and none overlaps       *)
(* another: what awp_arena_alloc promises, for sizes and chunk sizes up to *)
(* AWP_RING_CAP_MAX and alignments up to a cache line.                     *)
THEOREM BlocksApart ==
    ASSUME Servable
    PROVE  Spec => [](InBounds /\ Disjoint)
<1>1. ArenaInv => InBounds /\ Disjoint
  BY DEF ArenaInv
<1> QED BY <1>1, ArenaInvariant, PTL

(* A block asked for at an alignment that is a power of two, up to a cache *)
(* line, starts at a multiple of it: the mask of awp_arena_alloc and the   *)
(* address of the chunk work together.                                     *)
THEOREM BlocksAligned ==
    ASSUME Servable
    PROVE  Spec => []Aligned
<1>1. ArenaInv => Aligned
  BY DEF ArenaInv
<1> QED BY <1>1, ArenaInvariant, PTL

=============================================================================
