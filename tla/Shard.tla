-------------------------------- MODULE Shard --------------------------------
(***************************************************************************)
(* Which worker a frame goes to (src/src/shard.c, and awp_submit_keyed of  *)
(* src/src/pool.c).  The first n_broadcast_workers workers are for         *)
(* broadcast feeds, the others share the rest.  The hash is any function;  *)
(* its value is a 64-bit word in the code.                                 *)
(***************************************************************************)
EXTENDS Integers, TLAPS

CONSTANTS n_workers, n_broadcast_workers,
          Feeds, Symbols,
          broadcast_feeds,   \* the feeds the configuration lists
          NoSymbol,          \* ""
          awp_hash_key       \* of a feed and a symbol

(* What awp_pool_create accepts; there is always a worker for symbols. *)
ShardConfig ==
    /\ n_workers \in Nat \ {0}
    /\ n_broadcast_workers \in 0 .. n_workers - 1
    /\ NoSymbol \in Symbols
    /\ awp_hash_key \in [Feeds -> [Symbols -> Nat]]

shard_base      == n_broadcast_workers
n_shard_workers == n_workers - n_broadcast_workers

(* The flag is AWP_FRAME_BROADCAST. *)
feed_is_broadcast(feed, flag) == flag \/ feed \in broadcast_feeds

(* The shard of awp_submit_keyed, whose caller brings the hash along. *)
KeyedShard(hash_key) == shard_base + (hash_key % n_shard_workers)

awp_compute_shard(feed, symbol, flag) ==
    IF feed_is_broadcast(feed, flag) /\ n_broadcast_workers > 0
    THEN awp_hash_key[feed][NoSymbol] % n_broadcast_workers
    ELSE KeyedShard(awp_hash_key[feed][symbol])

(***************************************************************************)
(* Theorems.                                                               *)
(***************************************************************************)
(* The remainder is smaller than the divisor. *)
LEMMA Remainder ==
    ASSUME NEW i \in Nat, NEW n \in Nat \ {0}
    PROVE  i % n \in 0 .. n - 1
  BY Z3

(* The workers of the two kinds of feeds. *)
BroadcastLane == 0 .. n_broadcast_workers - 1
SymbolLane    == n_broadcast_workers .. n_workers - 1

(* awp_submit_keyed uses the workers that are not for broadcast feeds. *)
LEMMA KeyedLane ==
    ASSUME ShardConfig, NEW k \in Nat
    PROVE  KeyedShard(k) \in SymbolLane
<1>1. n_shard_workers \in Nat \ {0}
  BY DEF ShardConfig, n_shard_workers
<1>2. k % n_shard_workers \in 0 .. n_shard_workers - 1
  BY <1>1, Remainder
<1> QED BY <1>1, <1>2 DEF ShardConfig, KeyedShard, SymbolLane, shard_base, n_shard_workers

(* awp_compute_shard names a worker that exists, for every configuration   *)
(* that awp_pool_create accepts; the frames of a broadcast feed go to the  *)
(* broadcast workers when there are any, and every other frame to the      *)
(* others, so a burst on a broadcast feed fills no other feed's ring.      *)
THEOREM LanesSeparate ==
    ASSUME ShardConfig, NEW feed \in Feeds, NEW symbol \in Symbols, NEW flag \in BOOLEAN
    PROVE  awp_compute_shard(feed, symbol, flag) \in
               IF feed_is_broadcast(feed, flag) /\ n_broadcast_workers > 0
               THEN BroadcastLane ELSE SymbolLane
<1>1. \A s \in Symbols : awp_hash_key[feed][s] \in Nat
  BY DEF ShardConfig
<1>2. CASE feed_is_broadcast(feed, flag) /\ n_broadcast_workers > 0
  <2>1. n_broadcast_workers \in Nat \ {0} /\ NoSymbol \in Symbols
    BY <1>2 DEF ShardConfig
  <2>2. awp_hash_key[feed][NoSymbol] % n_broadcast_workers \in 0 .. n_broadcast_workers - 1
    BY <1>1, <2>1, Remainder
  <2> QED BY <1>2, <2>2 DEF awp_compute_shard, BroadcastLane
<1>3. CASE ~(feed_is_broadcast(feed, flag) /\ n_broadcast_workers > 0)
  <2>1. KeyedShard(awp_hash_key[feed][symbol]) \in SymbolLane
    BY <1>1, KeyedLane
  <2> QED BY <1>3, <2>1 DEF awp_compute_shard
<1> QED BY <1>2, <1>3

(* Frames of one key stay in order although they come through awp_submit   *)
(* and awp_submit_keyed: with the hash of awp_hash_key both choose the     *)
(* same worker, unless the frame is for the broadcast workers, which       *)
(* awp_submit_keyed never uses.                                            *)
THEOREM KeyedAgrees ==
    ASSUME ShardConfig, NEW feed \in Feeds, NEW symbol \in Symbols, NEW flag \in BOOLEAN
    PROVE  KeyedShard(awp_hash_key[feed][symbol]) = awp_compute_shard(feed, symbol, flag)
               <=> ~(feed_is_broadcast(feed, flag) /\ n_broadcast_workers > 0)
<1>1. awp_hash_key[feed][symbol] \in Nat
  BY DEF ShardConfig
<1>2. KeyedShard(awp_hash_key[feed][symbol]) \in SymbolLane
  BY <1>1, KeyedLane
<1>3. BroadcastLane \cap SymbolLane = {}
  BY DEF ShardConfig, BroadcastLane, SymbolLane
<1>4. CASE feed_is_broadcast(feed, flag) /\ n_broadcast_workers > 0
  <2>1. awp_compute_shard(feed, symbol, flag) \in BroadcastLane
    BY <1>4, LanesSeparate
  <2> QED BY <1>2, <1>3, <1>4, <2>1
<1>5. CASE ~(feed_is_broadcast(feed, flag) /\ n_broadcast_workers > 0)
  BY <1>5 DEF awp_compute_shard
<1> QED BY <1>4, <1>5

=============================================================================
