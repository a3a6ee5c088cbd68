---------------------------- MODULE BoundedFifo ----------------------------
(***************************************************************************)
(* What a ring promises its users: a bounded FIFO of frames with two-phase *)
(* insertion.  An insertion first reserves the next position and later     *)
(* publishes it; only the oldest untaken position can be taken, only once  *)
(* it is published, and the taker obtains exactly the frame that reserved  *)
(* the position.  The number of reserved and untaken positions never       *)
(* exceeds the capacity.  Ring.tla is shown to implement this module.      *)
(***************************************************************************)
EXTENDS Naturals, Sequences

CONSTANTS Consumers,   \* threads that take frames out
          Frames,      \* frames that can be put in
          NoFrame,     \* "no frame"
          Capacity     \* number of positions

VARIABLES log,         \* the frames, in the order their positions were reserved
          ready,       \* the positions (0, 1, ...) that are published
          head,        \* the next position to take
          holding      \* the frame a consumer took and has not returned with yet

fifoVars == <<log, ready, head, holding>>

FifoInit ==
    /\ log = <<>>
    /\ ready = {}
    /\ head = 0
    /\ holding = [c \in Consumers |-> NoFrame]

HasRoom == Len(log) < head + Capacity

Reserve(f) ==
    /\ HasRoom
    /\ log' = Append(log, f)
    /\ UNCHANGED <<ready, head, holding>>

Publish(i) ==
    /\ i \notin ready
    /\ ready' = ready \cup {i}
    /\ UNCHANGED <<log, head, holding>>

\* A single producer reserves and publishes at once.
Insert(f) ==
    /\ HasRoom
    /\ log' = Append(log, f)
    /\ ready' = ready \cup {Len(log)}
    /\ UNCHANGED <<head, holding>>

Take(c) ==
    /\ head \in ready
    /\ holding[c] = NoFrame
    /\ head' = head + 1
    /\ holding' = [holding EXCEPT ![c] = log[head + 1]]
    /\ UNCHANGED <<log, ready>>

Return(c) ==
    /\ holding[c] # NoFrame
    /\ holding' = [holding EXCEPT ![c] = NoFrame]
    /\ UNCHANGED <<log, ready, head>>

FifoNext ==
    \/ \E f \in Frames : Reserve(f) \/ Insert(f)
    \/ \E i \in 0 .. Len(log) - 1 : Publish(i)
    \/ \E c \in Consumers : Take(c) \/ Return(c)

FifoSpec == FifoInit /\ [][FifoNext]_fifoVars

=============================================================================
