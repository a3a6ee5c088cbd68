----------------------------- MODULE FrameStack -----------------------------
(***************************************************************************)
(* What the frame pool promises: a last-in first-out stack of free frames. *)
(* A frame is on the stack or out with the application, never both.        *)
(***************************************************************************)
EXTENDS Naturals, Sequences

CONSTANT Frames
VARIABLES stack, out

Filled(s) ==
    /\ \A f \in Frames : \E i \in DOMAIN s : s[i] = f
    /\ \A i, j \in DOMAIN s : s[i] = s[j] => i = j

StackInit == Filled(stack) /\ out = {}

Take ==
    /\ stack # <<>>
    /\ out' = out \cup {Head(stack)}
    /\ stack' = Tail(stack)

Give(f) ==
    /\ f \in out
    /\ out' = out \ {f}
    /\ stack' = <<f>> \o stack

StackSpec == StackInit /\ [][Take \/ \E f \in Frames : Give(f)]_<<stack, out>>

=============================================================================
