----------------------------- MODULE MCFramePool -----------------------------
(* Small instances of FramePool for TLC. *)
EXTENDS FramePool

=============================================================================
