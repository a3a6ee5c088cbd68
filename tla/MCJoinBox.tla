------------------------------ MODULE MCJoinBox ------------------------------
(* Small instances of JoinBox for TLC. *)
EXTENDS JoinBox

=============================================================================
