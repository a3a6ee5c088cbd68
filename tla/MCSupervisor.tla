---------------------------- MODULE MCSupervisor ----------------------------
(* Small instances of Supervisor for TLC. *)
EXTENDS Supervisor, TLC

(* Submitters are interchangeable. *)
Symmetry == Permutations(Submitters)

=============================================================================
