------------------------------- MODULE MCRing -------------------------------
(***************************************************************************)
(* Instances of Ring for TLC.                                              *)
(***************************************************************************)
EXTENDS Ring, TLC

\* Threads of one kind are interchangeable.
Symmetry ==
    Permutations(Producers) \cup Permutations(Consumers)

=============================================================================
