------------------------------- MODULE MCPool -------------------------------
(* Small instances of Pool for TLC. *)
EXTENDS Pool, TLC

(* Submitters are interchangeable. *)
Symmetry == Permutations(Submitters)

(* Bounds: what is called in a pool that a second caller shuts down too.   *)
JointCalls == 1
JointApis  == {"claim"}

Joint == \E c \in Callers \ {Owner} : cpc[c] # "idle"

(* Next with these bounds.  They hold back calls of the application only,  *)
(* for which no fairness is assumed.                                       *)
JointNext ==
    \/ \E s \in Submitters, a \in Apis, w \in Workers :
          (Joint => calls < JointCalls /\ a \in JointApis) /\ Call(s, a, w)
    \/ \E c \in Callers : (c = Owner \/ calls < JointCalls) /\ ShutdownCall(c)
    \/ DestroyCall
    \/ Running

JointSpec == Init /\ [][JointNext]_vars /\ Fairness

=============================================================================
