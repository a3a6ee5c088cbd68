------------------------------- MODULE JoinBox -------------------------------
(***************************************************************************)
(* awp_pthread_join_deadline of src/src/worker.c: a detached helper thread *)
(* runs pthread_join on the target while the caller polls until the        *)
(* deadline.  Both share a heap box; whoever is last must free it: the     *)
(* caller when it has seen done, the helper when the caller has released   *)
(* the box to it.  Pool and Supervisor use what is shown here: a join      *)
(* succeeds only when the thread has ended and is late only after the      *)
(* deadline.                                                               *)
(***************************************************************************)
CONSTANT Joins      \* calls of awp_pthread_join_deadline, each with its target

VARIABLES
    running,   \* the targets that have not ended
    expired,   \* the deadline, which the calls share, has passed
    box,       \* "none", "live" or "freed"
    mu,        \* who holds box->mu: "nobody", "caller" or "helper"
    done, rc,  \* fields of the box; rc = 0 when pthread_join succeeded
    released,
    free_self, \* the helper's local
    cpc,       \* what each caller does next
    hpc,       \* what its helper does next
    result     \* "none", "joined", "late" or "error"

fields  == <<done, rc, released>>
vars    == <<running, expired, box, mu, fields, free_self, cpc, hpc, result>>

GotoC(j, l) == cpc' = [cpc EXCEPT ![j] = l]
GotoH(j, l) == hpc' = [hpc EXCEPT ![j] = l]
Hold(j, x)  == mu' = [mu EXCEPT ![j] = x]
Return(j, x) == result' = [result EXCEPT ![j] = x] /\ GotoC(j, "returned")

Init ==
    /\ running = Joins /\ expired = FALSE
    /\ box = [j \in Joins |-> "none"]
    /\ mu = [j \in Joins |-> "nobody"]
    /\ done = [j \in Joins |-> FALSE]
    /\ rc = [j \in Joins |-> 0]
    /\ released = [j \in Joins |-> FALSE]
    /\ free_self = [j \in Joins |-> FALSE]
    /\ cpc = [j \in Joins |-> "call"]
    /\ hpc = [j \in Joins |-> "none"]
    /\ result = [j \in Joins |-> "none"]

(***************************************************************************)
(* The caller.                                                             *)
(***************************************************************************)
TooLate(j) ==
    /\ cpc[j] = "call" /\ expired
    /\ Return(j, "late")
    /\ UNCHANGED <<running, expired, box, mu, fields, free_self, hpc>>

(* Out of memory, or the mutex, the condition variable or the attribute    *)
(* cannot be had; what exists of the box is freed.                         *)
NoBox(j) ==
    /\ cpc[j] = "call" /\ ~expired
    /\ Return(j, "error")
    /\ UNCHANGED <<running, expired, box, mu, fields, free_self, hpc>>

MakeBox(j) ==
    /\ cpc[j] = "call" /\ ~expired
    /\ box' = [box EXCEPT ![j] = "live"]
    /\ GotoC(j, "create")
    /\ UNCHANGED <<running, expired, mu, fields, free_self, hpc, result>>

CreateHelper(j) ==
    /\ cpc[j] = "create"
    /\ \/ GotoH(j, "join") /\ GotoC(j, "lock") /\ UNCHANGED <<box, result>>
       \/ /\ box' = [box EXCEPT ![j] = "freed"]
          /\ Return(j, "error") /\ UNCHANGED hpc
    /\ UNCHANGED <<running, expired, mu, fields, free_self>>

CallerLock(j) ==
    /\ cpc[j] = "lock"
    /\ mu[j] = "nobody"
    /\ Hold(j, "caller")
    /\ GotoC(j, "test")
    /\ UNCHANGED <<running, expired, box, fields, free_self, hpc, result>>

(* Variant: the deadline is tested first, and the box freed in any case. *)
CallerFrees(j) ==
    /\ cpc[j] = "test"
    /\ \/ done[j] /\ GotoC(j, "unlock") /\ UNCHANGED released
       \/ expired /\ GotoC(j, "unlock") /\ UNCHANGED released
       \/ ~done[j] /\ ~expired /\ GotoC(j, "again") /\ UNCHANGED released
    /\ UNCHANGED <<running, expired, box, mu, done, rc, free_self, hpc, result>>

(* Under the mutex: done, or too late, or once more. *)
CallerTest(j) ==
    /\ cpc[j] = "test"
    /\ \/ done[j] /\ GotoC(j, "unlock") /\ UNCHANGED released
       \/ /\ ~done[j] /\ expired
          /\ released' = [released EXCEPT ![j] = TRUE]
          /\ GotoC(j, "leave")
       \/ ~done[j] /\ ~expired /\ GotoC(j, "again") /\ UNCHANGED released
    /\ UNCHANGED <<running, expired, box, mu, done, rc, free_self, hpc, result>>

CallerUnlock(j) ==
    /\ cpc[j] \in {"unlock", "leave", "again"}
    /\ Hold(j, "nobody")
    /\ \/ cpc[j] = "unlock" /\ GotoC(j, "free") /\ UNCHANGED result
       \/ cpc[j] = "leave" /\ Return(j, "late")
       \/ cpc[j] = "again" /\ GotoC(j, "lock") /\ UNCHANGED result
    /\ UNCHANGED <<running, expired, box, fields, free_self, hpc>>

(* rc has been read under the mutex. *)
CallerFree(j) ==
    /\ cpc[j] = "free"
    /\ box' = [box EXCEPT ![j] = "freed"]
    /\ Return(j, IF rc[j] = 0 THEN "joined" ELSE "error")
    /\ UNCHANGED <<running, expired, mu, fields, free_self, hpc>>

(***************************************************************************)
(* The helper, awp_join_helper.                                            *)
(***************************************************************************)

(* pthread_join returns when the target has ended, or fails at once. *)
HelperJoin(j) ==
    /\ hpc[j] = "join"
    /\ j \notin running
    /\ GotoH(j, "lock")
    /\ UNCHANGED <<running, expired, box, mu, fields, free_self, cpc, result>>

HelperJoinFails(j) ==
    /\ hpc[j] = "join"
    /\ GotoH(j, "lockerr")
    /\ UNCHANGED <<running, expired, box, mu, fields, free_self, cpc, result>>

HelperLock(j) ==
    /\ hpc[j] \in {"lock", "lockerr"}
    /\ mu[j] = "nobody"
    /\ Hold(j, "helper")
    /\ GotoH(j, IF hpc[j] = "lock" THEN "done" ELSE "doneerr")
    /\ UNCHANGED <<running, expired, box, fields, free_self, cpc, result>>

(* Variant: released is not looked at. *)
HelperKeeps(j) ==
    /\ hpc[j] \in {"done", "doneerr"}
    /\ done' = [done EXCEPT ![j] = TRUE]
    /\ rc' = [rc EXCEPT ![j] = IF hpc[j] = "done" THEN 0 ELSE 1]
    /\ GotoH(j, "unlock")
    /\ UNCHANGED <<running, expired, box, mu, released, free_self, cpc, result>>

(* Variant: what pthread_join returned is ignored. *)
HelperBlind(j) ==
    /\ hpc[j] \in {"done", "doneerr"}
    /\ done' = [done EXCEPT ![j] = TRUE]
    /\ rc' = [rc EXCEPT ![j] = 0]
    /\ free_self' = [free_self EXCEPT ![j] = released[j]]
    /\ GotoH(j, "unlock")
    /\ UNCHANGED <<running, expired, box, mu, released, cpc, result>>

(* Under the mutex: rc, done, and whether the box has been released to it. *)
HelperDone(j) ==
    /\ hpc[j] \in {"done", "doneerr"}
    /\ done' = [done EXCEPT ![j] = TRUE]
    /\ rc' = [rc EXCEPT ![j] = IF hpc[j] = "done" THEN 0 ELSE 1]
    /\ free_self' = [free_self EXCEPT ![j] = released[j]]
    /\ GotoH(j, "unlock")
    /\ UNCHANGED <<running, expired, box, mu, released, cpc, result>>

HelperUnlock(j) ==
    /\ hpc[j] = "unlock"
    /\ Hold(j, "nobody")
    /\ GotoH(j, IF free_self[j] THEN "free" ELSE "ended")
    /\ UNCHANGED <<running, expired, box, fields, free_self, cpc, result>>

HelperFree(j) ==
    /\ hpc[j] = "free"
    /\ box' = [box EXCEPT ![j] = "freed"]
    /\ GotoH(j, "ended")
    /\ UNCHANGED <<running, expired, mu, fields, free_self, cpc, result>>

(***************************************************************************)
(* The specification.                                                      *)
(***************************************************************************)
TargetEnds(j) ==
    /\ j \in running
    /\ running' = running \ {j}
    /\ UNCHANGED <<expired, box, mu, fields, free_self, cpc, hpc, result>>

Expire ==
    /\ ~expired
    /\ expired' = TRUE
    /\ UNCHANGED <<running, box, mu, fields, free_self, cpc, hpc, result>>

CallerStep(j) ==
    \/ TooLate(j) \/ NoBox(j) \/ MakeBox(j) \/ CreateHelper(j) \/ CallerLock(j)
    \/ CallerTest(j) \/ CallerUnlock(j) \/ CallerFree(j)

HelperStep(j) ==
    \/ HelperJoin(j) \/ HelperJoinFails(j) \/ HelperLock(j) \/ HelperDone(j) \/ HelperUnlock(j)
    \/ HelperFree(j)

Next ==
    \/ \E j \in Joins : CallerStep(j) \/ HelperStep(j) \/ TargetEnds(j)
    \/ Expire

Spec == Init /\ [][Next]_vars

(* The threads run, time passes, and the mutex does not starve the helper  *)
(* while the caller polls; a target need not end.                          *)
FairSpec ==
    /\ Spec
    /\ \A j \in Joins : WF_vars(CallerStep(j)) /\ WF_vars(HelperJoin(j) \/ HelperDone(j)
                            \/ HelperUnlock(j) \/ HelperFree(j)) /\ SF_vars(HelperLock(j))
    /\ WF_vars(Expire)

(***************************************************************************)
(* Properties.                                                             *)
(***************************************************************************)

(* Every variable has its type. *)
TypeOK ==
    /\ running \subseteq Joins /\ expired \in BOOLEAN
    /\ box \in [Joins -> {"none", "live", "freed"}]
    /\ mu \in [Joins -> {"nobody", "caller", "helper"}]
    /\ done \in [Joins -> BOOLEAN] /\ rc \in [Joins -> {0, 1}]
    /\ released \in [Joins -> BOOLEAN] /\ free_self \in [Joins -> BOOLEAN]
    /\ cpc \in [Joins -> {"call", "create", "lock", "test", "unlock", "leave", "again", "free",
                          "returned"}]
    /\ hpc \in [Joins -> {"none", "join", "lock", "lockerr", "done", "doneerr", "unlock",
                          "free", "ended"}]
    /\ result \in [Joins -> {"none", "joined", "late", "error"}]

CallerUses(j) == cpc[j] \in {"create", "lock", "test", "unlock", "leave", "again", "free"}
HelperUses(j) == hpc[j] \in {"join", "lock", "lockerr", "done", "doneerr", "unlock", "free"}

(* The box is freed once, and nobody uses it after that, although the      *)
(* caller may give up at the moment the helper is done.                    *)
BoxSafe ==
    \A j \in Joins :
        /\ CallerUses(j) \/ HelperUses(j) => box[j] = "live"
        /\ ~(cpc[j] = "free" /\ HelperUses(j))
        /\ ~(hpc[j] = "free" /\ CallerUses(j))

(* A join that succeeds was of a thread that has ended, and one that is    *)
(* late was given up after the deadline.                                   *)
ResultHonest ==
    \A j \in Joins : /\ result[j] = "joined" => j \notin running
                     /\ result[j] = "late" => expired

(* The box is not leaked: when the target ends, the box is freed, whether  *)
(* the caller is still there or not.                                       *)
BoxReclaimed == \A j \in Joins : j \notin running ~> (cpc[j] = "call" \/ box[j] # "live")

(***************************************************************************)
(* The inductive invariant: who holds the mutex, and who will free.        *)
(***************************************************************************)
MutexHeld ==
    \A j \in Joins :
        /\ mu[j] = "caller" <=> cpc[j] \in {"test", "unlock", "leave", "again"}
        /\ mu[j] = "helper" <=> hpc[j] \in {"done", "doneerr", "unlock"}

Handoff ==
    \A j \in Joins :
        /\ cpc[j] \in {"call", "create"} => hpc[j] = "none"
        /\ cpc[j] = "call" => box[j] = "none"
        /\ hpc[j] = "none" => cpc[j] \in {"call", "create", "returned"} /\ ~released[j]
        /\ done[j] <=> hpc[j] \in {"unlock", "free", "ended"}
        /\ free_self[j] => released[j]
        /\ hpc[j] = "free" => free_self[j]
        /\ released[j] => cpc[j] \in {"leave", "returned"}
        /\ cpc[j] = "leave" => released[j] /\ expired
        /\ cpc[j] \in {"unlock", "free"} => done[j] /\ ~released[j] /\ hpc[j] = "ended"
        /\ hpc[j] \in {"unlock", "free", "ended"} /\ released[j] => free_self[j]
        /\ HelperUses(j) => cpc[j] # "returned" \/ released[j]
        /\ hpc[j] \in {"lock", "done"} => j \notin running
        /\ done[j] /\ rc[j] = 0 => j \notin running

BoxInv == TypeOK /\ BoxSafe /\ ResultHonest /\ MutexHeld /\ Handoff

=============================================================================
