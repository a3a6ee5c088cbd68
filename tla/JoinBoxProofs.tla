---------------------------- MODULE JoinBoxProofs ----------------------------
(***************************************************************************)
(* The box that a deadline join shares with its helper is freed once and   *)
(* never used afterwards, for any number of joins.                         *)
(***************************************************************************)
EXTENDS JoinBox, TLAPS

(* Every step preserves the types. *)
LEMMA StepType == TypeOK /\ [Next]_vars => TypeOK'
<1> SUFFICES ASSUME TypeOK, [Next]_vars PROVE TypeOK'
  OBVIOUS
<1> USE DEF TypeOK, fields, GotoC, GotoH, Hold, Return
<1>1. ASSUME NEW j \in Joins, TooLate(j) \/ NoBox(j) \/ MakeBox(j) PROVE TypeOK'
  BY <1>1 DEF TooLate, NoBox, MakeBox
<1>2. ASSUME NEW j \in Joins, CreateHelper(j) PROVE TypeOK'
  BY <1>2 DEF CreateHelper
<1>3. ASSUME NEW j \in Joins, CallerLock(j) PROVE TypeOK'
  BY <1>3 DEF CallerLock
<1>4. ASSUME NEW j \in Joins, CallerTest(j) PROVE TypeOK'
  BY <1>4 DEF CallerTest
<1>5. ASSUME NEW j \in Joins, CallerUnlock(j) PROVE TypeOK'
  BY <1>5 DEF CallerUnlock
<1>6. ASSUME NEW j \in Joins, CallerFree(j) PROVE TypeOK'
  BY <1>6 DEF CallerFree
<1>7. ASSUME NEW j \in Joins, HelperJoin(j) \/ HelperJoinFails(j) PROVE TypeOK'
  BY <1>7 DEF HelperJoin, HelperJoinFails
<1>8. ASSUME NEW j \in Joins, HelperLock(j) PROVE TypeOK'
  BY <1>8 DEF HelperLock
<1>9. ASSUME NEW j \in Joins, HelperDone(j) PROVE TypeOK'
  BY <1>9 DEF HelperDone
<1>10. ASSUME NEW j \in Joins, HelperUnlock(j) \/ HelperFree(j) PROVE TypeOK'
  BY <1>10 DEF HelperUnlock, HelperFree
<1>11. ASSUME NEW j \in Joins, TargetEnds(j) PROVE TypeOK'
  BY <1>11 DEF TargetEnds
<1>12. CASE Expire \/ UNCHANGED vars
  BY <1>12 DEF Expire, vars
<1> QED
  BY <1>1, <1>2, <1>3, <1>4, <1>5, <1>6, <1>7, <1>8, <1>9, <1>10, <1>11, <1>12
     DEF Next, CallerStep, HelperStep

(* Every step preserves the ownership of the box. *)
LEMMA StepInv == BoxInv /\ [Next]_vars => BoxInv'
<1> SUFFICES ASSUME BoxInv, [Next]_vars PROVE BoxInv'
  OBVIOUS
<1>0. TypeOK'
  BY StepType DEF BoxInv
<1> USE <1>0 DEF BoxInv, BoxSafe, ResultHonest, MutexHeld, Handoff, CallerUses, HelperUses, TypeOK,
        fields, GotoC, GotoH, Hold, Return
<1>1. ASSUME NEW j \in Joins, TooLate(j) \/ NoBox(j) \/ MakeBox(j) PROVE BoxInv'
  BY <1>1 DEF TooLate, NoBox, MakeBox
<1>2. ASSUME NEW j \in Joins, CreateHelper(j) PROVE BoxInv'
  BY <1>2 DEF CreateHelper
<1>3. ASSUME NEW j \in Joins, CallerLock(j) PROVE BoxInv'
  BY <1>3 DEF CallerLock
<1>4. ASSUME NEW j \in Joins, CallerTest(j) PROVE BoxInv'
  BY <1>4 DEF CallerTest
<1>5. ASSUME NEW j \in Joins, CallerUnlock(j) PROVE BoxInv'
  BY <1>5 DEF CallerUnlock
<1>6. ASSUME NEW j \in Joins, CallerFree(j) PROVE BoxInv'
  BY <1>6 DEF CallerFree
<1>7. ASSUME NEW j \in Joins, HelperJoin(j) \/ HelperJoinFails(j) PROVE BoxInv'
  BY <1>7 DEF HelperJoin, HelperJoinFails
<1>8. ASSUME NEW j \in Joins, HelperLock(j) PROVE BoxInv'
  BY <1>8 DEF HelperLock
<1>9. ASSUME NEW j \in Joins, HelperDone(j) PROVE BoxInv'
  BY <1>9 DEF HelperDone
<1>10. ASSUME NEW j \in Joins, HelperUnlock(j) \/ HelperFree(j) PROVE BoxInv'
  BY <1>10 DEF HelperUnlock, HelperFree
<1>11. ASSUME NEW j \in Joins, TargetEnds(j) PROVE BoxInv'
  BY <1>11 DEF TargetEnds
<1>12. CASE Expire \/ UNCHANGED vars
  BY <1>12 DEF Expire, vars
<1> QED
  BY <1>1, <1>2, <1>3, <1>4, <1>5, <1>6, <1>7, <1>8, <1>9, <1>10, <1>11, <1>12
     DEF Next, CallerStep, HelperStep

(* The handoff of worker.c:126-208 is an invariant of every run. *)
THEOREM BoxInvariant == Spec => []BoxInv
<1>1. Init => BoxInv
  <2> SUFFICES ASSUME Init PROVE BoxInv
    OBVIOUS
  <2>1. /\ box \in [Joins -> {"none", "live", "freed"}]
        /\ mu \in [Joins -> {"nobody", "caller", "helper"}]
        /\ rc \in [Joins -> {0, 1}]
        /\ result \in [Joins -> {"none", "joined", "late", "error"}]
        /\ running \subseteq Joins
    BY DEF Init
  <2>2. /\ expired \in BOOLEAN /\ done \in [Joins -> BOOLEAN]
        /\ released \in [Joins -> BOOLEAN] /\ free_self \in [Joins -> BOOLEAN]
    BY DEF Init
  <2>3. TypeOK
    BY <2>1, <2>2 DEF Init, TypeOK
  <2>4. BoxSafe /\ ResultHonest
    BY DEF Init, BoxSafe, ResultHonest, CallerUses, HelperUses
  <2>5. MutexHeld /\ Handoff
    BY DEF Init, MutexHeld, Handoff, HelperUses
  <2> QED
    BY <2>3, <2>4, <2>5 DEF BoxInv
<1> QED
  BY <1>1, StepInv, PTL DEF Spec

(* Nobody uses the box of awp_pthread_join_deadline after it is freed, and *)
(* it is freed once, however the deadline falls.                           *)
THEOREM BoxNeverUsedAfterFree == Spec => []BoxSafe
<1>1. BoxInv => BoxSafe
  BY DEF BoxInv
<1> QED
  BY <1>1, BoxInvariant, PTL

(* A successful join is of a thread that has ended and a late one comes    *)
(* after the deadline: what Pool!JoinDone and Pool!JoinTimeout assume.     *)
THEOREM JoinHonest == Spec => []ResultHonest
<1>1. BoxInv => ResultHonest
  BY DEF BoxInv
<1> QED
  BY <1>1, BoxInvariant, PTL

=============================================================================
