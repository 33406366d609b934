----------------------------- MODULE ScanThrottle -----------------------------
(***************************************************************************)
(* The request rate while scans run: _scan_qps_enter and _scan_qps_exit of *)
(* api/routes_diff.py raise the global rate to a floor for the first scan  *)
(* and put it back after the last one.  They hold a lock of their own; the *)
(* user's knob (POST /api/rate-limit) does not take it.                    *)
(***************************************************************************)
EXTENDS Integers, FiniteSets, FiniteSetTheorems, TLAPS

CONSTANTS
  Scans,       \* threads that scan, again and again
  Floor,       \* _SCAN_QPS_FLOOR
  Rates,       \* what the user may set
  RacyKnob,    \* may the knob turn while a scan enters or leaves?
  None

ASSUME RateAssumption == Floor \in Nat /\ Rates \subseteq Nat /\ Rates # {}
ASSUME NoneAssumption == None \notin Nat /\ RacyKnob \in BOOLEAN
ASSUME ScansAssumption == IsFiniteSet(Scans) /\ None \notin Scans

VARIABLES
  qps,     \* of the global rate limiter
  active,  \* _SCAN_QPS_ACTIVE
  saved,   \* _SCAN_QPS_SAVED
  lock,    \* the scan that holds _SCAN_QPS_LOCK, or None
  scan,    \* per scan: where it is
  wish,    \* ghost: what the user has last set
  turned   \* ghost: the knob was turned since the first scan saved the rate

vars == <<qps, active, saved, lock, scan, wish, turned>>

Steps == {"out", "entering", "raising", "in", "leaving", "restoring"}

Init ==
  /\ qps \in Rates
  /\ wish = qps /\ turned = FALSE
  /\ active = 0 /\ saved = None
  /\ lock = None
  /\ scan = [s \in Scans |-> "out"]

Higher(a, b) == IF a > b THEN a ELSE b
Go(s, step) == scan' = [scan EXCEPT ![s] = step]
Release(s, step) == lock' = None /\ Go(s, step)

\* set_rate_limit
TurnKnob(rate) ==
  /\ RacyKnob \/ lock = None
  /\ qps' = rate /\ wish' = rate /\ turned' = TRUE
  /\ UNCHANGED <<active, saved, lock, scan>>

-----------------------------------------------------------------------------
(* _scan_qps_enter                                                         *)

Enter(s) ==
  /\ scan[s] = "out" /\ lock = None
  /\ lock' = s
  /\ active' = active + 1
  /\ Go(s, "entering")
  /\ UNCHANGED <<qps, saved, wish, turned>>

SaveAlways(s) ==                     \* mutant: each scan saves what it finds
  /\ scan[s] = "entering"
  /\ saved' = qps /\ turned' = FALSE
  /\ IF qps < Floor THEN Go(s, "raising") /\ UNCHANGED lock
     ELSE Release(s, "in")
  /\ UNCHANGED <<qps, active, wish>>

\* Only the first scan reads the rate and saves it.
Save(s) ==
  /\ scan[s] = "entering"
  /\ saved' = IF active = 1 THEN qps ELSE saved
  /\ turned' = (active > 1 /\ turned)
  /\ IF active = 1 /\ qps < Floor THEN Go(s, "raising") /\ UNCHANGED lock
     ELSE Release(s, "in")
  /\ UNCHANGED <<qps, active, wish>>

Raise(s) ==
  /\ scan[s] = "raising"
  /\ qps' = Floor
  /\ Release(s, "in")
  /\ UNCHANGED <<active, saved, wish, turned>>

-----------------------------------------------------------------------------
(* _scan_qps_exit, in the finally of the scan                              *)

LeaveBelowZero(s) ==                 \* mutant: a scan that leaves twice
  /\ scan[s] \in {"in", "leaving"} /\ lock \in {None, s}
  /\ lock' = s
  /\ active' = active - 1
  /\ Go(s, "leaving")
  /\ UNCHANGED <<qps, saved, wish, turned>>

Leave(s) ==
  /\ scan[s] = "in" /\ lock = None
  /\ lock' = s
  /\ active' = Higher(0, active - 1)
  /\ Go(s, "leaving")
  /\ UNCHANGED <<qps, saved, wish, turned>>

CompareAnyone(s) ==                  \* mutant: the first scan to leave restores
  /\ scan[s] = "leaving"
  /\ IF saved # None /\ qps = Higher(saved, Floor)
     THEN Go(s, "restoring") /\ UNCHANGED <<lock, saved>>
     ELSE Release(s, "out") /\ saved' = IF active = 0 THEN None ELSE saved
  /\ UNCHANGED <<qps, active, wish, turned>>

\* The last scan restores the rate, unless it is no longer the one it set.
Compare(s) ==
  /\ scan[s] = "leaving"
  /\ IF active = 0 /\ saved # None
     THEN IF qps = Higher(saved, Floor)
          THEN Go(s, "restoring") /\ UNCHANGED <<lock, saved>>
          ELSE Release(s, "out") /\ saved' = None
     ELSE Release(s, "out") /\ UNCHANGED saved
  /\ UNCHANGED <<qps, active, wish, turned>>

Restore(s) ==
  /\ scan[s] = "restoring"
  /\ qps' = saved /\ saved' = None
  /\ Release(s, "out")
  /\ UNCHANGED <<active, wish, turned>>

-----------------------------------------------------------------------------
ScanStep(s) ==
  Enter(s) \/ Save(s) \/ Raise(s) \/ Leave(s) \/ Compare(s) \/ Restore(s)

Next == (\E rate \in Rates : TurnKnob(rate)) \/ \E s \in Scans : ScanStep(s)

Spec == Init /\ [][Next]_vars

-----------------------------------------------------------------------------
(* Properties.                                                             *)

TypeOK ==
  /\ qps \in Nat /\ wish \in Rates /\ turned \in BOOLEAN
  /\ active \in Nat
  /\ saved \in Nat \cup {None}
  /\ lock \in Scans \cup {None}
  /\ scan \in [Scans -> Steps]

Inside == {s \in Scans : scan[s] \in {"entering", "raising", "in"}}

\* The count is that of the scans, and a rate is saved exactly while some scan
\* has raised it and has not been the last to leave.
CountsScans ==
  /\ active = Cardinality(Inside)
  /\ lock = None => (saved # None <=> active > 0)

\* Once the scans are over the user's rate is in force again, however they
\* overlap: the two defects the comment says are gone (routes_diff.py:34-38).
\* It fails where the knob is turned to the floor itself, or while a scan
\* enters or leaves, and the code takes the user's rate for its own.
RateComesBack == active = 0 /\ lock = None => qps = wish

\* While a scan runs the rate is at the floor or above, unless the user has
\* turned the knob since: the first scan to leave does not slow down the rest.
ScansRunFast == active > 0 /\ lock = None => turned \/ qps >= Floor

-----------------------------------------------------------------------------
(* Proofs.  For any number of scans and any rates: the counter counts the  *)
(* scans and no scan is slowed down by another one that ends; and as long  *)
(* as the knob neither stands at the floor itself nor turns between a      *)
(* comparison and its restoring, the user's rate comes back.               *)

USE RateAssumption, NoneAssumption, ScansAssumption

Locking == {"entering", "raising", "leaving", "restoring"}

\* The lock is held by the one scan that is between two of its steps.
LockOK == \A s \in Scans : scan[s] \in Locking <=> lock = s

CountOK == active = Cardinality(Inside)

\* With the lock free a rate is saved exactly while scans are counted.
SavedOK == lock = None => (saved # None <=> active > 0)

\* What the holder of the lock may rely on, by the step it has reached.
PhaseOK ==
  \A s \in Scans :
    /\ scan[s] = "entering" => active > 0 /\ (active = 1 <=> saved = None)
    /\ scan[s] = "raising" => active = 1 /\ saved # None
    /\ scan[s] = "leaving" => saved # None
    /\ scan[s] = "restoring" => active = 0 /\ saved # None

\* From the moment the first scan has raised the rate.
Raised == \A s \in Scans : /\ scan[s] # "raising"
                           /\ scan[s] = "entering" => active > 1
FastOK == active > 0 /\ Raised => turned \/ qps >= Floor

IInv == TypeOK /\ LockOK /\ CountOK /\ SavedOK /\ PhaseOK /\ FastOK

\* The scans that are counted are finitely many.
LEMMA InsideFinite == IsFiniteSet(Inside) /\ Cardinality(Inside) \in Nat
<1>1. Inside \subseteq Scans BY DEF Inside
<1> QED BY <1>1, FS_Subset, FS_CardinalityType

\* IInv holds before any scan.
LEMMA InitIInv == Init => IInv
<1> SUFFICES ASSUME Init PROVE IInv
  OBVIOUS
<1> USE DEF Init
<1>1. TypeOK BY DEF TypeOK, Steps
<1>2. LockOK BY DEF LockOK, Locking
<1>3. CountOK
  <2>1. Inside = {} BY DEF Inside
  <2> QED BY <2>1, FS_EmptySet DEF CountOK
<1>4. SavedOK /\ PhaseOK /\ FastOK BY DEF SavedOK, PhaseOK, FastOK
<1> QED BY <1>1, <1>2, <1>3, <1>4 DEF IInv

\* The knob changes the rate only, and says so in `turned'.
LEMMA KnobKeepsIInv ==
  ASSUME IInv, NEW rate \in Rates, TurnKnob(rate)
  PROVE  IInv'
<1> USE DEF TurnKnob, IInv
<1>1. TypeOK' BY DEF TypeOK
<1>2. LockOK' BY DEF LockOK
<1>3. CountOK' BY DEF CountOK, Inside
<1>4. SavedOK' /\ PhaseOK' BY DEF SavedOK, PhaseOK
<1>5. FastOK' BY DEF FastOK
<1> QED BY <1>1, <1>2, <1>3, <1>4, <1>5

\* A scan takes the lock and is counted.
LEMMA EnterKeepsIInv ==
  ASSUME IInv, NEW s \in Scans, Enter(s)
  PROVE  IInv'
<1> USE DEF Enter, Go, IInv
<1>1. \A x \in Scans : scan[x] \notin Locking BY DEF LockOK
<1>2. scan' = [scan EXCEPT ![s] = "entering"] /\ scan \in [Scans -> Steps]
  BY DEF TypeOK
<1>3. TypeOK' BY DEF TypeOK, Steps
<1>4. LockOK' BY <1>1, <1>2 DEF LockOK, Locking
<1>5. CountOK'
  <2>1. Inside' = Inside \cup {s} /\ s \notin Inside BY <1>2 DEF Inside
  <2>2. Cardinality(Inside') = Cardinality(Inside) + 1
    BY <2>1, InsideFinite, FS_AddElement
  <2> QED BY <2>2 DEF CountOK
<1>6. SavedOK' BY DEF SavedOK
<1>7. PhaseOK' BY <1>1, <1>2 DEF PhaseOK, SavedOK, TypeOK, Locking
<1>8. FastOK' BY <1>1, <1>2 DEF FastOK, Raised, TypeOK, Locking
<1> QED BY <1>3, <1>4, <1>5, <1>6, <1>7, <1>8

\* The first scan saves the rate, the others find it saved.
LEMMA SaveKeepsIInv ==
  ASSUME IInv, NEW s \in Scans, Save(s)
  PROVE  IInv'
<1> USE DEF Save, Go, Release, IInv
<1>1. lock = s /\ \A x \in Scans : x # s => scan[x] \notin Locking
  BY DEF LockOK, Locking
<1>2. active > 0 /\ (active = 1 <=> saved = None) BY DEF PhaseOK
<1>3. scan \in [Scans -> Steps] /\ active \in Nat /\ qps \in Nat BY DEF TypeOK
<1>4. /\ scan'[s] \in {"raising", "in"}
      /\ \A x \in Scans : x # s => scan'[x] = scan[x]
      /\ saved' # None
  BY <1>2, <1>3
<1>5. TypeOK' BY DEF TypeOK, Steps
<1>6. LockOK'
  <2>1. CASE active = 1 /\ qps < Floor
    <3>1. lock' = s /\ scan'[s] = "raising" BY <2>1, <1>1, <1>3
    <3> QED BY <3>1, <1>1, <1>4 DEF LockOK, Locking
  <2>2. CASE ~(active = 1 /\ qps < Floor)
    <3>1. lock' = None /\ scan'[s] = "in" BY <2>2, <1>3
    <3> QED BY <3>1, <1>1, <1>4 DEF LockOK, Locking
  <2> QED BY <2>1, <2>2
<1>7. CountOK'
  <2>1. Inside' = Inside BY <1>4 DEF Inside
  <2> QED BY <2>1 DEF CountOK
<1>8. SavedOK' BY <1>2, <1>4 DEF SavedOK
<1>9. PhaseOK' BY <1>1, <1>2, <1>3, <1>4 DEF PhaseOK, Locking
<1>10. FastOK'
  <2>1. CASE active = 1
    <3>1. qps >= Floor \/ scan'[s] = "raising" BY <2>1, <1>3
    <3> QED BY <3>1, <2>1 DEF FastOK, Raised
  <2>2. CASE active > 1
    <3>1. Raised BY <1>1, <2>2 DEF Raised, Locking
    <3> QED BY <3>1, <2>2 DEF FastOK
  <2> QED BY <2>1, <2>2, <1>2, <1>3
<1> QED BY <1>5, <1>6, <1>7, <1>8, <1>9, <1>10

\* The rate is raised to the floor.
LEMMA RaiseKeepsIInv ==
  ASSUME IInv, NEW s \in Scans, Raise(s)
  PROVE  IInv'
<1> USE DEF Raise, Go, Release, IInv
<1>1. lock = s /\ \A x \in Scans : x # s => scan[x] \notin Locking
  BY DEF LockOK, Locking
<1>2. active = 1 /\ saved # None BY DEF PhaseOK
<1>3. scan' = [scan EXCEPT ![s] = "in"] /\ scan \in [Scans -> Steps]
  BY DEF TypeOK
<1>4. TypeOK' BY DEF TypeOK, Steps
<1>5. LockOK' BY <1>1, <1>3 DEF LockOK, Locking
<1>6. CountOK'
  <2>1. Inside' = Inside BY <1>3 DEF Inside
  <2> QED BY <2>1 DEF CountOK
<1>7. SavedOK' BY <1>2 DEF SavedOK
<1>8. PhaseOK' BY <1>1, <1>3 DEF PhaseOK, Locking
<1>9. FastOK' BY DEF FastOK
<1> QED BY <1>4, <1>5, <1>6, <1>7, <1>8, <1>9

\* A scan takes the lock and is no longer counted.
LEMMA LeaveKeepsIInv ==
  ASSUME IInv, NEW s \in Scans, Leave(s)
  PROVE  IInv'
<1> USE DEF Leave, Go, IInv
<1>1. \A x \in Scans : scan[x] \notin Locking BY DEF LockOK
<1>2. scan' = [scan EXCEPT ![s] = "leaving"] /\ scan \in [Scans -> Steps]
  BY DEF TypeOK
<1>3. active > 0
  <2>1. s \in Inside BY DEF Inside
  <2>2. Cardinality(Inside) # 0 BY <2>1, InsideFinite, FS_EmptySet
  <2> QED BY <2>2, InsideFinite DEF CountOK
<1>4. active' = active - 1 /\ active \in Nat BY <1>3 DEF Higher, TypeOK
<1>5. TypeOK' BY <1>3, <1>4 DEF TypeOK, Steps
<1>6. LockOK' BY <1>1, <1>2 DEF LockOK, Locking
<1>7. CountOK'
  <2>1. Inside' = Inside \ {s} /\ s \in Inside BY <1>2 DEF Inside
  <2>2. Cardinality(Inside') = Cardinality(Inside) - 1
    BY <2>1, InsideFinite, FS_RemoveElement
  <2> QED BY <2>2, <1>4 DEF CountOK
<1>8. SavedOK' BY DEF SavedOK
<1>9. PhaseOK' BY <1>1, <1>2, <1>3 DEF PhaseOK, SavedOK, Locking
<1>10. FastOK' BY <1>1, <1>3 DEF FastOK, Raised, Locking
<1> QED BY <1>5, <1>6, <1>7, <1>8, <1>9, <1>10

\* The last scan goes on to restore the rate or lets go of it, the others leave.
LEMMA CompareKeepsIInv ==
  ASSUME IInv, NEW s \in Scans, Compare(s)
  PROVE  IInv'
<1> USE DEF Compare, Go, Release, IInv
<1>1. lock = s /\ \A x \in Scans : x # s => scan[x] \notin Locking
  BY DEF LockOK, Locking
<1>2. saved # None BY DEF PhaseOK
<1>3. scan \in [Scans -> Steps] /\ active \in Nat BY DEF TypeOK
<1>4. /\ scan'[s] \in {"restoring", "out"}
      /\ \A x \in Scans : x # s => scan'[x] = scan[x]
  BY <1>3
<1>5. TypeOK' BY DEF TypeOK, Steps
<1>6. \/ lock' = s /\ scan'[s] = "restoring" /\ active = 0 /\ saved' = saved
      \/ lock' = None /\ scan'[s] = "out" /\ (saved' # None <=> active > 0)
  BY <1>1, <1>2, <1>3
<1>7. LockOK' BY <1>1, <1>4, <1>6 DEF LockOK, Locking
<1>8. CountOK'
  <2>1. Inside' = Inside BY <1>4 DEF Inside
  <2> QED BY <2>1 DEF CountOK
<1>9. SavedOK' BY <1>6 DEF SavedOK
<1>10. PhaseOK' BY <1>1, <1>2, <1>4, <1>6 DEF PhaseOK, Locking
<1>11. FastOK' BY <1>1, <1>4 DEF FastOK, Raised, Locking
<1> QED BY <1>5, <1>7, <1>8, <1>9, <1>10, <1>11

\* The saved rate is set, and nothing is saved any longer.
LEMMA RestoreKeepsIInv ==
  ASSUME IInv, NEW s \in Scans, Restore(s)
  PROVE  IInv'
<1> USE DEF Restore, Go, Release, IInv
<1>1. lock = s /\ \A x \in Scans : x # s => scan[x] \notin Locking
  BY DEF LockOK, Locking
<1>2. active = 0 /\ saved # None BY DEF PhaseOK
<1>3. scan' = [scan EXCEPT ![s] = "out"] /\ scan \in [Scans -> Steps]
  BY DEF TypeOK
<1>4. TypeOK' BY <1>2 DEF TypeOK, Steps
<1>5. LockOK' BY <1>1, <1>3 DEF LockOK, Locking
<1>6. CountOK'
  <2>1. Inside' = Inside BY <1>3 DEF Inside
  <2> QED BY <2>1 DEF CountOK
<1>7. SavedOK' BY <1>2 DEF SavedOK
<1>8. PhaseOK' BY <1>1, <1>3 DEF PhaseOK, Locking
<1>9. FastOK' BY <1>2 DEF FastOK
<1> QED BY <1>4, <1>5, <1>6, <1>7, <1>8, <1>9

\* No step of the system leaves IInv.
LEMMA NextKeepsIInv == IInv /\ [Next]_vars => IInv'
<1> SUFFICES ASSUME IInv, [Next]_vars PROVE IInv'
  OBVIOUS
<1>1. CASE \E rate \in Rates : TurnKnob(rate) BY <1>1, KnobKeepsIInv
<1>2. CASE \E s \in Scans : ScanStep(s)
  <2>1. PICK s \in Scans : ScanStep(s) BY <1>2
  <2> QED BY <2>1, EnterKeepsIInv, SaveKeepsIInv, RaiseKeepsIInv,
             LeaveKeepsIInv, CompareKeepsIInv, RestoreKeepsIInv DEF ScanStep
<1>3. CASE UNCHANGED vars
  BY <1>3 DEF vars, IInv, TypeOK, LockOK, CountOK, Inside, SavedOK, PhaseOK,
              FastOK, Raised
<1> QED BY <1>1, <1>2, <1>3 DEF Next

\* The inductive invariant holds throughout, whatever the knob does.
LEMMA AlwaysIInv == Spec => []IInv
  BY InitIInv, NextKeepsIInv, PTL DEF Spec

\* Every reachable state is well typed; in particular the number of active
\* scans never becomes negative.
THEOREM TypeCorrect == Spec => []TypeOK
  BY AlwaysIInv, PTL DEF IInv

\* The counter is the number of scans, and a rate is saved while there are any.
THEOREM CounterIsExact == Spec => []CountsScans
<1>1. IInv => CountsScans BY DEF IInv, CountOK, SavedOK, CountsScans
<1> QED BY <1>1, AlwaysIInv, PTL

\* Until the user turns the knob, no scan runs below the floor.
THEOREM ScansStayFast == Spec => []ScansRunFast
<1>1. IInv => ScansRunFast
  <2> SUFFICES ASSUME IInv, lock = None PROVE ScansRunFast
    BY DEF ScansRunFast
  <2>1. Raised BY DEF IInv, LockOK, Raised, Locking
  <2> QED BY <2>1 DEF IInv, FastOK, ScansRunFast
<1> QED BY <1>1, AlwaysIInv, PTL

-----------------------------------------------------------------------------
(* The user's rate.                                                        *)

\* The rate is the user's, or what the first scan has raised the user's to.
RateOK ==
  /\ saved \in Rates \cup {None}
  /\ \/ qps = wish
     \/ saved # None /\ wish = saved /\ qps = Higher(saved, Floor)
  /\ saved = None => qps = wish
  /\ \A s \in Scans :
       /\ scan[s] = "raising" => qps = saved /\ wish = saved /\ saved < Floor
       /\ scan[s] = "restoring" => qps = Higher(saved, Floor)

\* The knob never meets a scan that compares, raises or restores.
LEMMA KnobKeepsRate ==
  ASSUME ~RacyKnob, IInv, RateOK, NEW rate \in Rates, TurnKnob(rate)
  PROVE  RateOK'
<1>1. \A s \in Scans : scan[s] \notin Locking
  BY DEF TurnKnob, IInv, LockOK
<1> QED BY <1>1 DEF TurnKnob, RateOK, Locking

\* Each step of a scan, Compare deciding whether the rate is still its own.
LEMMA ScanKeepsRate ==
  ASSUME Floor \notin Rates, IInv, RateOK, NEW s \in Scans, ScanStep(s)
  PROVE  RateOK'
<1> USE DEF Go, Release
<1>1. /\ scan \in [Scans -> Steps] /\ active \in Nat
      /\ qps \in Nat /\ wish \in Rates
  BY DEF IInv, TypeOK
<1>2. scan[s] \in Locking => /\ lock = s
                             /\ \A x \in Scans : x # s => scan[x] \notin Locking
  BY DEF IInv, LockOK
<1>3. lock = None => \A x \in Scans : scan[x] \notin Locking
  BY DEF IInv, LockOK
<1>4. CASE Enter(s) BY <1>4, <1>1, <1>3 DEF Enter, RateOK, Locking
<1>5. CASE Save(s)
  <2>1. active = 1 <=> saved = None BY <1>5 DEF Save, IInv, PhaseOK
  <2>2. qps = wish \/ active # 1 BY <2>1 DEF RateOK
  <2> QED BY <1>5, <1>1, <1>2, <2>1, <2>2 DEF Save, RateOK, Locking, Higher
<1>6. CASE Raise(s)
  BY <1>6, <1>1, <1>2 DEF Raise, RateOK, Locking, Higher, IInv, PhaseOK
<1>7. CASE Leave(s) BY <1>7, <1>1, <1>3 DEF Leave, RateOK, Locking
<1>8. CASE Compare(s)
  <2>1. saved # None /\ saved \in Rates
    BY <1>8 DEF Compare, IInv, PhaseOK, RateOK
  <2> QED BY <1>8, <1>1, <1>2, <2>1 DEF Compare, RateOK, Locking
<1>9. CASE Restore(s)
  <2>1. saved \in Rates /\ saved # None /\ qps = Higher(saved, Floor)
    BY <1>9 DEF Restore, IInv, PhaseOK, RateOK
  <2>2. wish = saved BY <2>1, <1>1 DEF RateOK, Higher
  <2> QED BY <1>9, <1>1, <1>2, <2>2 DEF Restore, RateOK, Locking
<1> QED BY <1>4, <1>5, <1>6, <1>7, <1>8, <1>9 DEF ScanStep

\* With a knob that keeps off the floor and off the moment of restoring, the
\* last scan to leave gives the user's rate back.
THEOREM RateIsGivenBack ==
  ASSUME ~RacyKnob, Floor \notin Rates
  PROVE  Spec => []RateComesBack
<1>1. Init => RateOK BY DEF Init, RateOK
<1>2. IInv /\ RateOK /\ [Next]_vars => RateOK'
  <2> SUFFICES ASSUME IInv, RateOK, [Next]_vars PROVE RateOK'
    OBVIOUS
  <2>1. CASE \E rate \in Rates : TurnKnob(rate) BY <2>1, KnobKeepsRate
  <2>2. CASE \E s \in Scans : ScanStep(s) BY <2>2, ScanKeepsRate
  <2>3. CASE UNCHANGED vars BY <2>3 DEF vars, RateOK
  <2> QED BY <2>1, <2>2, <2>3 DEF Next
<1>3. IInv /\ RateOK => RateComesBack
  BY DEF IInv, SavedOK, RateOK, RateComesBack, TypeOK
<1> QED BY <1>1, <1>2, <1>3, AlwaysIInv, PTL DEF Spec
=============================================================================
