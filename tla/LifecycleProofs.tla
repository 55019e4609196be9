--------------------------- MODULE LifecycleProofs ---------------------------
(****************************************************************************)
(* What every implementation of Lifecycle can rely on.                      *)
(****************************************************************************)
EXTENDS Lifecycle, TLAPS

THEOREM LifecycleTypes == Spec => []TypeOk
<1>1. Init => TypeOk
  BY DEF Init, TypeOk, Statuses
<1>2. TypeOk /\ [Next]_vars => TypeOk'
  BY DEF TypeOk, Next, Statuses, Switch, Acquire, Drop, BeginClose, EndClose, vars
<1> QED
  BY <1>1, <1>2, PTL DEF Spec

(* A provider that is closing or closed has no holder: BeginClose looks,    *)
(* and nobody can acquire what is no longer active.                         *)
THEOREM LifecycleSafe == Spec => []ClosedUnused
<1>1. Init => ClosedUnused
  BY DEF Init, ClosedUnused, In
<1>2. TypeOk /\ ClosedUnused /\ [Next]_vars => ClosedUnused'
  <2> SUFFICES ASSUME TypeOk, ClosedUnused, [Next]_vars PROVE ClosedUnused'
    OBVIOUS
  <2>1. ASSUME NEW S \in SUBSET Resources, Switch(S) PROVE ClosedUnused'
    BY <2>1 DEF Switch, ClosedUnused, In
  <2>2. ASSUME NEW h \in Holders, NEW S \in SUBSET Resources, Acquire(h, S)
        PROVE  ClosedUnused'
    BY <2>2 DEF Acquire, ClosedUnused, In
  <2>3. ASSUME NEW h \in Holders, NEW S \in SUBSET Resources, Drop(h, S)
        PROVE  ClosedUnused'
    BY <2>3 DEF Drop, ClosedUnused, In
  <2>4. ASSUME NEW r \in Resources, BeginClose(r) PROVE ClosedUnused'
    BY <2>4 DEF BeginClose, ClosedUnused, In, TypeOk
  <2>5. ASSUME NEW r \in Resources, EndClose(r) PROVE ClosedUnused'
    BY <2>5 DEF EndClose, ClosedUnused, In, TypeOk
  <2>6. CASE UNCHANGED vars
    BY <2>6 DEF vars, ClosedUnused, In
  <2> QED
    BY <2>1, <2>2, <2>3, <2>4, <2>5, <2>6 DEF Next
<1> QED
  BY <1>1, <1>2, LifecycleTypes, PTL DEF Spec

(* A provider never becomes young again.                                    *)
THEOREM LifecycleAges == Spec => LifeGoesOn
<1>1. TypeOk /\ [Next]_vars => [\A r \in Resources : Age(status[r]) <= Age(status'[r])]_vars
  <2> SUFFICES ASSUME TypeOk, [Next]_vars, NEW r \in Resources
               PROVE  Age(status[r]) <= Age(status'[r])
    OBVIOUS
  <2>1. Age(status[r]) \in Nat
    BY DEF TypeOk, Statuses, Age
  <2>2. ASSUME NEW S \in SUBSET Resources, Switch(S) PROVE Age(status[r]) <= Age(status'[r])
    BY <2>1, <2>2 DEF Switch, Age, In
  <2>3. ASSUME NEW q \in Resources, BeginClose(q) \/ EndClose(q)
        PROVE  Age(status[r]) <= Age(status'[r])
    BY <2>1, <2>3 DEF BeginClose, EndClose, Age, TypeOk
  <2>4. CASE status' = status
    BY <2>1, <2>4 DEF Age
  <2> QED
    BY <2>2, <2>3, <2>4 DEF Next, Acquire, Drop, vars
<1> QED
  BY <1>1, LifecycleTypes, PTL DEF Spec, LifeGoesOn
==============================================================================
