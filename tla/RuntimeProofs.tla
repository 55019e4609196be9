----------------------------- MODULE RuntimeProofs -----------------------------
(****************************************************************************)
(* Proofs about Runtime: the inductive invariants of RuntimeInvariants hold *)
(* for any number of threads and resources; the safety properties and the   *)
(* action properties of Runtime follow from them, and so does that Runtime  *)
(* implements Lifecycle.                                                    *)
(****************************************************************************)
EXTENDS RuntimeInvariants, FiniteSetTheorems, TLAPS

(****************************************************************************)
(* Counting: users[r] stays the number of holders plus the flush job.       *)
(****************************************************************************)
LEMMA HoldersFinite ==
    ASSUME NEW r PROVE /\ IsFiniteSet(HoldersOf(r))
                       /\ Cardinality(HoldersOf(r)) \in Nat
<1>1. HoldersOf(r) \subseteq Threads
  BY DEF HoldersOf
<1>2. IsFiniteSet(HoldersOf(r))
  BY <1>1, ThreadsAssumption, FS_Subset
<1> QED
  BY <1>2, FS_CardinalityType

(* A thread that held nothing takes S. *)
LEMMA CountLease ==
    ASSUME TypeOk, UsersCount, NEW t \in Threads, held[t] = {},
           NEW S \in SUBSET Resources, users' = Leased(S),
           held' = [held EXCEPT ![t] = S], flushing' = flushing
    PROVE  UsersCount' /\ users' \in [Resources -> Nat]
<1> SUFFICES ASSUME NEW r \in Resources
             PROVE  users'[r] = Cardinality(HoldersOf(r)') + (IF FlushUses(r)' THEN 1 ELSE 0)
  BY HoldersFinite DEF UsersCount, TypeOk, Leased
<1>1. CASE r \in S
  <2>1. HoldersOf(r)' = HoldersOf(r) \union {t} /\ t \notin HoldersOf(r)
    BY <1>1 DEF HoldersOf, TypeOk
  <2>2. Cardinality(HoldersOf(r)') = Cardinality(HoldersOf(r)) + 1
    BY <2>1, HoldersFinite, FS_AddElement
  <2> QED
    BY <1>1, <2>2, HoldersFinite DEF UsersCount, Leased, FlushUses, TypeOk
<1>2. CASE r \notin S
  <2>1. HoldersOf(r)' = HoldersOf(r)
    BY <1>2 DEF HoldersOf, TypeOk
  <2> QED
    BY <1>2, <2>1 DEF UsersCount, Leased, FlushUses, TypeOk
<1> QED
  BY <1>1, <1>2

(* A thread lets go of everything it holds. *)
LEMMA CountRelease ==
    ASSUME TypeOk, UsersCount, NEW t \in Threads, users' = Released(held[t]),
           held' = [held EXCEPT ![t] = {}], flushing' = flushing
    PROVE  UsersCount' /\ users' \in [Resources -> Nat]
<1> SUFFICES ASSUME NEW r \in Resources
             PROVE  /\ users'[r] = Cardinality(HoldersOf(r)') + (IF FlushUses(r)' THEN 1 ELSE 0)
                    /\ users'[r] \in Nat
  BY DEF UsersCount, TypeOk, Released
<1>1. CASE r \in held[t]
  <2>1. HoldersOf(r)' = HoldersOf(r) \ {t} /\ t \in HoldersOf(r)
    BY <1>1 DEF HoldersOf, TypeOk
  <2>2. /\ Cardinality(HoldersOf(r)') = Cardinality(HoldersOf(r)) - 1
        /\ Cardinality(HoldersOf(r)') \in Nat
    BY <2>1, HoldersFinite, FS_RemoveElement, FS_CardinalityType
  <2> QED
    BY <1>1, <2>2, HoldersFinite DEF UsersCount, Released, FlushUses, TypeOk
<1>2. CASE r \notin held[t]
  <2>1. HoldersOf(r)' = HoldersOf(r)
    BY <1>2 DEF HoldersOf, TypeOk
  <2> QED
    BY <1>2, <2>1 DEF UsersCount, Released, FlushUses, TypeOk
<1> QED
  BY <1>1, <1>2

(* New flush jobs. *)
LEMMA CountJobs ==
    ASSUME TypeOk, UsersCount, NEW S \in SUBSET Resources,
           \A r \in S : flushing[r] = "none", users' = JobLeased(S),
           flushing' = [r \in Resources |-> IF r \in S THEN "run" ELSE flushing[r]],
           held' = held
    PROVE  UsersCount' /\ users' \in [Resources -> Nat]
<1> SUFFICES ASSUME NEW r \in Resources
             PROVE  users'[r] = Cardinality(HoldersOf(r)') + (IF FlushUses(r)' THEN 1 ELSE 0)
  BY HoldersFinite DEF UsersCount, TypeOk, JobLeased, Leased
<1>1. HoldersOf(r)' = HoldersOf(r)
  BY DEF HoldersOf
<1> QED
  BY <1>1, HoldersFinite DEF UsersCount, JobLeased, Leased, FlushUses, TypeOk

(* A flush job lets go. *)
LEMMA CountJobEnds ==
    ASSUME TypeOk, UsersCount, NEW r \in Resources, flushing[r] = "run",
           users' = Released({r}), flushing' = [flushing EXCEPT ![r] = "released"],
           held' = held
    PROVE  UsersCount' /\ users' \in [Resources -> Nat]
<1> SUFFICES ASSUME NEW q \in Resources
             PROVE  /\ users'[q] = Cardinality(HoldersOf(q)') + (IF FlushUses(q)' THEN 1 ELSE 0)
                    /\ users'[q] \in Nat
  BY DEF UsersCount, TypeOk, Released
<1>1. HoldersOf(q)' = HoldersOf(q)
  BY DEF HoldersOf
<1> QED
  BY <1>1, HoldersFinite DEF UsersCount, Released, FlushUses, TypeOk

(* Steps that touch neither holders, nor flush jobs in progress, nor users. *)
LEMMA CountSame ==
    ASSUME TypeOk, UsersCount, users' = users, held' = held,
           \A r \in Resources : flushing'[r] = "run" <=> flushing[r] = "run"
    PROVE  UsersCount'
BY DEF UsersCount, HoldersOf, FlushUses

(****************************************************************************)
(* Steps that leave the runtime's own state alone: a thread moves on or its *)
(* call record changes.                                                     *)
(****************************************************************************)
LEMMA Quiet ==
    ASSUME IInv, TypeOk', WaitedClosed',
           UNCHANGED <<global, key, users, retired, closed, cleanup, held, plan>>,
           \A r \in Resources : flushing'[r] = "run" <=> flushing[r] = "run",
           \A t \in Threads : /\ pc'[t] \in Publishing \union {"stop"} <=> pc[t] \in Publishing \union {"stop"}
                              /\ pc'[t] \in Publishing => pc'[t] = pc[t]
                              /\ held[t] # {} => Place(t)' = Place(t)
    PROVE  IInv'
<1>1. UsersCount'
  BY CountSame DEF IInv
<1>2. LockHeld'
  BY DEF IInv, LockHeld, global
<1>3. LeasesDelivered'
  BY DEF IInv, LeasesDelivered
<1>4. SnapshotFits'
  BY DEF IInv, SnapshotFits, Fits, global
<1>5. SnapshotUnretired'
  BY DEF IInv, SnapshotUnretired, Unretired, Live, global
<1>6. PlanFits'
  BY DEF IInv, PlanFits, Fits, Unretired, global
<1>7. UnbuiltNowhere' /\ ClosingUnused'
  BY DEF IInv, UnbuiltNowhere, ClosingUnused, Unretired
<1>8. OnlyConfigureRestarts'
  BY DEF IInv, OnlyConfigureRestarts, Publishing, global
<1> QED
  BY <1>1, <1>2, <1>3, <1>4, <1>5, <1>6, <1>7, <1>8 DEF IInv

LEMMA CallTyped ==
    ASSUME TypeOk, NEW t \in Threads, NEW c \in CallRecords, InCall(t, c)
    PROVE  call' \in [Threads -> CallRecords] /\ call'[t] = c
BY DEF TypeOk, InCall

(* One waiter's progress. *)
LEMMA Ticking ==
    ASSUME WaitedClosed, NEW t \in Threads, closed' = closed,
           \A u \in Threads \ {t} : call'[u] = call[u] /\ pc'[u] = pc[u],
           pc'[t] \in Waiting => call'[t].scope \subseteq call'[t].todo \union closed
    PROVE  WaitedClosed'
BY DEF WaitedClosed

LEMMA NoCallTyped == NoCall \in CallRecords
BY DEF NoCall, CallRecords

(* A step of a thread alone keeps the types if it keeps those of the thread. *)
LEMMA ThreadTyped ==
    ASSUME TypeOk, UNCHANGED <<global, key, users, retired, jobs, held, plan>>,
           pc' \in [Threads -> Locations],
           cont' \in [Threads -> {"idle", "dispatch", "deliver"}],
           call' \in [Threads -> CallRecords]
    PROVE  TypeOk'
BY DEF TypeOk, global, jobs

LEMMA FacadeCallStep == ASSUME IInv, NEW t \in Threads, FacadeCall(t) PROVE IInv'
<1>1. TypeOk'
  <2>1. pc' \in [Threads -> Locations] /\ cont' \in [Threads -> {"idle", "dispatch", "deliver"}]
    <3>1. CASE Initialized
      BY <3>1 DEF IInv, TypeOk, Locations, FacadeCall, Goto
    <3>2. CASE ~Initialized
      BY <3>2 DEF IInv, TypeOk, Locations, Wanting, FacadeCall, Goto
    <3> QED
      BY <3>1, <3>2
  <2> QED
    BY <2>1, ThreadTyped DEF IInv, TypeOk, FacadeCall
<1>2. WaitedClosed'
  BY DEF IInv, TypeOk, WaitedClosed, FacadeCall, Goto, jobs, Waiting
<1>3. \A u \in Threads : /\ pc'[u] \in Publishing \union {"stop"} <=> pc[u] \in Publishing \union {"stop"}
                         /\ pc'[u] \in Publishing => pc'[u] = pc[u]
  BY DEF IInv, TypeOk, FacadeCall, Goto, Publishing, Waiting
<1>4. \A u \in Threads : held[u] # {} => Place(u)' = Place(u)
  BY DEF IInv, TypeOk, LeasesDelivered, Place, FacadeCall, Goto, Waiting
<1> QED
  BY <1>1, <1>2, <1>3, <1>4, Quiet DEF FacadeCall, jobs

LEMMA HostRecordStep == ASSUME IInv, NEW t \in Threads, HostRecord(t) PROVE IInv'
<1>1. TypeOk'
  <2>1. pc' \in [Threads -> Locations] /\ cont' \in [Threads -> {"idle", "dispatch", "deliver"}]
    BY DEF IInv, TypeOk, Locations, Wanting, Waiting, HostRecord, Goto
  <2> QED
    BY <2>1, ThreadTyped DEF IInv, TypeOk, HostRecord
<1>2. WaitedClosed'
  BY DEF IInv, TypeOk, WaitedClosed, HostRecord, Goto, jobs, Waiting
<1>3. \A u \in Threads : /\ pc'[u] \in Publishing \union {"stop"} <=> pc[u] \in Publishing \union {"stop"}
                         /\ pc'[u] \in Publishing => pc'[u] = pc[u]
  BY DEF IInv, TypeOk, HostRecord, Goto, Publishing, Waiting
<1>4. \A u \in Threads : held[u] # {} => Place(u)' = Place(u)
  BY DEF IInv, TypeOk, LeasesDelivered, Place, HostRecord, Goto, Waiting
<1> QED
  BY <1>1, <1>2, <1>3, <1>4, Quiet DEF HostRecord, jobs

LEMMA CallConfigureStep == ASSUME IInv, NEW t \in Threads, CallConfigure(t) PROVE IInv'
<1>1. TypeOk'
  <2>1. pc' \in [Threads -> Locations] /\ cont' \in [Threads -> {"idle", "dispatch", "deliver"}]
    BY DEF IInv, TypeOk, Locations, Wanting, Waiting, CallConfigure, Goto, Calling
  <2> QED
    BY <2>1, ThreadTyped DEF IInv, TypeOk, CallConfigure
<1>2. WaitedClosed'
  BY DEF IInv, TypeOk, WaitedClosed, CallConfigure, Goto, Calling, jobs, Waiting
<1>3. \A u \in Threads : /\ pc'[u] \in Publishing \union {"stop"} <=> pc[u] \in Publishing \union {"stop"}
                         /\ pc'[u] \in Publishing => pc'[u] = pc[u]
  BY DEF IInv, TypeOk, CallConfigure, Goto, Calling, Publishing, Waiting
<1>4. \A u \in Threads : held[u] # {} => Place(u)' = Place(u)
  BY DEF IInv, TypeOk, LeasesDelivered, Place, CallConfigure, Goto, Calling, Waiting
<1> QED
  BY <1>1, <1>2, <1>3, <1>4, Quiet DEF CallConfigure, jobs

LEMMA CallPackageRuleStep == ASSUME IInv, NEW t \in Threads, CallPackageRule(t) PROVE IInv'
<1>1. TypeOk'
  <2>1. pc' \in [Threads -> Locations] /\ cont' \in [Threads -> {"idle", "dispatch", "deliver"}]
    BY DEF IInv, TypeOk, Locations, Wanting, Waiting, CallPackageRule, Goto, Calling
  <2> QED
    BY <2>1, ThreadTyped DEF IInv, TypeOk, CallPackageRule
<1>2. WaitedClosed'
  BY DEF IInv, TypeOk, WaitedClosed, CallPackageRule, Goto, Calling, jobs, Waiting
<1>3. \A u \in Threads : /\ pc'[u] \in Publishing \union {"stop"} <=> pc[u] \in Publishing \union {"stop"}
                         /\ pc'[u] \in Publishing => pc'[u] = pc[u]
  BY DEF IInv, TypeOk, CallPackageRule, Goto, Calling, Publishing, Waiting
<1>4. \A u \in Threads : held[u] # {} => Place(u)' = Place(u)
  BY DEF IInv, TypeOk, LeasesDelivered, Place, CallPackageRule, Goto, Calling, Waiting
<1> QED
  BY <1>1, <1>2, <1>3, <1>4, Quiet DEF CallPackageRule, jobs

LEMMA CallShutdownStep == ASSUME IInv, NEW t \in Threads, CallShutdown(t) PROVE IInv'
<1>1. TypeOk'
  <2>1. pc' \in [Threads -> Locations] /\ cont' \in [Threads -> {"idle", "dispatch", "deliver"}]
    BY DEF IInv, TypeOk, Locations, Wanting, Waiting, CallShutdown, Goto, Calling
  <2> QED
    BY <2>1, ThreadTyped DEF IInv, TypeOk, CallShutdown
<1>2. WaitedClosed'
  BY DEF IInv, TypeOk, WaitedClosed, CallShutdown, Goto, Calling, jobs, Waiting
<1>3. \A u \in Threads : /\ pc'[u] \in Publishing \union {"stop"} <=> pc[u] \in Publishing \union {"stop"}
                         /\ pc'[u] \in Publishing => pc'[u] = pc[u]
  BY DEF IInv, TypeOk, CallShutdown, Goto, Calling, Publishing, Waiting
<1>4. \A u \in Threads : held[u] # {} => Place(u)' = Place(u)
  BY DEF IInv, TypeOk, LeasesDelivered, Place, CallShutdown, Goto, Calling, Waiting
<1> QED
  BY <1>1, <1>2, <1>3, <1>4, Quiet DEF CallShutdown, jobs

LEMMA ExpireStep == ASSUME IInv, NEW t \in Threads, Expire(t) PROVE IInv'
<1>0. call' \in [Threads -> CallRecords]
  <2>0. call[t] \in CallRecords
    BY DEF IInv, TypeOk
  <2>1. [call[t] EXCEPT !.expired = TRUE] \in CallRecords
    BY <2>0 DEF CallRecords
  <2> QED
    BY <2>1, CallTyped DEF IInv, Expire
<1>1. TypeOk'
  <2>1. pc' \in [Threads -> Locations] /\ cont' \in [Threads -> {"idle", "dispatch", "deliver"}]
    BY DEF IInv, TypeOk, Locations, Wanting, Waiting, Expire
  <2> QED
    BY <1>0, <2>1, ThreadTyped DEF IInv, Expire
<1>2. WaitedClosed'
  BY DEF IInv, TypeOk, CallRecords, WaitedClosed, Expire, InCall, jobs, Waiting
<1>3. \A u \in Threads : /\ pc'[u] \in Publishing \union {"stop"} <=> pc[u] \in Publishing \union {"stop"}
                         /\ pc'[u] \in Publishing => pc'[u] = pc[u]
  BY DEF IInv, TypeOk, Expire, Publishing, Waiting
<1>4. \A u \in Threads : held[u] # {} => Place(u)' = Place(u)
  BY DEF IInv, TypeOk, LeasesDelivered, Place, Expire, Waiting
<1> QED
  BY <1>1, <1>2, <1>3, <1>4, Quiet DEF Expire, jobs

LEMMA FlushEvalStep == ASSUME IInv, NEW t \in Threads, FlushEval(t) PROVE IInv'
<1>0. call' \in [Threads -> CallRecords]
  BY NoCallTyped, CallTyped DEF IInv, TypeOk, FlushEval, Return
<1>1. TypeOk'
  <2>1. pc' \in [Threads -> Locations] /\ cont' \in [Threads -> {"idle", "dispatch", "deliver"}]
    <3>1. pc \in [Threads -> Locations] /\ cont \in [Threads -> {"idle", "dispatch", "deliver"}]
      BY DEF IInv, TypeOk
    <3>2. CASE Return(t)
      <4>1. cont[t] \in Locations /\ cont' = [cont EXCEPT ![t] = "idle"]
        BY <3>1, <3>2 DEF Locations, Return, Resume
      <4> QED
        BY <3>1, <3>2, <4>1 DEF Return, Resume, Goto
    <3>3. CASE ~Return(t)
      BY <3>1, <3>3 DEF Locations, Waiting, FlushEval, Goto
    <3> QED
      BY <3>2, <3>3
  <2> QED
    BY <1>0, <2>1, ThreadTyped DEF IInv, FlushEval
<1>2. WaitedClosed'
  <2>1. CASE pc'[t] = "waitRetired" /\ call' = call
    <3>1. \A u \in Threads \ {t} : call'[u] = call[u] /\ pc'[u] = pc[u]
      BY <2>1 DEF IInv, TypeOk, FlushEval, Goto, Return, Resume
    <3>2. call'[t].scope \subseteq call'[t].todo \union closed
      BY <2>1 DEF IInv, WaitedClosed, FlushEval, Waiting
    <3> QED
      BY <3>1, <3>2, Ticking DEF IInv, FlushEval, jobs
  <2>2. CASE Return(t)
    BY <2>2 DEF IInv, TypeOk, WaitedClosed, FlushEval, Return, Resume, Goto, InCall, jobs, Waiting
  <2> QED
    BY <2>1, <2>2 DEF IInv, TypeOk, FlushEval, Goto
<1>3. \A u \in Threads : /\ pc'[u] \in Publishing \union {"stop"} <=> pc[u] \in Publishing \union {"stop"}
                         /\ pc'[u] \in Publishing => pc'[u] = pc[u]
  BY DEF IInv, TypeOk, FlushEval, Goto, Resume, Return, Publishing, Waiting
<1>4. \A u \in Threads : held[u] # {} => Place(u)' = Place(u)
  BY DEF IInv, TypeOk, LeasesDelivered, Place, FlushEval, Goto, Resume, Return, Waiting
<1> QED
  BY <1>1, <1>2, <1>3, <1>4, Quiet DEF FlushEval, jobs

LEMMA WaitNextStep == ASSUME IInv, NEW t \in Threads, WaitNext(t) PROVE IInv'
<1>0. call' \in [Threads -> CallRecords]
  <2>1. PICK r \in call[t].todo : IF r \in closed
                       THEN InCall(t, [call[t] EXCEPT !.todo = @ \ {r}])
                       ELSE InCall(t, [call[t] EXCEPT !.target = r,
                                            !.woken = cleanup[r] \in {"none", "done"}])
    BY DEF WaitNext
  <2>2. /\ [call[t] EXCEPT !.todo = @ \ {r}] \in CallRecords
        /\ \A b \in BOOLEAN : [call[t] EXCEPT !.target = r, !.woken = b] \in CallRecords
    <3>1. call[t] \in CallRecords
      BY DEF IInv, TypeOk
    <3> QED
      BY <3>1 DEF CallRecords
  <2>3. (cleanup[r] \in {"none", "done"}) \in BOOLEAN
    OBVIOUS
  <2>4. [call[t] EXCEPT !.target = r, !.woken = cleanup[r] \in {"none", "done"}] \in CallRecords
    BY <2>2, <2>3, Zenon
  <2> QED
    BY <2>1, <2>2, <2>4, CallTyped DEF IInv
<1>1. TypeOk'
  <2>1. pc' \in [Threads -> Locations] /\ cont' \in [Threads -> {"idle", "dispatch", "deliver"}]
    BY DEF IInv, TypeOk, Locations, Wanting, Waiting, WaitNext, Goto
  <2> QED
    BY <1>0, <2>1, ThreadTyped DEF IInv, WaitNext
<1>2. WaitedClosed'
  <2>1. \A u \in Threads \ {t} : call'[u] = call[u] /\ pc'[u] = pc[u]
    BY DEF IInv, TypeOk, WaitNext, InCall, Goto
  <2>2. /\ call'[t].scope = call[t].scope
        /\ call[t].todo \subseteq call'[t].todo \union closed
    <3>1. PICK r \in call[t].todo : IF r \in closed
                       THEN InCall(t, [call[t] EXCEPT !.todo = @ \ {r}])
                       ELSE InCall(t, [call[t] EXCEPT !.target = r,
                                            !.woken = cleanup[r] \in {"none", "done"}])
      BY DEF WaitNext
    <3>2. call[t] \in CallRecords
      BY DEF IInv, TypeOk
    <3>3. CASE r \in closed
      <4>1. call'[t] = [call[t] EXCEPT !.todo = @ \ {r}]
        BY <3>1, <3>3 DEF InCall, IInv, TypeOk
      <4>2. call'[t].todo = call[t].todo \ {r} /\ call'[t].scope = call[t].scope
        BY <3>2, <4>1 DEF CallRecords
      <4> QED
        BY <3>3, <4>2
    <3>4. CASE r \notin closed
      <4>1. call'[t] = [call[t] EXCEPT !.target = r, !.woken = cleanup[r] \in {"none", "done"}]
        BY <3>1, <3>4 DEF InCall, IInv, TypeOk
      <4>2. call'[t].todo = call[t].todo /\ call'[t].scope = call[t].scope
        BY <3>2, <4>1 DEF CallRecords
      <4> QED
        BY <4>2
    <3> QED
      BY <3>3, <3>4
  <2>3. call[t].scope \subseteq call[t].todo \union closed
    BY DEF IInv, WaitedClosed, WaitNext, Waiting
  <2> QED
    BY <2>1, <2>2, <2>3, Ticking DEF IInv, WaitNext, jobs
<1>3. \A u \in Threads : /\ pc'[u] \in Publishing \union {"stop"} <=> pc[u] \in Publishing \union {"stop"}
                         /\ pc'[u] \in Publishing => pc'[u] = pc[u]
  BY DEF IInv, TypeOk, WaitNext, Goto, Publishing, Waiting
<1>4. \A u \in Threads : held[u] # {} => Place(u)' = Place(u)
  BY DEF IInv, TypeOk, LeasesDelivered, Place, WaitNext, Goto, Waiting
<1> QED
  BY <1>1, <1>2, <1>3, <1>4, Quiet DEF WaitNext, jobs

LEMMA WaitCheckStep == ASSUME IInv, NEW t \in Threads, WaitCheck(t) PROVE IInv'
<1>0. call' \in [Threads -> CallRecords]
  <2>0. call[t] \in CallRecords
    BY DEF IInv, TypeOk
  <2>1. [call[t] EXCEPT !.todo = @ \ {call[t].target}, !.target = None, !.woken = FALSE] \in CallRecords
    BY <2>0 DEF CallRecords
  <2> QED
    BY <2>1, NoCallTyped, CallTyped DEF IInv, WaitCheck, Return
<1>1. TypeOk'
  <2>1. pc' \in [Threads -> Locations] /\ cont' \in [Threads -> {"idle", "dispatch", "deliver"}]
    BY DEF IInv, TypeOk, Locations, Wanting, Waiting, WaitCheck, Goto, Resume, Return, CleanedUp
  <2> QED
    BY <1>0, <2>1, ThreadTyped DEF IInv, WaitCheck
<1>2. WaitedClosed'
  <2>1. \A u \in Threads \ {t} : call'[u] = call[u] /\ pc'[u] = pc[u]
    BY DEF IInv, TypeOk, WaitCheck, InCall, Goto, Return, Resume
  <2>2. CASE CleanedUp(t)
    <3>1. /\ call'[t].scope = call[t].scope
          /\ call[t].todo \subseteq call'[t].todo \union closed
      <4>1. call'[t] = [call[t] EXCEPT !.todo = @ \ {call[t].target}, !.target = None, !.woken = FALSE]
        BY <2>2 DEF IInv, TypeOk, WaitCheck, InCall
      <4>2. call[t] \in CallRecords
        BY DEF IInv, TypeOk
      <4>3. call'[t].todo = call[t].todo \ {call[t].target} /\ call'[t].scope = call[t].scope
        BY <4>1, <4>2 DEF CallRecords
      <4> QED
        BY <2>2, <4>3 DEF CleanedUp
    <3>2. call[t].scope \subseteq call[t].todo \union closed
      BY DEF IInv, WaitedClosed, WaitCheck, Waiting
    <3> QED
      BY <2>1, <3>1, <3>2, Ticking DEF IInv, WaitCheck, jobs
  <2>3. CASE Return(t)
    <3>1. pc'[t] \notin Waiting
      BY <2>3 DEF IInv, TypeOk, Return, Resume, Goto, Waiting
    <3> QED
      BY <2>1, <3>1 DEF IInv, WaitedClosed, WaitCheck, jobs
  <2> QED
    BY <2>2, <2>3 DEF WaitCheck
<1>3. \A u \in Threads : /\ pc'[u] \in Publishing \union {"stop"} <=> pc[u] \in Publishing \union {"stop"}
                         /\ pc'[u] \in Publishing => pc'[u] = pc[u]
  BY DEF IInv, TypeOk, WaitCheck, Goto, Resume, Return, CleanedUp, Publishing, Waiting
<1>4. \A u \in Threads : held[u] # {} => Place(u)' = Place(u)
  BY DEF IInv, TypeOk, LeasesDelivered, Place, WaitCheck, Goto, Resume, Return, CleanedUp, Waiting
<1> QED
  BY <1>1, <1>2, <1>3, <1>4, Quiet DEF WaitCheck, jobs

LEMMA ShutdownTimeoutStep == ASSUME IInv, NEW t \in Threads, ShutdownTimeout(t) PROVE IInv'
<1>0. call' \in [Threads -> CallRecords]
  BY NoCallTyped, CallTyped DEF IInv, ShutdownTimeout, Return
<1>1. TypeOk'
  <2>1. pc' \in [Threads -> Locations] /\ cont' \in [Threads -> {"idle", "dispatch", "deliver"}]
    BY DEF IInv, TypeOk, Locations, Wanting, Waiting, ShutdownTimeout, Goto, Resume, Return
  <2> QED
    BY <1>0, <2>1, ThreadTyped DEF IInv, ShutdownTimeout
<1>2. WaitedClosed'
  BY DEF IInv, TypeOk, CallRecords, WaitedClosed, ShutdownTimeout, Goto, Resume, Return, InCall, jobs, Waiting
<1>3. \A u \in Threads : /\ pc'[u] \in Publishing \union {"stop"} <=> pc[u] \in Publishing \union {"stop"}
                         /\ pc'[u] \in Publishing => pc'[u] = pc[u]
  BY DEF IInv, TypeOk, ShutdownTimeout, Goto, Resume, Return, Publishing, Waiting
<1>4. \A u \in Threads : held[u] # {} => Place(u)' = Place(u)
  BY DEF IInv, TypeOk, LeasesDelivered, Place, ShutdownTimeout, Goto, Resume, Return, Waiting
<1> QED
  BY <1>1, <1>2, <1>3, <1>4, Quiet DEF ShutdownTimeout, jobs

(****************************************************************************)
(* Deliveries and flush jobs.                                               *)
(****************************************************************************)
LEMMA LeaseStep == ASSUME IInv, NEW t \in Threads, Lease(t) PROVE IInv'
<1>1. PICK taken \in SUBSET Resources :
          /\ taken \subseteq Live
          /\ users' = Leased(taken) /\ held' = [held EXCEPT ![t] = taken]
          /\ pc' = [pc EXCEPT ![t] = IF taken = {} THEN "idle" ELSE "deliver"]
  <2>1. Live \subseteq Resources
    BY DEF IInv, TypeOk, Live, AllOf, Choices
  <2> QED
    BY <2>1 DEF Lease, Goto
<1>2. held[t] = {}
  BY DEF IInv, LeasesDelivered, Place, Lease
<1>3. UsersCount' /\ users' \in [Resources -> Nat]
  BY <1>1, <1>2, CountLease DEF IInv, Lease, jobs
<1>4. TypeOk'
  BY <1>1, <1>3 DEF IInv, TypeOk, Lease, global, jobs, Locations
<1>5. LockHeld'
  BY <1>1 DEF IInv, TypeOk, LockHeld, Lease, global, Publishing
<1>6. LeasesDelivered'
  BY <1>1 DEF IInv, TypeOk, LeasesDelivered, Place, Lease
<1>7. SnapshotFits' /\ SnapshotUnretired' /\ UnbuiltNowhere'
  BY DEF IInv, SnapshotFits, SnapshotUnretired, UnbuiltNowhere, Fits, Unretired, Live,
         Lease, global, jobs
<1>8. PlanFits'
  BY <1>1 DEF IInv, TypeOk, PlanFits, Fits, Unretired, Lease, global, jobs, Publishing
<1>9. ClosingUnused'
  BY <1>1 DEF IInv, TypeOk, SnapshotUnretired, ClosingUnused, Unretired, Leased, Lease, jobs
<1>10. WaitedClosed'
  BY <1>1 DEF IInv, TypeOk, WaitedClosed, Lease, jobs, Waiting
<1>11. OnlyConfigureRestarts'
  BY <1>1 DEF IInv, TypeOk, OnlyConfigureRestarts, Lease, global
<1> QED
  BY <1>3, <1>4, <1>5, <1>6, <1>7, <1>8, <1>9, <1>10, <1>11 DEF IInv

(* Waking sleeping cleanups disturbs none of what the invariant says. *)
LEMMA NotifiedSame ==
    ASSUME TypeOk, NEW r \in Resources, cleanup' = Notified
    PROVE  /\ cleanup'[r] \in CleanupStates
           /\ cleanup'[r] = "none" <=> cleanup[r] = "none"
           /\ cleanup'[r] \in {"closing", "recorded", "done"}
                  <=> cleanup[r] \in {"closing", "recorded", "done"}
BY DEF TypeOk, Notified, CleanupStates

LEMMA ReleaseStep == ASSUME IInv, NEW t \in Threads, Release(t) PROVE IInv'
<1>1. UsersCount' /\ users' \in [Resources -> Nat]
  BY CountRelease DEF IInv, Release
<1>2. TypeOk'
  <2>1. cleanup' \in [Resources -> CleanupStates]
    BY NotifiedSame DEF IInv, Release, Notified
  <2> QED
    BY <1>1, <2>1 DEF IInv, TypeOk, Release, Goto, global, Locations
<1>3. LockHeld'
  BY DEF IInv, TypeOk, LockHeld, Release, Goto, global, Publishing
<1>4. LeasesDelivered'
  BY DEF IInv, TypeOk, LeasesDelivered, Place, Release, Goto
<1>5. \A r \in Resources : Unretired(r)' <=> Unretired(r)
  BY NotifiedSame DEF IInv, Unretired, Release
<1>6. SnapshotFits'
  BY DEF IInv, SnapshotFits, Fits, Release, global
<1>7. SnapshotUnretired' /\ UnbuiltNowhere'
  <2>1. Live' = Live /\ Live \subseteq Resources
    BY DEF IInv, TypeOk, Live, AllOf, Choices, Release, global
  <2> QED
    BY <1>5, <2>1 DEF IInv, SnapshotUnretired, UnbuiltNowhere, Release
<1>8. PlanFits'
  <2>1. \A u \in Threads : AllOf(plan[u].draft) \subseteq Resources
    BY DEF IInv, TypeOk, AllOf, Choices
  <2>2. \A u \in Threads : pc'[u] \in Publishing => pc[u] \in Publishing
    BY DEF IInv, TypeOk, Release, Goto, Publishing
  <2> QED
    BY <1>5, <2>1, <2>2 DEF IInv, PlanFits, Fits, Release, global
<1>9. ClosingUnused'
  <2>1. \A r \in Resources : users[r] = 0 => users'[r] = 0
    BY HoldersFinite, <1>1 DEF IInv, TypeOk, Release, Released
  <2> QED
    BY <2>1, NotifiedSame DEF IInv, ClosingUnused, Release
<1>10. WaitedClosed'
  BY DEF IInv, TypeOk, WaitedClosed, Release, Goto, Waiting
<1>11. OnlyConfigureRestarts'
  BY DEF IInv, TypeOk, OnlyConfigureRestarts, Release, Goto, global
<1> QED
  BY <1>1, <1>2, <1>3, <1>4, <1>6, <1>7, <1>8, <1>9, <1>10, <1>11 DEF IInv

LEMMA CallFlushStep == ASSUME IInv, NEW t \in Threads, CallFlush(t) PROVE IInv'
<1> DEFINE new == {r \in Live : flushing[r] = "none"}
<1>1. Live \subseteq Resources
  BY DEF IInv, TypeOk, Live, AllOf, Choices
<1>2. UsersCount' /\ users' \in [Resources -> Nat]
  <2>1. new \in SUBSET Resources
    BY <1>1
  <2> QED
    BY <2>1, CountJobs DEF IInv, CallFlush
<1>3. /\ call' \in [Threads -> CallRecords]
      /\ call'[t].scope \subseteq call'[t].todo \union closed
  <2> DEFINE c == [NoCall EXCEPT !.await = Live, !.todo = retired, !.scope = retired]
  <2>1. c \in CallRecords /\ c.scope = c.todo
    BY <1>1, NoCallTyped DEF IInv, TypeOk, CallRecords, NoCall
  <2> QED
    BY <2>1, CallTyped DEF IInv, CallFlush
<1>4. TypeOk'
  <2>1. flushing' \in [Resources -> FlushStates]
    BY DEF IInv, TypeOk, CallFlush, FlushStates
  <2>2. pc' \in [Threads -> Locations]
    BY DEF IInv, TypeOk, CallFlush, Goto, Locations, Waiting
  <2>3. cont' \in [Threads -> {"idle", "dispatch", "deliver"}]
    BY DEF IInv, TypeOk, CallFlush, Calling
  <2> QED
    BY <1>2, <1>3, <2>1, <2>2, <2>3 DEF IInv, TypeOk, CallFlush, global
<1>5. LockHeld'
  BY DEF IInv, TypeOk, LockHeld, CallFlush, Calling, Goto, global, Publishing
<1>6. LeasesDelivered'
  BY DEF IInv, TypeOk, LeasesDelivered, Place, CallFlush, Calling, Goto
<1>7. SnapshotFits' /\ SnapshotUnretired' /\ UnbuiltNowhere'
  BY DEF IInv, SnapshotFits, SnapshotUnretired, UnbuiltNowhere, Fits, Unretired, Live,
         CallFlush, global
<1>8. PlanFits'
  <2>1. \A u \in Threads : pc'[u] \in Publishing => pc[u] \in Publishing
    BY DEF IInv, TypeOk, CallFlush, Goto, Publishing
  <2> QED
    BY <2>1 DEF IInv, PlanFits, Fits, Unretired, CallFlush, global
<1>9. ClosingUnused'
  BY DEF IInv, TypeOk, SnapshotUnretired, ClosingUnused, Unretired, JobLeased, Leased, CallFlush
<1>10. WaitedClosed'
  <2>1. \A u \in Threads \ {t} : call'[u] = call[u] /\ pc'[u] = pc[u]
    BY DEF IInv, TypeOk, CallFlush, InCall, Goto
  <2> QED
    BY <1>3, <2>1, Ticking DEF IInv, CallFlush
<1>11. OnlyConfigureRestarts'
  BY DEF IInv, TypeOk, OnlyConfigureRestarts, CallFlush, Goto, global
<1> QED
  BY <1>2, <1>4, <1>5, <1>6, <1>7, <1>8, <1>9, <1>10, <1>11 DEF IInv

(* A daemon thread's step leaves every application thread where it is.      *)
LEMMA ThreadsStay ==
    ASSUME IInv, UNCHANGED <<global, key, retired, pc, cont, held, plan>>,
           closed \subseteq closed',
           \A r \in Resources : Unretired(r)' <=> Unretired(r),
           \A t \in Threads : /\ call'[t].scope = call[t].scope
                              /\ call'[t].todo = call[t].todo
    PROVE  /\ LockHeld' /\ LeasesDelivered' /\ WaitedClosed' /\ OnlyConfigureRestarts'
           /\ SnapshotFits' /\ SnapshotUnretired' /\ PlanFits' /\ UnbuiltNowhere'
<1>1. LockHeld' /\ OnlyConfigureRestarts'
  BY DEF IInv, LockHeld, OnlyConfigureRestarts, global
<1>2. LeasesDelivered'
  BY DEF IInv, LeasesDelivered, Place
<1>3. WaitedClosed'
  BY DEF IInv, WaitedClosed
<1>4. SnapshotFits'
  BY DEF IInv, SnapshotFits, Fits, global
<1>5. SnapshotUnretired' /\ UnbuiltNowhere'
  <2>1. Live' = Live /\ Live \subseteq Resources
    BY DEF IInv, TypeOk, Live, AllOf, Choices, global
  <2> QED
    BY <2>1 DEF IInv, SnapshotUnretired, UnbuiltNowhere
<1>6. PlanFits'
  <2>1. \A u \in Threads : AllOf(plan[u].draft) \subseteq Resources
    BY DEF IInv, TypeOk, AllOf, Choices
  <2> QED
    BY <2>1 DEF IInv, PlanFits, Fits, global
<1> QED
  BY <1>1, <1>2, <1>3, <1>4, <1>5, <1>6

LEMMA FlushReturnsStep ==
    ASSUME IInv, NEW r \in Resources, NEW ok \in BOOLEAN, FlushReturns(r, ok) PROVE IInv'
<1>1. UsersCount' /\ users' \in [Resources -> Nat]
  BY CountJobEnds DEF IInv, FlushReturns, thread
<1>2. TypeOk'
  <2>1. cleanup' \in [Resources -> CleanupStates]
    BY NotifiedSame DEF IInv, FlushReturns, Notified
  <2> QED
    BY <1>1, <2>1 DEF IInv, TypeOk, FlushReturns, global, thread, FlushStates
<1>3. \A q \in Resources : Unretired(q)' <=> Unretired(q)
  BY NotifiedSame DEF IInv, Unretired, FlushReturns
<1>4. ClosingUnused'
  <2>1. \A q \in Resources : users[q] = 0 => users'[q] = 0
    BY <1>1 DEF IInv, TypeOk, FlushReturns, Released
  <2> QED
    BY <2>1, NotifiedSame DEF IInv, ClosingUnused, FlushReturns
<1> QED
  BY <1>1, <1>2, <1>3, <1>4, ThreadsStay DEF IInv, FlushReturns, thread

LEMMA FlushDoneStep == ASSUME IInv, NEW r \in Resources, FlushDone(r) PROVE IInv'
<1>1. \A t \in Threads : /\ call'[t] \in CallRecords
                         /\ call'[t].scope = call[t].scope
                         /\ call'[t].todo = call[t].todo
  <2> SUFFICES ASSUME NEW t \in Threads
               PROVE  /\ call'[t] \in CallRecords
                      /\ call'[t].scope = call[t].scope
                      /\ call'[t].todo = call[t].todo
    OBVIOUS
  <2>1. call[t] \in CallRecords /\ drained[r] \in BOOLEAN
    BY DEF IInv, TypeOk
  <2> DEFINE b == call[t].bad \/ ~drained[r]
  <2>2. b \in BOOLEAN
    OBVIOUS
  <2>3. call'[t] = [call[t] EXCEPT !.await = @ \ {r}, !.bad = b] \/ call'[t] = call[t]
    BY DEF FlushDone
  <2> HIDE DEF b
  <2> QED
    BY <2>1, <2>2, <2>3 DEF CallRecords
<1>2. TypeOk'
  BY <1>1 DEF IInv, TypeOk, FlushDone, global, FlushStates
<1>3. UsersCount'
  BY CountSame DEF IInv, TypeOk, FlushDone
<1>4. ClosingUnused'
  BY DEF IInv, ClosingUnused, FlushDone
<1>5. \A q \in Resources : Unretired(q)' <=> Unretired(q)
  BY DEF Unretired, FlushDone
<1> QED
  BY <1>1, <1>2, <1>3, <1>4, <1>5, ThreadsStay DEF IInv, FlushDone

(****************************************************************************)
(* Cleanup threads.                                                         *)
(****************************************************************************)
LEMMA CleanupCheckStep == ASSUME IInv, NEW r \in Resources, CleanupCheck(r) PROVE IInv'
<1>1. TypeOk'
  BY DEF IInv, TypeOk, CleanupCheck, global, thread, CleanupStates
<1>2. UsersCount'
  BY CountSame DEF IInv, CleanupCheck, thread
<1>3. ClosingUnused'
  BY DEF IInv, TypeOk, ClosingUnused, CleanupCheck, Idle
<1>4. \A q \in Resources : Unretired(q)' <=> Unretired(q)
  BY DEF IInv, TypeOk, Unretired, CleanupCheck
<1> QED
  BY <1>1, <1>2, <1>3, <1>4, ThreadsStay DEF IInv, CleanupCheck, thread

LEMMA CloseReturnsStep ==
    ASSUME IInv, NEW r \in Resources, NEW ok \in BOOLEAN, CloseReturns(r, ok) PROVE IInv'
<1>1. TypeOk'
  BY DEF IInv, TypeOk, CloseReturns, global, thread, CleanupStates
<1>2. UsersCount'
  BY CountSame DEF IInv, CloseReturns, thread
<1>3. ClosingUnused'
  BY DEF IInv, TypeOk, ClosingUnused, CloseReturns
<1>4. \A q \in Resources : Unretired(q)' <=> Unretired(q)
  BY DEF IInv, TypeOk, Unretired, CloseReturns
<1> QED
  BY <1>1, <1>2, <1>3, <1>4, ThreadsStay DEF IInv, CloseReturns, thread

LEMMA CleanupDoneStep == ASSUME IInv, NEW r \in Resources, CleanupDone(r) PROVE IInv'
<1>1. \A t \in Threads : /\ call'[t] \in CallRecords
                         /\ call'[t].scope = call[t].scope
                         /\ call'[t].todo = call[t].todo
  <2> SUFFICES ASSUME NEW t \in Threads
               PROVE  /\ call'[t] \in CallRecords
                      /\ call'[t].scope = call[t].scope
                      /\ call'[t].todo = call[t].todo
    OBVIOUS
  <2>1. call[t] \in CallRecords
    BY DEF IInv, TypeOk
  <2>2. call'[t] = [call[t] EXCEPT !.woken = TRUE] \/ call'[t] = call[t]
    BY DEF CleanupDone
  <2> QED
    BY <2>1, <2>2 DEF CallRecords
<1>2. TypeOk'
  BY <1>1 DEF IInv, TypeOk, CleanupDone, global, CleanupStates
<1>3. UsersCount'
  BY CountSame DEF IInv, CleanupDone
<1>4. ClosingUnused'
  BY DEF IInv, TypeOk, ClosingUnused, CleanupDone
<1>5. \A q \in Resources : Unretired(q)' <=> Unretired(q)
  BY DEF IInv, TypeOk, Unretired, CleanupDone
<1> QED
  BY <1>1, <1>2, <1>3, <1>4, <1>5, ThreadsStay DEF IInv, CleanupDone

(****************************************************************************)
(* Transitions.                                                             *)
(****************************************************************************)
(* Under the lock nobody else publishes or stops. *)
LEMMA Alone ==
    ASSUME IInv, NEW t \in Threads, lock = t \/ lock = Free
    PROVE  \A u \in Threads \ {t} : pc[u] \notin Publishing \union {"stop"}
BY NamesAssumption DEF IInv, LockHeld

(* A step that only moves t, with nothing decided. *)
LEMMA NoUpdateQuiet ==
    ASSUME IInv, NEW t \in Threads, pc[t] \in {"wantInit", "wantRule", "wantConfigure"},
           Transition(t), NoUpdate(t, cont[t]) \/ PrepareFails(t)
    PROVE  IInv'
<1>1. PICK there \in {"idle", "dispatch", "deliver"} :
          /\ pc' = [pc EXCEPT ![t] = there]
          /\ there = cont[t] \/ (there = "idle" /\ cont[t] = "dispatch")
          /\ cont' = [cont EXCEPT ![t] = "idle"]
          /\ UNCHANGED <<lock, key, plan>>
  BY DEF IInv, TypeOk, NoUpdate, PrepareFails, Resume, Goto
<1>2. TypeOk'
  BY <1>1 DEF IInv, TypeOk, Transition, jobs, Locations
<1>3. WaitedClosed'
  BY <1>1 DEF IInv, TypeOk, WaitedClosed, Transition, jobs, Waiting
<1>4. \A u \in Threads : /\ pc'[u] \in Publishing \union {"stop"} <=> pc[u] \in Publishing \union {"stop"}
                         /\ pc'[u] \in Publishing => pc'[u] = pc[u]
  BY <1>1 DEF IInv, TypeOk, Publishing
<1>5. \A u \in Threads : held[u] # {} => Place(u)' = Place(u)
  BY <1>1 DEF IInv, TypeOk, LeasesDelivered, Place
<1> QED
  BY <1>1, <1>2, <1>3, <1>4, <1>5, Quiet DEF Transition, global, jobs

(* What is prepared fits the goal and consists of providers that are        *)
(* published already or were just built.                                    *)
LEMMA Drafted ==
    ASSUME IInv, NEW goal \in Settings, NEW s \in Slots, NEW c \in Candidates(s, goal)
    PROVE  /\ c \in Resources \union {None}
           /\ c = None <=> goal[s] = NoKey
           /\ c # None => /\ SlotOf[c] = s /\ Unretired(c)
                          /\ key[c] = NoKey \/ key[c] = goal[s]
<1>1. CASE goal[s] = NoKey
  BY <1>1 DEF Candidates
<1>2. CASE goal[s] # NoKey /\ Reusable(s, goal)
  <2>1. c = snapshot[s] /\ c \in Live /\ c \in Resources /\ c # None
    BY <1>2, NamesAssumption DEF Candidates, Reusable, Live, AllOf, IInv, TypeOk, Choices
  <2>2. published
    BY <1>2 DEF Reusable, IInv, SnapshotFits, Nothing
  <2>3. SlotOf[c] = s /\ key[c] = settings[s] /\ settings[s] = goal[s]
    BY <1>2, <2>1, <2>2 DEF IInv, SnapshotFits, Fits, Reusable
  <2> QED
    BY <1>2, <2>1, <2>3 DEF IInv, SnapshotUnretired
<1>3. CASE goal[s] # NoKey /\ ~Reusable(s, goal)
  BY <1>3, NamesAssumption DEF Candidates, Fresh, IInv, UnbuiltNowhere
<1> QED
  BY <1>1, <1>2, <1>3

LEMMA PrepareStep ==
    ASSUME IInv, NEW t \in Threads, pc[t] \in {"wantInit", "wantRule", "wantConfigure"},
           Transition(t), NEW goal \in Settings, NEW there \in Publishing,
           Prepare(t, goal, there), there = "republish" => ~stopped
    PROVE  IInv'
<1>1. PICK c \in Candidates("console", goal), d \in Candidates("sentry", goal) :
          LET draft == [s \in Slots |-> IF s = "console" THEN c ELSE d] IN
          /\ plan' = [plan EXCEPT ![t] = [goal |-> goal, draft |-> draft, olds |-> snapshot]]
          /\ key' = [r \in Resources |-> IF r \in AllOf(draft) THEN goal[SlotOf[r]] ELSE key[r]]
  BY DEF Prepare
<1> DEFINE draft == [s \in Slots |-> IF s = "console" THEN c ELSE d]
<1>2. \A s \in Slots : /\ draft[s] \in Resources \union {None}
                       /\ draft[s] = None <=> goal[s] = NoKey
                       /\ draft[s] # None => /\ SlotOf[draft[s]] = s /\ Unretired(draft[s])
                                             /\ key[draft[s]] = NoKey \/ key[draft[s]] = goal[s]
  BY Drafted DEF Slots
<1>3. /\ plan' = [plan EXCEPT ![t] = [goal |-> goal, draft |-> draft, olds |-> snapshot]]
      /\ key' = [r \in Resources |-> IF r \in AllOf(draft) THEN goal[SlotOf[r]] ELSE key[r]]
  BY <1>1
<1> HIDE DEF draft
<1>4. draft \in Choices
  BY <1>2 DEF draft, Choices
<1>5. \A r \in AllOf(draft) : r \in Resources /\ Unretired(r) /\ goal[SlotOf[r]] # NoKey
                              /\ key[r] \in {NoKey, goal[SlotOf[r]]}
  BY <1>2, <1>4 DEF AllOf, Choices
<1>6. \A u \in Threads \ {t} : pc[u] \notin Publishing \union {"stop"}
  BY Alone DEF Transition
<1>7. TypeOk'
  <2>1. [goal |-> goal, draft |-> draft, olds |-> snapshot]
           \in [goal : Settings, draft : Choices, olds : Choices]
    BY <1>4 DEF IInv, TypeOk
  <2>2. plan' \in [Threads -> [goal : Settings, draft : Choices, olds : Choices]]
    BY <1>3, <2>1 DEF IInv, TypeOk
  <2>3. key' \in [Resources -> Keys \union {NoKey}]
    BY <1>3, SlotAssumption DEF IInv, TypeOk, Settings
  <2> QED
    BY <2>2, <2>3 DEF IInv, TypeOk, Transition, Prepare, Goto, jobs, Locations, Publishing
<1>8. UsersCount'
  BY CountSame DEF IInv, Transition, jobs
<1>9. LockHeld'
  BY <1>6 DEF IInv, TypeOk, LockHeld, Prepare, Goto
<1>10. LeasesDelivered'
  BY DEF IInv, TypeOk, LeasesDelivered, Place, Transition, Prepare, Goto, Publishing
<1>11. \A r \in Resources : Unretired(r)' <=> Unretired(r)
  BY DEF Unretired, Transition, jobs
<1>12. Live' = Live /\ Live \subseteq Resources
  BY DEF IInv, TypeOk, Live, AllOf, Choices, Transition
<1>13. \A r \in Resources : key[r] # NoKey => key'[r] = key[r]
  BY <1>3, <1>5
<1>14. SnapshotFits'
  <2>1. CASE published
    <3>1. \A s \in Slots : snapshot[s] # None => key[snapshot[s]] # NoKey /\ snapshot[s] \in Resources
      <4>1. \A s \in Slots : snapshot[s] \in Resources \union {None}
        BY DEF IInv, TypeOk, Choices
      <4>2. Fits(snapshot, settings)
        BY <2>1 DEF IInv, SnapshotFits
      <4> QED
        BY <4>1, <4>2 DEF Fits
    <3> QED
      BY <2>1, <3>1, <1>13 DEF IInv, SnapshotFits, Fits, Transition
  <2>2. CASE ~published
    BY <2>2 DEF IInv, SnapshotFits, Transition
  <2> QED
    BY <2>1, <2>2
<1>15. SnapshotUnretired'
  BY <1>11, <1>12 DEF IInv, SnapshotUnretired
<1>16. PlanFits'
  <2>1. \A u \in Threads \ {t} : pc'[u] \notin Publishing
    BY <1>6 DEF IInv, TypeOk, Prepare, Goto
  <2>2. plan'[t].olds = snapshot' /\ plan'[t].draft = draft /\ plan'[t].goal = goal
    BY <1>3 DEF IInv, TypeOk, Transition
  <2>3. \A s \in Slots : draft[s] # None => key'[draft[s]] = goal[s]
    BY <1>2, <1>3, <1>4 DEF AllOf, Choices
  <2>4. Fits(draft, goal)'
    BY <1>2, <2>3 DEF Fits
  <2>5. \A r \in AllOf(draft) : Unretired(r)'
    BY <1>5, <1>11
  <2> QED
    BY <2>1, <2>2, <2>4, <2>5 DEF PlanFits, Fits
<1>17. UnbuiltNowhere'
  BY <1>11, <1>13 DEF IInv, UnbuiltNowhere
<1>18. ClosingUnused'
  BY DEF IInv, ClosingUnused, Transition, jobs
<1>19. WaitedClosed'
  BY DEF IInv, TypeOk, WaitedClosed, Transition, Prepare, Goto, jobs, Waiting, Publishing
<1>20. OnlyConfigureRestarts'
  BY DEF IInv, TypeOk, OnlyConfigureRestarts, Transition, Prepare, Goto
<1> QED
  BY <1>7, <1>8, <1>9, <1>10, <1>14, <1>15, <1>16, <1>17, <1>18, <1>19, <1>20 DEF IInv

LEMMA FirstUseStep == ASSUME IInv, NEW t \in Threads, FirstUse(t) PROVE IInv'
<1>1. CASE Initialized
  BY <1>1, NoUpdateQuiet DEF FirstUse
<1>2. CASE ~Initialized
  <2>1. settings \in Settings /\ "republish" \in Publishing /\ ~stopped
    BY <1>2 DEF IInv, TypeOk, Publishing, Initialized
  <2> QED
    BY <1>2, <2>1, NoUpdateQuiet, PrepareStep DEF FirstUse
<1> QED
  BY <1>1, <1>2

LEMMA PackageRuleStep == ASSUME IInv, NEW t \in Threads, PackageRule(t) PROVE IInv'
<1>1. CASE stopped
  BY <1>1, NoUpdateQuiet DEF PackageRule
<1>2. CASE ~stopped
  <2>1. settings \in Settings /\ "republish" \in Publishing
    BY DEF IInv, TypeOk, Publishing
  <2> QED
    BY <1>2, <2>1, NoUpdateQuiet, PrepareStep DEF PackageRule
<1> QED
  BY <1>1, <1>2

LEMMA ConfigureStep == ASSUME IInv, NEW t \in Threads, Configure(t) PROVE IInv'
<1>1. "publish" \in Publishing
  BY DEF Publishing
<1> QED
  BY <1>1, CallsAssumption, NoUpdateQuiet, PrepareStep DEF Configure

(* Starting cleanups of S leaves everything else as it was. *)
LEMMA StartedSame ==
    ASSUME IInv, NEW S \in SUBSET Resources, cleanup' = Started(S), closed' = closed
    PROVE  /\ cleanup' \in [Resources -> CleanupStates]
           /\ \A r \in Resources \ S : cleanup'[r] = cleanup[r]
           /\ \A r \in Resources : cleanup'[r] \in {"closing", "recorded", "done"} =>
                                       cleanup[r] \in {"closing", "recorded", "done"}
BY DEF IInv, TypeOk, Started, CanStart, CleanupStates

LEMMA PublishStep == ASSUME IInv, NEW t \in Threads, Publish(t) PROVE IInv'
<1>1. /\ plan[t].olds = snapshot
      /\ Fits(plan[t].draft, plan[t].goal)
      /\ \A r \in AllOf(plan[t].draft) : Unretired(r)
  BY DEF IInv, PlanFits, Publish
<1>2. /\ Gone(t) \subseteq Resources
      /\ Gone(t) \subseteq Live /\ Gone(t) \cap AllOf(plan[t].draft) = {}
      /\ AllOf(plan[t].draft) \subseteq Resources
  BY <1>1 DEF IInv, TypeOk, Gone, Live, AllOf, Choices
<1>3. /\ cleanup' \in [Resources -> CleanupStates]
      /\ \A r \in Resources \ Gone(t) : cleanup'[r] = cleanup[r]
      /\ \A r \in Resources : cleanup'[r] \in {"closing", "recorded", "done"} =>
                                  cleanup[r] \in {"closing", "recorded", "done"}
  BY <1>2, StartedSame DEF Publish
<1>4. \A r \in Resources \ Gone(t) : Unretired(r)' <=> Unretired(r)
  BY <1>2, <1>3 DEF Unretired, Publish
<1>5. \A u \in Threads \ {t} : pc[u] \notin Publishing \union {"stop"}
  <2>1. lock = t
    BY DEF IInv, LockHeld, Publish
  <2> QED
    BY <2>1, Alone
<1>6. /\ pc' = [pc EXCEPT ![t] = cont[t]] /\ cont' = [cont EXCEPT ![t] = "idle"]
      /\ cont[t] \in {"idle", "dispatch", "deliver"}
  BY DEF IInv, TypeOk, Publish, Resume, Goto
<1>7. TypeOk'
  <2>1. NoPlan \in [goal : Settings, draft : Choices, olds : Choices]
    BY DEF NoPlan, Settings, Choices, Nothing
  <2>2. plan[t].goal \in Settings /\ plan[t].draft \in Choices
    BY DEF IInv, TypeOk
  <2>3. /\ lock' \in Threads \union {Free} /\ published' \in BOOLEAN /\ stopped' \in BOOLEAN
        /\ snapshot' \in Choices /\ settings' \in Settings /\ retired' \subseteq Resources
        /\ plan' \in [Threads -> [goal : Settings, draft : Choices, olds : Choices]]
    BY <1>2, <2>1, <2>2 DEF IInv, TypeOk, Publish
  <2>4. /\ pc' \in [Threads -> Locations]
        /\ cont' \in [Threads -> {"idle", "dispatch", "deliver"}]
    BY <1>6 DEF IInv, TypeOk, Locations
  <2> QED
    BY <1>3, <2>3, <2>4 DEF IInv, TypeOk, Publish
<1>8. UsersCount'
  BY CountSame DEF IInv, Publish
<1>9. LockHeld'
  BY <1>5, <1>6, NamesAssumption DEF IInv, TypeOk, LockHeld, Publish, Publishing
<1>10. LeasesDelivered'
  BY <1>6 DEF IInv, TypeOk, LeasesDelivered, Place, Publish, Publishing
<1>11. SnapshotFits'
  BY <1>1 DEF SnapshotFits, Fits, Publish
<1>12. SnapshotUnretired'
  BY <1>1, <1>2, <1>4 DEF SnapshotUnretired, Live, AllOf, Publish
<1>13. PlanFits'
  BY <1>5, <1>6 DEF IInv, TypeOk, PlanFits, Publishing
<1>14. UnbuiltNowhere'
  <2>1. \A r \in Live : key[r] # NoKey
    <3>1. CASE published
      BY <3>1 DEF IInv, SnapshotFits, Fits, Live, AllOf
    <3>2. CASE ~published
      BY <3>2 DEF IInv, SnapshotFits, Nothing, Live, AllOf
    <3> QED
      BY <3>1, <3>2
  <2> QED
    BY <1>2, <1>4, <2>1 DEF IInv, UnbuiltNowhere, Publish
<1>15. ClosingUnused'
  BY <1>3 DEF IInv, ClosingUnused, Publish
<1>16. WaitedClosed'
  BY <1>6 DEF IInv, TypeOk, WaitedClosed, Publish, Waiting
<1>17. OnlyConfigureRestarts'
  BY <1>5, <1>6 DEF IInv, TypeOk, OnlyConfigureRestarts, Publishing
<1> QED
  BY <1>7, <1>8, <1>9, <1>10, <1>11, <1>12, <1>13, <1>14, <1>15, <1>16, <1>17 DEF IInv

(****************************************************************************)
(* Shutdown.                                                                *)
(****************************************************************************)
LEMMA TakeStopStep == ASSUME IInv, NEW t \in Threads, TakeStop(t) PROVE IInv'
<1>1. \A u \in Threads \ {t} : pc[u] \notin Publishing \union {"stop"}
  BY Alone DEF TakeStop
<1>2. TypeOk'
  BY DEF IInv, TypeOk, TakeStop, Goto, jobs, Locations
<1>3. UsersCount'
  BY CountSame DEF IInv, TakeStop, jobs
<1>4. LockHeld'
  BY <1>1 DEF IInv, TypeOk, LockHeld, TakeStop, Goto
<1>5. LeasesDelivered'
  BY DEF IInv, TypeOk, LeasesDelivered, Place, TakeStop, Goto
<1>6. SnapshotFits' /\ SnapshotUnretired' /\ UnbuiltNowhere' /\ ClosingUnused'
  BY DEF IInv, SnapshotFits, SnapshotUnretired, UnbuiltNowhere, ClosingUnused, Fits,
         Unretired, Live, TakeStop, jobs
<1>7. PlanFits'
  BY <1>1 DEF IInv, TypeOk, PlanFits, TakeStop, Goto, Publishing
<1>8. WaitedClosed'
  BY DEF IInv, TypeOk, WaitedClosed, TakeStop, Goto, jobs, Waiting
<1>9. OnlyConfigureRestarts'
  BY DEF IInv, TypeOk, OnlyConfigureRestarts, TakeStop, Goto
<1> QED
  BY <1>2, <1>3, <1>4, <1>5, <1>6, <1>7, <1>8, <1>9 DEF IInv

LEMMA StopBodyStep == ASSUME IInv, NEW t \in Threads, StopBody(t) PROVE IInv'
<1>1. Live \subseteq Resources /\ Restartable \subseteq retired /\ Restartable \subseteq Resources
  BY DEF IInv, TypeOk, Live, AllOf, Choices, Restartable
<1>2. /\ cleanup' \in [Resources -> CleanupStates]
      /\ \A r \in Resources \ (Live \union Restartable) : cleanup'[r] = cleanup[r]
      /\ \A r \in Resources : cleanup'[r] \in {"closing", "recorded", "done"} =>
                                  cleanup[r] \in {"closing", "recorded", "done"}
  BY <1>1, StartedSame DEF StopBody
<1>3. \A u \in Threads \ {t} : pc[u] \notin Publishing \union {"stop"}
  <2>1. lock = t
    BY DEF IInv, LockHeld, StopBody
  <2> QED
    BY <2>1, Alone
<1>4. /\ call' \in [Threads -> CallRecords]
      /\ call'[t].scope \subseteq call'[t].todo \union closed
  <2> DEFINE c == [call[t] EXCEPT !.todo = retired', !.scope = retired']
  <2>1. call[t] \in CallRecords /\ retired' \in SUBSET Resources
    BY <1>1 DEF IInv, TypeOk, StopBody
  <2>2. c \in CallRecords /\ c.scope = c.todo
    BY <2>1 DEF CallRecords
  <2> QED
    BY <2>2, CallTyped DEF IInv, StopBody
<1>5. TypeOk'
  <2>1. snapshot' \in Choices /\ retired' \subseteq Resources /\ lock' \in Threads \union {Free}
    BY <1>1 DEF IInv, TypeOk, StopBody, Unpublished, Nothing, Choices
  <2> QED
    BY <1>2, <1>4, <2>1 DEF IInv, TypeOk, StopBody, Goto, Locations, Waiting
<1>6. UsersCount'
  BY CountSame DEF IInv, StopBody
<1>7. LockHeld'
  BY <1>3, NamesAssumption DEF IInv, TypeOk, LockHeld, StopBody, Goto, Publishing
<1>8. LeasesDelivered'
  BY DEF IInv, TypeOk, LeasesDelivered, Place, StopBody, Goto
<1>9. SnapshotFits' /\ SnapshotUnretired'
  BY DEF SnapshotFits, SnapshotUnretired, Live, AllOf, Nothing, StopBody, Unpublished
<1>10. PlanFits'
  BY <1>3 DEF IInv, TypeOk, PlanFits, StopBody, Goto, Publishing
<1>11. UnbuiltNowhere'
  <2>1. \A r \in Live : key[r] # NoKey
    <3>1. CASE published
      BY <3>1 DEF IInv, SnapshotFits, Fits, Live, AllOf
    <3>2. CASE ~published
      BY <3>2 DEF IInv, SnapshotFits, Nothing, Live, AllOf
    <3> QED
      BY <3>1, <3>2
  <2>2. \A r \in retired : r \in Resources => key[r] # NoKey
    BY DEF IInv, UnbuiltNowhere, Unretired
  <2> QED
    BY <1>1, <1>2, <2>1, <2>2 DEF IInv, UnbuiltNowhere, Unretired, StopBody
<1>12. ClosingUnused'
  BY <1>2 DEF IInv, ClosingUnused, StopBody
<1>13. WaitedClosed'
  <2>1. \A u \in Threads \ {t} : call'[u] = call[u] /\ pc'[u] = pc[u]
    BY DEF IInv, TypeOk, StopBody, InCall, Goto
  <2> QED
    BY <1>4, <2>1, Ticking DEF IInv, StopBody
<1>14. OnlyConfigureRestarts'
  BY <1>3 DEF IInv, TypeOk, OnlyConfigureRestarts, StopBody, Goto, Publishing
<1> QED
  BY <1>5, <1>6, <1>7, <1>8, <1>9, <1>10, <1>11, <1>12, <1>13, <1>14 DEF IInv

(* Pruning _retired drops closed resources only. *)
LEMMA WaitEndStep == ASSUME IInv, NEW t \in Threads, WaitEnd(t) PROVE IInv'
<1>1. call' \in [Threads -> CallRecords]
  BY NoCallTyped, CallTyped DEF IInv, WaitEnd, Return
<1>2. /\ pc' = [pc EXCEPT ![t] = cont[t]] /\ cont' = [cont EXCEPT ![t] = "idle"]
      /\ cont[t] \in {"idle", "dispatch", "deliver"}
  BY DEF IInv, TypeOk, WaitEnd, Return, Resume, Goto
<1>3. TypeOk'
  BY <1>1, <1>2 DEF IInv, TypeOk, WaitEnd, global, jobs, Locations
<1>4. UsersCount'
  BY CountSame DEF IInv, WaitEnd, jobs
<1>5. LockHeld'
  BY <1>2 DEF IInv, TypeOk, LockHeld, WaitEnd, global, Publishing
<1>6. LeasesDelivered'
  BY <1>2 DEF IInv, TypeOk, LeasesDelivered, Place, WaitEnd
<1>7. \A r \in Resources : Unretired(r)' <=> Unretired(r)
  BY DEF Unretired, WaitEnd, jobs
<1>8. SnapshotFits' /\ UnbuiltNowhere'
  BY <1>7 DEF IInv, SnapshotFits, UnbuiltNowhere, Fits, WaitEnd, global
<1>9. SnapshotUnretired'
  <2>1. Live' = Live /\ Live \subseteq Resources
    BY DEF IInv, TypeOk, Live, AllOf, Choices, WaitEnd, global
  <2> QED
    BY <1>7, <2>1 DEF IInv, SnapshotUnretired
<1>10. PlanFits'
  <2>1. \A u \in Threads : AllOf(plan[u].draft) \subseteq Resources
    BY DEF IInv, TypeOk, AllOf, Choices
  <2>2. \A u \in Threads : pc'[u] \in Publishing => pc[u] \in Publishing
    BY <1>2 DEF IInv, TypeOk, Publishing
  <2> QED
    BY <1>7, <2>1, <2>2 DEF IInv, PlanFits, Fits, WaitEnd, global
<1>11. ClosingUnused'
  BY DEF IInv, ClosingUnused, WaitEnd, jobs
<1>12. WaitedClosed'
  <2>1. \A u \in Threads \ {t} : call'[u] = call[u] /\ pc'[u] = pc[u]
    BY <1>2 DEF IInv, TypeOk, WaitEnd, Return, InCall
  <2>2. pc'[t] \notin Waiting
    BY <1>2 DEF IInv, TypeOk, Waiting
  <2> QED
    BY <2>1, <2>2, Ticking DEF IInv, WaitEnd, jobs
<1>13. OnlyConfigureRestarts'
  BY <1>2 DEF IInv, TypeOk, OnlyConfigureRestarts, WaitEnd, global
<1> QED
  BY <1>3, <1>4, <1>5, <1>6, <1>8, <1>9, <1>10, <1>11, <1>12, <1>13 DEF IInv

(****************************************************************************)
(* The invariant, and what follows from it.                                 *)
(****************************************************************************)
LEMMA InitInvariant == Init => IInv
<1> SUFFICES ASSUME Init PROVE IInv
  OBVIOUS
<1>1. TypeOk
  BY CallsAssumption, NoCallTyped
     DEF Init, TypeOk, Choices, Nothing, Settings, NoPlan, CleanupStates, FlushStates, Locations
<1>2. UsersCount
  <2>0. /\ held = [t \in Threads |-> {}]
        /\ \A r \in Resources : flushing[r] = "none"
    BY DEF Init
  <2>1. \A r \in Resources : HoldersOf(r) = {} /\ ~FlushUses(r)
    BY <2>0 DEF HoldersOf, FlushUses
  <2> QED
    <3>1. \A r \in Resources : users[r] = 0
      BY DEF Init
    <3> QED
      BY <2>1, <3>1, FS_EmptySet DEF UsersCount
<1>3. LockHeld
  BY NamesAssumption DEF Init, LockHeld, Publishing
<1>4. LeasesDelivered /\ WaitedClosed /\ OnlyConfigureRestarts /\ PlanFits
  BY DEF Init, LeasesDelivered, WaitedClosed, OnlyConfigureRestarts, PlanFits, Waiting, Publishing
<1>5. SnapshotFits /\ SnapshotUnretired
  BY DEF Init, SnapshotFits, SnapshotUnretired, Live, AllOf, Nothing
<1>6. UnbuiltNowhere /\ ClosingUnused
  BY DEF Init, UnbuiltNowhere, ClosingUnused, Unretired
<1> QED
  BY <1>1, <1>2, <1>3, <1>4, <1>5, <1>6 DEF IInv

LEMMA NextInvariant == IInv /\ [Next]_vars => IInv'
<1> SUFFICES ASSUME IInv, [Next]_vars PROVE IInv'
  OBVIOUS
<1>1. ASSUME NEW t \in Threads,
             FacadeCall(t) \/ HostRecord(t) \/ CallConfigure(t) \/ CallPackageRule(t) \/ CallShutdown(t)
      PROVE  IInv'
  BY <1>1, FacadeCallStep, HostRecordStep, CallConfigureStep, CallPackageRuleStep, CallShutdownStep
<1>2. ASSUME NEW t \in Threads, Lease(t) \/ Release(t) \/ CallFlush(t) \/ Expire(t)
      PROVE  IInv'
  BY <1>2, LeaseStep, ReleaseStep, CallFlushStep, ExpireStep
<1>3. ASSUME NEW t \in Threads, FirstUse(t) \/ PackageRule(t) \/ Configure(t) \/ Publish(t)
      PROVE  IInv'
  BY <1>3, FirstUseStep, PackageRuleStep, ConfigureStep, PublishStep
<1>4. ASSUME NEW t \in Threads, Waits(t) PROVE IInv'
  BY <1>4, FlushEvalStep, WaitNextStep, WaitCheckStep, WaitEndStep, TakeStopStep,
     ShutdownTimeoutStep, StopBodyStep DEF Waits
<1>5. ASSUME NEW r \in Resources, CleanupThread(r) PROVE IInv'
  BY <1>5, CleanupCheckStep, CloseReturnsStep, CleanupDoneStep DEF CleanupThread
<1>6. ASSUME NEW r \in Resources, FlushThread(r) PROVE IInv'
  BY <1>6, FlushReturnsStep, FlushDoneStep DEF FlushThread
<1>7. CASE UNCHANGED vars
  <2>1. TypeOk' /\ WaitedClosed'
    BY <1>7 DEF vars, IInv, TypeOk, WaitedClosed
  <2>2. UNCHANGED <<global, key, users, retired, closed, cleanup, held, plan, pc, cont, flushing>>
    BY <1>7 DEF vars, global
  <2> QED
    BY <2>1, <2>2, Quiet DEF Place
<1> QED
  BY <1>1, <1>2, <1>3, <1>4, <1>5, <1>6, <1>7 DEF Next

(* The inductive invariant holds of every reachable state. *)
THEOREM Invariance == Spec => []IInv
BY InitInvariant, NextInvariant, PTL DEF Spec

(* Every variable keeps its type; in particular users never goes below 0.   *)
THEOREM TypeCorrect == Spec => []TypeOk
<1>1. IInv => TypeOk
  BY DEF IInv
<1> QED
  BY <1>1, Invariance, PTL

(* _Resource.users counts the deliveries in flight and the flush job. *)
THEOREM CountCorrect == Spec => []UsersCount
<1>1. IInv => UsersCount
  BY DEF IInv
<1> QED
  BY <1>1, Invariance, PTL

(* No provider is closed beneath a delivery or a flush job. *)
THEOREM CloseSafe == Spec => []NoCloseUnderUse
<1>1. IInv => NoCloseUnderUse
  <2> SUFFICES ASSUME IInv, NEW r \in Resources,
                      r \in closed \/ cleanup[r] \in {"closing", "recorded", "done"}
               PROVE  HoldersOf(r) = {} /\ ~FlushUses(r)
    BY DEF NoCloseUnderUse, InUse
  <2>1. users[r] = 0
    BY DEF IInv, ClosingUnused
  <2>2. Cardinality(HoldersOf(r)) = 0 /\ ~FlushUses(r)
    BY <2>1, HoldersFinite DEF IInv, UsersCount
  <2> QED
    BY <2>2, HoldersFinite, FS_EmptySet
<1> QED
  BY <1>1, Invariance, PTL

(* What is published was built with the settings in force and is neither    *)
(* retired nor closed, also after any number of restarts.                   *)
THEOREM PublishedSafe == Spec => []PublishedUsable
<1>1. IInv => PublishedUsable
  <2> SUFFICES ASSUME IInv PROVE PublishedUsable
    OBVIOUS
  <2>1. CASE published
    BY <2>1 DEF IInv, SnapshotFits, SnapshotUnretired, Fits, Unretired, Live, AllOf, PublishedUsable
  <2>2. CASE ~published
    BY <2>2 DEF IInv, SnapshotFits, Nothing, PublishedUsable
  <2> QED
    BY <2>1, <2>2
<1> QED
  BY <1>1, Invariance, PTL

(* A True from flush or shutdown is true. *)
THEOREM TrueSound == Spec => []TrueMeansClosed
<1>1. IInv => TrueMeansClosed
  BY DEF IInv, WaitedClosed, TrueMeansClosed, Waiting
<1> QED
  BY <1>1, Invariance, PTL

(* Neither a record nor a package rule restarts a stopped runtime. *)
THEOREM RestartSafe == Spec => []OnlyConfigureRestarts
<1>1. IInv => OnlyConfigureRestarts
  BY DEF IInv
<1> QED
  BY <1>1, Invariance, PTL

(****************************************************************************)
(* A second inductive invariant, relative to the first.                     *)
(****************************************************************************)
LEMMA LifeInit == Init => LifeInv
BY DEF Init, LifeInv, CleanupRetired, ClosedRecorded, PlanOnlyPublishing,
       StoppedUnpublished, NoneForgotten

(* Steps that touch neither resources nor plans nor the published state. *)
LEMMA LifeQuiet ==
    ASSUME LifeInv, UNCHANGED <<published, snapshot, stopped, key, retired, closed, cleanup, plan>>,
           \A t \in Threads : pc'[t] \notin Publishing => pc[t] \notin Publishing
    PROVE  LifeInv'
BY DEF LifeInv, CleanupRetired, ClosedRecorded, PlanOnlyPublishing,
       StoppedUnpublished, NoneForgotten, Live

LEMMA LifeThread ==
    ASSUME IInv, LifeInv, NEW t \in Threads,
           \/ FacadeCall(t) \/ HostRecord(t) \/ Lease(t) \/ CallConfigure(t) \/ CallPackageRule(t)
           \/ CallFlush(t) \/ CallShutdown(t) \/ Expire(t) \/ FlushEval(t) \/ WaitNext(t)
           \/ WaitCheck(t) \/ TakeStop(t) \/ ShutdownTimeout(t)
    PROVE  LifeInv'
<1>1. UNCHANGED <<published, snapshot, stopped, key, retired, closed, cleanup, plan>>
  BY DEF FacadeCall, HostRecord, Lease, CallConfigure, CallPackageRule, CallFlush, CallShutdown,
         Expire, FlushEval, WaitNext, WaitCheck, TakeStop, ShutdownTimeout, global, jobs
<1>2. pc[t] \notin Publishing /\ \A u \in Threads \ {t} : pc'[u] = pc[u]
  BY DEF FacadeCall, HostRecord, Lease, CallConfigure, CallPackageRule, CallFlush, CallShutdown,
         Expire, FlushEval, WaitNext, WaitCheck, TakeStop, ShutdownTimeout, Calling, Goto, Resume,
         Return, Publishing, Waiting, IInv, TypeOk
<1> QED
  BY <1>1, <1>2, LifeQuiet

(* Notified leaves every cleanup that exists in existence. *)
LEMMA LifeNotified ==
    ASSUME IInv, LifeInv, cleanup' = Notified,
           UNCHANGED <<published, snapshot, stopped, key, retired, closed, plan>>,
           \A t \in Threads : pc'[t] \notin Publishing => pc[t] \notin Publishing
    PROVE  LifeInv'
<1>1. \A r \in Resources : /\ cleanup'[r] = "none" <=> cleanup[r] = "none"
                           /\ cleanup[r] \in {"recorded", "done"} => cleanup'[r] = cleanup[r]
  BY DEF Notified
<1>2. closed \subseteq Resources /\ Live' = Live
  BY DEF IInv, TypeOk, Live
<1> QED
  BY <1>1, <1>2 DEF LifeInv, CleanupRetired, ClosedRecorded, PlanOnlyPublishing,
                    StoppedUnpublished, NoneForgotten

LEMMA LifeRelease == ASSUME IInv, LifeInv, NEW t \in Threads, Release(t) PROVE LifeInv'
<1>1. \A u \in Threads : pc'[u] \notin Publishing => pc[u] \notin Publishing
  BY DEF Release, Goto, Publishing, IInv, TypeOk
<1> QED
  BY <1>1, LifeNotified DEF Release, global

LEMMA LifeFlush == ASSUME IInv, LifeInv, NEW r \in Resources, FlushThread(r) PROVE LifeInv'
<1>1. ASSUME NEW ok \in BOOLEAN, FlushReturns(r, ok) PROVE LifeInv'
  BY <1>1, LifeNotified DEF FlushReturns, global, thread
<1>2. CASE FlushDone(r)
  BY <1>2, LifeQuiet DEF FlushDone, global
<1> QED
  BY <1>1, <1>2 DEF FlushThread

LEMMA LifeCleanup == ASSUME IInv, LifeInv, NEW r \in Resources, CleanupThread(r) PROVE LifeInv'
<1>1. UNCHANGED <<published, snapshot, stopped, key, retired, plan, pc>> /\ closed \subseteq closed'
  BY DEF CleanupThread, CleanupCheck, CloseReturns, CleanupDone, global, thread
<1>2. \A q \in Resources : cleanup'[q] = "none" <=> cleanup[q] = "none"
  BY DEF CleanupThread, CleanupCheck, CloseReturns, CleanupDone, IInv, TypeOk
<1>3. ClosedRecorded'
  BY DEF CleanupThread, CleanupCheck, CloseReturns, CleanupDone, IInv, TypeOk, LifeInv, ClosedRecorded
<1>4. CleanupRetired'
  BY <1>1, <1>2 DEF LifeInv, CleanupRetired
<1>5. NoneForgotten'
  BY <1>1, <1>2 DEF LifeInv, NoneForgotten, Live
<1>6. PlanOnlyPublishing' /\ StoppedUnpublished'
  BY <1>1 DEF LifeInv, PlanOnlyPublishing, StoppedUnpublished
<1> QED
  BY <1>3, <1>4, <1>5, <1>6 DEF LifeInv

LEMMA LifeUpdate ==
    ASSUME IInv, LifeInv, NEW t \in Threads, FirstUse(t) \/ PackageRule(t) \/ Configure(t)
    PROVE  LifeInv'
<1>1. UNCHANGED <<published, snapshot, stopped, retired, jobs>> /\ pc[t] \notin Publishing
  BY DEF FirstUse, PackageRule, Configure, Transition, Publishing
<1>2. CASE NoUpdate(t, cont[t]) \/ PrepareFails(t)
  <2>1. \A u \in Threads : pc'[u] \notin Publishing => pc[u] \notin Publishing
    BY <1>1, <1>2 DEF NoUpdate, PrepareFails, Resume, Goto, IInv, TypeOk
  <2> QED
    BY <1>1, <1>2, <2>1, LifeQuiet DEF NoUpdate, PrepareFails, jobs
<1>3. ASSUME NEW goal, NEW there \in Publishing, Prepare(t, goal, there) PROVE LifeInv'
  <2>1. PICK draft \in Choices :
          /\ plan' = [plan EXCEPT ![t] = [goal |-> goal, draft |-> draft, olds |-> snapshot]]
          /\ key' = [r \in Resources |-> IF r \in AllOf(draft) THEN goal[SlotOf[r]] ELSE key[r]]
    <3>1. \A s \in Slots : Candidates(s, goal) \subseteq Resources \union {None}
      BY DEF Candidates, Fresh, IInv, TypeOk, Choices
    <3> QED
      BY <1>3, <3>1 DEF Prepare, Choices, Slots
  <2>2. plan'[t].draft = draft /\ \A u \in Threads \ {t} : plan'[u] = plan[u] /\ pc'[u] = pc[u]
    BY <1>3, <2>1 DEF Prepare, Goto, IInv, TypeOk
  <2>3. AllOf(plan[t].draft) = {}
    BY <1>1 DEF LifeInv, PlanOnlyPublishing, NoPlan, Nothing, AllOf
  <2>4. \A r \in Resources : key'[r] # NoKey => key[r] # NoKey \/ r \in AllOf(draft)
    BY <2>1
  <2>5. NoneForgotten'
    <3> SUFFICES ASSUME NEW r \in Resources, key'[r] # NoKey
                 PROVE  \/ r \in Live'
                        \/ \E u \in Threads : r \in AllOf(plan'[u].draft)
                        \/ r \in retired' \union closed' /\ cleanup'[r] # "none"
      BY DEF NoneForgotten, AllOf
    <3>1. CASE r \in AllOf(draft)
      BY <2>2, <3>1
    <3>2. CASE key[r] # NoKey
      BY <1>1, <2>2, <2>3, <3>2 DEF LifeInv, NoneForgotten, Live, jobs
    <3> QED
      BY <2>4, <3>1, <3>2
  <2>6. pc'[t] \in Publishing
    BY <1>3 DEF Prepare, Goto, IInv, TypeOk
  <2>7. PlanOnlyPublishing'
    BY <2>2, <2>6 DEF LifeInv, PlanOnlyPublishing
  <2> QED
    BY <1>1, <2>5, <2>7 DEF LifeInv, CleanupRetired, ClosedRecorded, StoppedUnpublished, jobs
<1>4. "publish" \in Publishing /\ "republish" \in Publishing
  BY DEF Publishing
<1> QED
  BY <1>2, <1>3, <1>4 DEF FirstUse, PackageRule, Configure

(* Retiring S: its cleanups start, no other is lost. *)
LEMMA Retiring ==
    ASSUME IInv, LifeInv, NEW S \in SUBSET Resources, cleanup' = Started(S),
           closed' = closed, S \subseteq retired'
    PROVE  /\ \A r \in S : r \in closed \/ cleanup'[r] # "none"
           /\ \A r \in Resources : cleanup[r] # "none" => cleanup'[r] # "none"
           /\ \A r \in Resources : cleanup'[r] # "none" => cleanup[r] # "none" \/ r \in retired'
           /\ \A r \in closed : cleanup'[r] = cleanup[r]
BY DEF IInv, TypeOk, Started, CanStart

LEMMA LifePublish == ASSUME IInv, LifeInv, NEW t \in Threads, Publish(t) PROVE LifeInv'
<1>1. /\ plan[t].olds = snapshot /\ Gone(t) \subseteq Resources
      /\ Live \subseteq Gone(t) \union AllOf(plan[t].draft)
  BY DEF IInv, TypeOk, PlanFits, Publish, Gone, Live, AllOf, Choices
<1>2. /\ \A r \in Gone(t) : r \in closed \/ cleanup'[r] # "none"
      /\ \A r \in Resources : cleanup[r] # "none" => cleanup'[r] # "none"
      /\ \A r \in Resources : cleanup'[r] # "none" => cleanup[r] # "none" \/ r \in retired'
      /\ \A r \in closed : cleanup'[r] = cleanup[r]
  BY <1>1, Retiring DEF Publish
<1>3. Live' = AllOf(plan[t].draft) /\ retired \union Gone(t) = retired' /\ closed' = closed
  BY DEF Publish, Live, AllOf
<1>4. NoneForgotten'
  <2> SUFFICES ASSUME NEW r \in Resources, key[r] # NoKey
               PROVE  \/ r \in Live'
                      \/ \E u \in Threads : r \in AllOf(plan'[u].draft)
                      \/ r \in retired' \union closed' /\ cleanup'[r] # "none"
    BY DEF NoneForgotten, AllOf, Publish
  <2>1. CASE r \in Live
    <3>1. r \notin closed
      BY <2>1 DEF IInv, SnapshotUnretired, Unretired
    <3> QED
      BY <1>1, <1>2, <1>3, <2>1, <3>1
  <2>2. ASSUME NEW u \in Threads, r \in AllOf(plan[u].draft)
        PROVE  r \in Live' \/ r \in AllOf(plan'[u].draft)
    BY <1>3, <2>2 DEF Publish, IInv, TypeOk
  <2>3. CASE r \in retired \union closed /\ cleanup[r] # "none"
    BY <1>2, <1>3, <2>3
  <2> QED
    BY <2>1, <2>2, <2>3 DEF LifeInv, NoneForgotten
<1>5. PlanOnlyPublishing'
  BY DEF LifeInv, PlanOnlyPublishing, Publish, Resume, Goto, IInv, TypeOk
<1>6. CleanupRetired' /\ ClosedRecorded' /\ StoppedUnpublished'
  BY <1>2, <1>3 DEF LifeInv, CleanupRetired, ClosedRecorded, StoppedUnpublished, Publish
<1> QED
  BY <1>4, <1>5, <1>6 DEF LifeInv

LEMMA LifeStop == ASSUME IInv, LifeInv, NEW t \in Threads, StopBody(t) PROVE LifeInv'
<1>1. /\ Live \subseteq Resources /\ Restartable \subseteq retired
      /\ Live \union Restartable \subseteq Resources /\ Live \union Restartable \subseteq retired'
      /\ retired' = retired \union Live /\ closed' = closed
  BY DEF IInv, TypeOk, Live, AllOf, Choices, Restartable, StopBody
<1>2. /\ \A r \in Live \union Restartable : r \in closed \/ cleanup'[r] # "none"
      /\ \A r \in Resources : cleanup[r] # "none" => cleanup'[r] # "none"
      /\ \A r \in Resources : cleanup'[r] # "none" => cleanup[r] # "none" \/ r \in retired'
      /\ \A r \in closed : cleanup'[r] = cleanup[r]
  BY <1>1, Retiring DEF StopBody
<1>3. NoneForgotten'
  <2> SUFFICES ASSUME NEW r \in Resources, key[r] # NoKey
               PROVE  \/ \E u \in Threads : r \in AllOf(plan[u].draft)
                      \/ r \in retired' \union closed' /\ cleanup'[r] # "none"
    BY DEF NoneForgotten, AllOf, StopBody
  <2>1. CASE r \in Live
    BY <1>1, <1>2, <2>1 DEF IInv, SnapshotUnretired, Unretired
  <2>2. CASE r \in retired \union closed /\ cleanup[r] # "none"
    BY <1>1, <1>2, <2>2
  <2> QED
    BY <2>1, <2>2 DEF LifeInv, NoneForgotten
<1>4. PlanOnlyPublishing'
  BY DEF LifeInv, PlanOnlyPublishing, StopBody, Goto, IInv, TypeOk, Publishing
<1>5. CleanupRetired' /\ ClosedRecorded' /\ StoppedUnpublished'
  BY <1>1, <1>2 DEF LifeInv, CleanupRetired, ClosedRecorded, StoppedUnpublished, StopBody
<1> QED
  BY <1>3, <1>4, <1>5 DEF LifeInv

LEMMA LifeWaitEnd == ASSUME IInv, LifeInv, NEW t \in Threads, WaitEnd(t) PROVE LifeInv'
<1>1. /\ UNCHANGED <<published, snapshot, stopped, key, closed, cleanup, plan>>
      /\ retired' \union closed = retired \union closed
  BY DEF WaitEnd, global, jobs
<1>2. \A u \in Threads : pc'[u] \notin Publishing => pc[u] \notin Publishing
  BY DEF WaitEnd, Return, Resume, Goto, Publishing, IInv, TypeOk
<1> QED
  BY <1>1, <1>2 DEF LifeInv, CleanupRetired, ClosedRecorded, PlanOnlyPublishing,
                    StoppedUnpublished, NoneForgotten, Live

LEMMA LifeNext == ASSUME IInv, LifeInv, [Next]_vars PROVE LifeInv'
<1>1. ASSUME NEW t \in Threads,
             \/ FacadeCall(t) \/ HostRecord(t) \/ Lease(t) \/ CallConfigure(t) \/ CallPackageRule(t)
             \/ CallFlush(t) \/ CallShutdown(t) \/ Expire(t) \/ FlushEval(t) \/ WaitNext(t)
             \/ WaitCheck(t) \/ TakeStop(t) \/ ShutdownTimeout(t)
      PROVE  LifeInv'
  BY <1>1, LifeThread
<1>2. ASSUME NEW t \in Threads, FirstUse(t) \/ PackageRule(t) \/ Configure(t) PROVE LifeInv'
  BY <1>2, LifeUpdate
<1>3. ASSUME NEW t \in Threads, Release(t) \/ Publish(t) \/ WaitEnd(t) \/ StopBody(t) PROVE LifeInv'
  BY <1>3, LifeRelease, LifePublish, LifeWaitEnd, LifeStop
<1>4. ASSUME NEW r \in Resources, CleanupThread(r) \/ FlushThread(r) PROVE LifeInv'
  BY <1>4, LifeCleanup, LifeFlush
<1>5. CASE UNCHANGED vars
  BY <1>5, LifeQuiet DEF vars
<1> QED
  BY <1>1, <1>2, <1>3, <1>4, <1>5 DEF Next, Waits

(* Both invariants hold in every reachable state. *)
THEOREM LifeInvariance == Spec => [](IInv /\ LifeInv)
<1>1. Init => LifeInv
  BY LifeInit
<1>2. IInv /\ IInv' /\ LifeInv /\ [Next]_vars => LifeInv'
  BY LifeNext
<1> QED
  BY <1>1, <1>2, Invariance, PTL DEF Spec

(****************************************************************************)
(* Wakeups.                                                                 *)
(****************************************************************************)
LEMMA WakeInit == Init => WakeInv
BY DEF Init, WakeInv, SleepersUsed, JobsAwaited, WaitersWoken, NoCall

(* Whoever is counted is there. *)
LEMMA CountedUsed == ASSUME IInv, NEW r \in Resources, ~InUse(r) PROVE users[r] = 0
<1>1. HoldersOf(r) = {} /\ ~FlushUses(r)
  BY DEF InUse
<1>2. Cardinality(HoldersOf(r)) = 0
  BY <1>1, FS_EmptySet
<1> QED
  BY <1>1, <1>2 DEF IInv, UsersCount

(* A step of t that changes no job and no call. *)
LEMMA WakeMoves ==
    ASSUME IInv, WakeInv, NEW t \in Threads, NEW there, there # "waitJob",
           pc' = [pc EXCEPT ![t] = there], UNCHANGED <<cleanup, flushing, call>>,
           \A r \in Resources : HoldersOf(r) \subseteq HoldersOf(r)'
    PROVE  WakeInv'
<1>1. SleepersUsed'
  BY DEF WakeInv, SleepersUsed, InUse, FlushUses
<1>2. JobsAwaited'
  BY DEF WakeInv, JobsAwaited
<1>3. WaitersWoken'
  BY DEF WakeInv, WaitersWoken, IInv, TypeOk
<1> QED
  BY <1>1, <1>2, <1>3 DEF WakeInv

LEMMA WakeQuiet ==
    ASSUME IInv, WakeInv, NEW t \in Threads,
           \/ FacadeCall(t) \/ HostRecord(t) \/ CallConfigure(t) \/ CallPackageRule(t)
           \/ FirstUse(t) \/ PackageRule(t) \/ Configure(t) \/ CallShutdown(t) \/ TakeStop(t)
    PROVE  WakeInv'
<1>1. UNCHANGED <<cleanup, flushing, call, held>>
  BY DEF FacadeCall, HostRecord, CallConfigure, CallPackageRule, FirstUse, PackageRule,
         Configure, Transition, CallShutdown, TakeStop, jobs
<1>2. cont[t] \in {"idle", "dispatch", "deliver"}
  BY DEF IInv, TypeOk
<1>3. \E there : there # "waitJob" /\ pc' = [pc EXCEPT ![t] = there]
  BY <1>2 DEF FacadeCall, HostRecord, CallConfigure, CallPackageRule, FirstUse, PackageRule,
              Configure, CallShutdown, TakeStop, Prepare, PrepareFails, NoUpdate, Resume, Goto
<1>4. \A r \in Resources : HoldersOf(r)' = HoldersOf(r)
  BY <1>1 DEF HoldersOf
<1> QED
  BY <1>1, <1>3, <1>4, WakeMoves

LEMMA WakeLease == ASSUME IInv, WakeInv, NEW t \in Threads, Lease(t) PROVE WakeInv'
<1>1. held[t] = {}
  BY DEF Lease, IInv, LeasesDelivered, Place
<1>2. PICK taken : held' = [held EXCEPT ![t] = taken]
  BY DEF Lease
<1>3. \A r \in Resources : HoldersOf(r) \subseteq HoldersOf(r)'
  BY <1>1, <1>2 DEF HoldersOf, IInv, TypeOk
<1>4. \E there : there # "waitJob" /\ pc' = [pc EXCEPT ![t] = there]
  BY DEF Lease, Goto
<1>5. UNCHANGED <<cleanup, flushing, call>>
  BY DEF Lease, jobs
<1> QED
  BY <1>3, <1>4, <1>5, WakeMoves

(* A step of t inside its flush or shutdown. *)
LEMMA WakeCall ==
    ASSUME IInv, WakeInv, NEW t \in Threads, NEW c, NEW there,
           call' = [call EXCEPT ![t] = c], pc' = [pc EXCEPT ![t] = there],
           UNCHANGED <<cleanup, flushing, held>>,
           c.await \subseteq call[t].await,
           there = "waitJob" => /\ c.target \in Resources
                                /\ c.woken \/ cleanup[c.target] \in Running
    PROVE  WakeInv'
<1>1. SleepersUsed'
  BY DEF WakeInv, SleepersUsed, InUse, FlushUses, HoldersOf
<1>2. \A u \in Threads : /\ call'[u] = IF u = t THEN c ELSE call[u]
                         /\ pc'[u] = IF u = t THEN there ELSE pc[u]
  BY DEF IInv, TypeOk
<1>3. JobsAwaited'
  BY <1>2 DEF WakeInv, JobsAwaited
<1>4. WaitersWoken'
  BY <1>2 DEF WakeInv, WaitersWoken
<1> QED
  BY <1>1, <1>3, <1>4 DEF WakeInv

LEMMA WakeReturn ==
    ASSUME IInv, WakeInv, NEW t \in Threads, Return(t), UNCHANGED <<cleanup, flushing, held>>
    PROVE  WakeInv'
<1>1. cont[t] # "waitJob"
  BY DEF IInv, TypeOk
<1>2. NoCall.await \subseteq call[t].await
  BY DEF NoCall
<1>3. call' = [call EXCEPT ![t] = NoCall] /\ pc' = [pc EXCEPT ![t] = cont[t]]
  BY DEF Return, Resume, Goto, InCall
<1> QED
  BY <1>1, <1>2, <1>3, WakeCall

LEMMA WakeWaits ==
    ASSUME IInv, WakeInv, NEW t \in Threads,
           Expire(t) \/ FlushEval(t) \/ WaitNext(t) \/ WaitCheck(t) \/ WaitEnd(t)
              \/ ShutdownTimeout(t)
    PROVE  WakeInv'
<1> DEFINE c == call[t]
<1>1. /\ c \in CallRecords /\ c.todo \in SUBSET Resources /\ c.target \in Resources \union {None}
      /\ pc' \in {pc, [pc EXCEPT ![t] = pc'[t]]} => pc' = [pc EXCEPT ![t] = pc'[t]]
      /\ pc = [pc EXCEPT ![t] = pc[t]] /\ call = [call EXCEPT ![t] = c]
  BY DEF IInv, TypeOk, CallRecords
<1>2. UNCHANGED <<cleanup, flushing, held>>
  BY DEF Expire, FlushEval, WaitNext, WaitCheck, WaitEnd, ShutdownTimeout, jobs
<1>3. CASE Return(t)
  BY <1>2, <1>3, WakeReturn
<1>4. CASE Expire(t)
  <2> DEFINE d == [c EXCEPT !.expired = TRUE]
  <2>1. d.await = c.await /\ d.target = c.target /\ d.woken = c.woken
    BY <1>1 DEF CallRecords
  <2>2. call' = [call EXCEPT ![t] = d] /\ pc' = pc
    BY <1>4 DEF Expire, InCall
  <2> HIDE DEF d
  <2>3. pc[t] = "waitJob" => d.target \in Resources /\ (d.woken \/ cleanup[d.target] \in Running)
    BY <2>1 DEF WakeInv, WaitersWoken
  <2> QED
    BY <1>1, <1>2, <2>1, <2>2, <2>3, WakeCall
<1>5. CASE FlushEval(t) /\ Goto(t, "waitRetired") /\ UNCHANGED <<cont, call>>
  <2>1. pc' = [pc EXCEPT ![t] = "waitRetired"] /\ call' = [call EXCEPT ![t] = c]
    BY <1>1, <1>5 DEF Goto
  <2> QED
    BY <1>2, <2>1, WakeCall
<1>6. ASSUME NEW r \in c.todo, r \in closed, InCall(t, [c EXCEPT !.todo = @ \ {r}]), UNCHANGED pc,
             WaitNext(t)
      PROVE  WakeInv'
  <2> DEFINE d == [c EXCEPT !.todo = @ \ {r}]
  <2>1. d.await = c.await /\ call' = [call EXCEPT ![t] = d]
    BY <1>1, <1>6 DEF CallRecords, InCall
  <2>2. pc' = [pc EXCEPT ![t] = pc[t]] /\ pc[t] # "waitJob"
    BY <1>1, <1>6 DEF WaitNext
  <2> HIDE DEF d
  <2> QED
    BY <1>2, <2>1, <2>2, WakeCall
<1>7. ASSUME NEW r \in c.todo, Goto(t, "waitJob"),
             InCall(t, [c EXCEPT !.target = r, !.woken = cleanup[r] \in {"none", "done"}])
      PROVE  WakeInv'
  <2> DEFINE d == [c EXCEPT !.target = r, !.woken = cleanup[r] \in {"none", "done"}]
  <2>1. /\ d.await = c.await /\ d.target = r /\ d.woken = (cleanup[r] \in {"none", "done"})
        /\ call' = [call EXCEPT ![t] = d] /\ pc' = [pc EXCEPT ![t] = "waitJob"]
    BY <1>1, <1>7 DEF CallRecords, InCall, Goto
  <2>2. r \in Resources /\ cleanup[r] \in CleanupStates
    BY <1>1 DEF IInv, TypeOk
  <2> HIDE DEF d
  <2>3. d.target \in Resources /\ (d.woken \/ cleanup[d.target] \in Running)
    BY <2>1, <2>2 DEF CleanupStates, Running
  <2> QED
    BY <1>2, <2>1, <2>3, WakeCall
<1>8. CASE WaitCheck(t) /\ ~Return(t)
  <2> DEFINE d == [c EXCEPT !.todo = @ \ {c.target}, !.target = None, !.woken = FALSE]
  <2>1. /\ d.await = c.await /\ call' = [call EXCEPT ![t] = d]
        /\ pc' = [pc EXCEPT ![t] = "waitRetired"]
    BY <1>1, <1>8 DEF WaitCheck, CallRecords, InCall, Goto
  <2> HIDE DEF d
  <2> QED
    BY <1>2, <2>1, WakeCall
<1>9. WaitNext(t) => WakeInv'
  BY <1>6, <1>7 DEF WaitNext
<1>10. FlushEval(t) => WakeInv'
  BY <1>3, <1>5 DEF FlushEval
<1> QED
  BY <1>3, <1>4, <1>8, <1>9, <1>10 DEF WaitEnd, ShutdownTimeout

(* A release wakes every sleeping cleanup. *)
LEMMA WakeNotified ==
    ASSUME IInv, WakeInv, cleanup' = Notified, UNCHANGED call,
           \A u \in Threads : pc'[u] = "waitJob" => pc[u] = "waitJob",
           \A r \in Resources : flushing[r] # "none" => flushing'[r] # "none"
    PROVE  WakeInv'
<1>1. \A r \in Resources : /\ cleanup'[r] # "asleep"
                           /\ cleanup[r] \in Running => cleanup'[r] \in Running
  BY DEF Notified, Running
<1>2. SleepersUsed'
  BY <1>1 DEF SleepersUsed
<1>3. JobsAwaited'
  BY DEF WakeInv, JobsAwaited, IInv, TypeOk, CallRecords
<1>4. WaitersWoken'
  BY <1>1 DEF WakeInv, WaitersWoken
<1> QED
  BY <1>2, <1>3, <1>4 DEF WakeInv

(* Starting cleanups stops none of those under way. *)
LEMMA WakeStarted ==
    ASSUME IInv, WakeInv, NEW S, cleanup' = Started(S), UNCHANGED <<flushing, held>>,
           \A u \in Threads : pc'[u] = "waitJob" => pc[u] = "waitJob" /\ call'[u] = call[u],
           \A u \in Threads : call'[u].await = call[u].await
    PROVE  WakeInv'
<1>1. \A r \in Resources : /\ cleanup'[r] = "asleep" => cleanup[r] = "asleep"
                           /\ cleanup[r] \in Running => cleanup'[r] \in Running
  BY DEF Started, CanStart, Running
<1>2. SleepersUsed'
  BY <1>1 DEF WakeInv, SleepersUsed, InUse, FlushUses, HoldersOf
<1>3. JobsAwaited'
  BY DEF WakeInv, JobsAwaited
<1>4. WaitersWoken'
  BY <1>1 DEF WakeInv, WaitersWoken
<1> QED
  BY <1>2, <1>3, <1>4 DEF WakeInv

LEMMA WakeReleases ==
    ASSUME IInv, WakeInv,
           \/ \E t \in Threads : Release(t)
           \/ \E r \in Resources, ok \in BOOLEAN : FlushReturns(r, ok)
    PROVE  WakeInv'
<1>1. ASSUME NEW t \in Threads, Release(t) PROVE WakeInv'
  <2>1. \A u \in Threads : pc'[u] = "waitJob" => pc[u] = "waitJob"
    BY <1>1 DEF Release, Goto, IInv, TypeOk
  <2> QED
    BY <1>1, <2>1, WakeNotified DEF Release
<1>2. ASSUME NEW r \in Resources, NEW ok \in BOOLEAN, FlushReturns(r, ok) PROVE WakeInv'
  <2>1. \A q \in Resources : flushing[q] # "none" => flushing'[q] # "none"
    BY <1>2 DEF FlushReturns, IInv, TypeOk
  <2> QED
    BY <1>2, <2>1, WakeNotified DEF FlushReturns, thread
<1> QED
  BY <1>1, <1>2

LEMMA WakeTransitions ==
    ASSUME IInv, WakeInv, NEW t \in Threads, Publish(t) \/ StopBody(t) PROVE WakeInv'
<1>1. CASE Publish(t)
  <2>1. cont[t] # "waitJob"
    BY DEF IInv, TypeOk
  <2>2. \A u \in Threads : pc'[u] = "waitJob" => pc[u] = "waitJob"
    BY <1>1, <2>1 DEF Publish, Resume, Goto, IInv, TypeOk
  <2> QED
    BY <1>1, <2>2, WakeStarted DEF Publish
<1>2. CASE StopBody(t)
  <2> DEFINE d == [call[t] EXCEPT !.todo = retired', !.scope = retired']
  <2>1. call[t] \in CallRecords
    BY DEF IInv, TypeOk
  <2>2. d.await = call[t].await
    BY <2>1 DEF CallRecords
  <2>3. call' = [call EXCEPT ![t] = d] /\ pc' = [pc EXCEPT ![t] = "waitRetired"]
    BY <1>2 DEF StopBody, InCall, Goto
  <2> HIDE DEF d
  <2>4. \A u \in Threads : call'[u].await = call[u].await
    BY <2>2, <2>3 DEF IInv, TypeOk
  <2>5. \A u \in Threads : pc'[u] = "waitJob" => pc[u] = "waitJob" /\ call'[u] = call[u]
    BY <2>3 DEF IInv, TypeOk
  <2> QED
    BY <1>2, <2>4, <2>5, WakeStarted DEF StopBody
<1> QED
  BY <1>1, <1>2

LEMMA WakeCallFlush == ASSUME IInv, WakeInv, NEW t \in Threads, CallFlush(t) PROVE WakeInv'
<1> DEFINE d == [NoCall EXCEPT !.await = Live, !.todo = retired, !.scope = retired]
<1>1. /\ UNCHANGED <<cleanup, held>> /\ pc' = [pc EXCEPT ![t] = "awaitFlush"]
      /\ call' = [call EXCEPT ![t] = d]
      /\ flushing' = [r \in Resources |-> IF r \in Live /\ flushing[r] = "none"
                                          THEN "run" ELSE flushing[r]]
  BY DEF CallFlush, InCall, Goto
<1>2. d.await = Live
  BY DEF NoCall
<1> HIDE DEF d
<1>3. Live \subseteq Resources
  BY DEF IInv, TypeOk, Live, AllOf, Choices
<1>4. SleepersUsed'
  BY <1>1 DEF WakeInv, SleepersUsed, InUse, FlushUses, HoldersOf
<1>5. \A u \in Threads : call'[u] = IF u = t THEN d ELSE call[u]
  BY <1>1 DEF IInv, TypeOk
<1>6. \A r \in Resources : /\ flushing[r] # "none" => flushing'[r] # "none"
                           /\ r \in Live => flushing'[r] # "none"
  BY <1>1
<1>7. \A u \in Threads : call[u].await \subseteq Resources
  BY DEF IInv, TypeOk, CallRecords
<1>8. JobsAwaited'
  BY <1>2, <1>3, <1>5, <1>6, <1>7 DEF WakeInv, JobsAwaited
<1>9. WaitersWoken'
  BY <1>1, <1>5 DEF WakeInv, WaitersWoken, IInv, TypeOk
<1> QED
  BY <1>4, <1>8, <1>9 DEF WakeInv

(* A job that is done is taken off every list before it could be missed.    *)
LEMMA WakeFlushDone == ASSUME IInv, WakeInv, NEW r \in Resources, FlushDone(r) PROVE WakeInv'
<1>1. /\ UNCHANGED <<cleanup, held, pc>>
      /\ flushing' = [flushing EXCEPT ![r] = "none"] /\ flushing[r] = "released"
  BY DEF FlushDone
<1>2. ASSUME NEW u \in Threads
      PROVE  /\ call'[u].await = call[u].await \ {r}
             /\ call'[u].target = call[u].target /\ call'[u].woken = call[u].woken
  <2> DEFINE c == call[u]
  <2> DEFINE d == [c EXCEPT !.await = @ \ {r}, !.bad = @ \/ ~drained[r]]
  <2>1. call'[u] = IF r \in c.await THEN d ELSE c
    BY DEF FlushDone
  <2>2. c \in CallRecords
    BY DEF IInv, TypeOk
  <2>3. d.await = c.await \ {r} /\ d.target = c.target /\ d.woken = c.woken
    BY <2>2 DEF CallRecords
  <2> HIDE DEF d, c
  <2>4. CASE r \in c.await
    BY <2>1, <2>3, <2>4 DEF c
  <2>5. CASE r \notin c.await
    BY <2>1, <2>5 DEF c
  <2> QED
    BY <2>4, <2>5
<1>3. SleepersUsed'
  BY <1>1 DEF WakeInv, SleepersUsed, InUse, FlushUses, HoldersOf, IInv, TypeOk
<1>4. JobsAwaited'
  BY <1>1, <1>2 DEF WakeInv, JobsAwaited, IInv, TypeOk
<1>5. WaitersWoken'
  BY <1>1, <1>2 DEF WakeInv, WaitersWoken
<1> QED
  BY <1>3, <1>4, <1>5 DEF WakeInv

LEMMA WakeCleanup == ASSUME IInv, WakeInv, NEW r \in Resources, CleanupThread(r) PROVE WakeInv'
<1>1. CASE CleanupCheck(r)
  <2>1. /\ UNCHANGED <<users, held, flushing, call, pc>> /\ cleanup[r] = "check"
        /\ cleanup' = [cleanup EXCEPT ![r] = IF users[r] = 0 THEN "closing" ELSE "asleep"]
    BY <1>1 DEF CleanupCheck, thread, Idle
  <2>2. users[r] # 0 => InUse(r)
    BY CountedUsed
  <2>3. SleepersUsed'
    BY <2>1, <2>2 DEF WakeInv, SleepersUsed, InUse, FlushUses, HoldersOf, IInv, TypeOk
  <2>4. WaitersWoken'
    BY <2>1 DEF WakeInv, WaitersWoken, Running, IInv, TypeOk
  <2> QED
    BY <2>1, <2>3, <2>4 DEF WakeInv, JobsAwaited
<1>2. ASSUME NEW ok \in BOOLEAN, CloseReturns(r, ok) PROVE WakeInv'
  <2>1. /\ UNCHANGED <<users, held, flushing, call, pc>>
        /\ cleanup' = [cleanup EXCEPT ![r] = "recorded"]
    BY <1>2 DEF CloseReturns, thread
  <2>2. SleepersUsed'
    BY <2>1 DEF WakeInv, SleepersUsed, InUse, FlushUses, HoldersOf, IInv, TypeOk
  <2>3. WaitersWoken'
    BY <2>1 DEF WakeInv, WaitersWoken, Running, IInv, TypeOk
  <2> QED
    BY <2>1, <2>2, <2>3 DEF WakeInv, JobsAwaited
<1>3. CASE CleanupDone(r)
  <2>1. /\ UNCHANGED <<users, held, flushing, pc>>
        /\ cleanup' = [cleanup EXCEPT ![r] = "done"]
    BY <1>3 DEF CleanupDone
  <2>2. ASSUME NEW u \in Threads
        PROVE  /\ call'[u].await = call[u].await /\ call'[u].target = call[u].target
               /\ call[u].woken => call'[u].woken
               /\ pc[u] = "waitJob" /\ call[u].target = r => call'[u].woken
    <3> DEFINE c == call[u]
    <3> DEFINE d == [c EXCEPT !.woken = TRUE]
    <3>1. call'[u] = IF pc[u] = "waitJob" /\ c.target = r THEN d ELSE c
      BY <1>3 DEF CleanupDone
    <3>2. c \in CallRecords
      BY DEF IInv, TypeOk
    <3>3. d.await = c.await /\ d.target = c.target /\ d.woken
      BY <3>2 DEF CallRecords
    <3> HIDE DEF d, c
    <3>4. CASE pc[u] = "waitJob" /\ c.target = r
      BY <3>1, <3>3, <3>4 DEF c
    <3>5. CASE ~(pc[u] = "waitJob" /\ c.target = r)
      BY <3>1, <3>5 DEF c
    <3> QED
      BY <3>4, <3>5
  <2>3. SleepersUsed'
    BY <2>1 DEF WakeInv, SleepersUsed, InUse, FlushUses, HoldersOf, IInv, TypeOk
  <2>4. JobsAwaited'
    BY <2>1, <2>2 DEF WakeInv, JobsAwaited
  <2>5. WaitersWoken'
    BY <2>1, <2>2 DEF WakeInv, WaitersWoken, IInv, TypeOk
  <2> QED
    BY <2>3, <2>4, <2>5 DEF WakeInv
<1> QED
  BY <1>1, <1>2, <1>3 DEF CleanupThread

LEMMA WakeNext == ASSUME IInv, WakeInv, [Next]_vars PROVE WakeInv'
<1>1. CASE UNCHANGED vars
  BY <1>1 DEF vars, WakeInv, SleepersUsed, JobsAwaited, WaitersWoken, InUse, HoldersOf, FlushUses
<1> QED
  BY <1>1, WakeQuiet, WakeLease, WakeWaits, WakeReleases, WakeTransitions, WakeCallFlush,
     WakeFlushDone, WakeCleanup DEF Next, Waits, FlushThread

(* Nobody sleeps for ever by a lost wakeup: a cleanup sleeps in wait_for    *)
(* only while a user is left whose _release will notify it, and flush and   *)
(* _wait_retired wait only for jobs whose done is not set.                  *)
THEOREM WakeupsSafe == Spec => []WakeInv
<1>1. IInv /\ WakeInv /\ [Next]_vars => WakeInv'
  BY WakeNext
<1> QED
  BY <1>1, WakeInit, Invariance, PTL DEF Spec

(* The inductive invariant, as the runs check it: what the operations of    *)
(* runtime.py assume of one another between their steps.                    *)
THEOREM InvariantSafe == Spec => []RuntimeInv
<1>1. IInv /\ LifeInv /\ WakeInv => RuntimeInv
  BY DEF RuntimeInv
<1> QED
  BY <1>1, LifeInvariance, WakeupsSafe, PTL

(* No provider is forgotten: each one that was built is published, about to *)
(* be, or retired with a cleanup job of its own (_retire, _start_cleanup).  *)
THEOREM AllRemembered == Spec => []NoneForgotten
<1>1. LifeInv => NoneForgotten
  BY DEF LifeInv
<1> QED
  BY <1>1, LifeInvariance, PTL

(****************************************************************************)
(* Action properties.                                                       *)
(****************************************************************************)
LEMMA StoppedStep ==
    ASSUME IInv, LifeInv, [Next]_vars, stopped, NEW r \in Resources
    PROVE  users'[r] <= users[r]
<1>1. Live = {}
  BY DEF IInv, LifeInv, SnapshotFits, StoppedUnpublished, Live, AllOf, Nothing
<1>2. users[r] \in Nat /\ \A S : r \in Resources => Released(S)[r] <= users[r]
  BY DEF IInv, TypeOk, Released
<1>3. ASSUME NEW t \in Threads, Lease(t) \/ CallFlush(t) PROVE users' = users
  <2>1. Leased({}) = users
    BY DEF Leased, IInv, TypeOk
  <2> QED
    BY <1>1, <1>3, <2>1 DEF Lease, CallFlush, JobLeased
<1>4. ASSUME NEW t \in Threads, Release(t) PROVE users'[r] <= users[r]
  BY <1>2, <1>4 DEF Release
<1>5. ASSUME NEW q \in Resources, FlushThread(q) PROVE users'[r] <= users[r]
  <2>1. users' = Released({q}) \/ users' = users
    BY <1>5 DEF FlushThread, FlushReturns, FlushDone
  <2> QED
    BY <1>2, <2>1
<1>6. ASSUME NEW t \in Threads,
             \/ FacadeCall(t) \/ HostRecord(t) \/ CallConfigure(t) \/ CallPackageRule(t)
             \/ FirstUse(t) \/ PackageRule(t) \/ Configure(t) \/ Publish(t)
             \/ CallShutdown(t) \/ Expire(t) \/ Waits(t)
      PROVE  users' = users
  BY <1>6 DEF FacadeCall, HostRecord, CallConfigure, CallPackageRule, FirstUse, PackageRule,
              Configure, Transition, Publish, CallShutdown, Expire, Waits, FlushEval, WaitNext,
              WaitCheck, WaitEnd, TakeStop, ShutdownTimeout, StopBody
<1>7. ASSUME NEW q \in Resources, CleanupThread(q) PROVE users' = users
  BY <1>7 DEF CleanupThread, CleanupCheck, CloseReturns, CleanupDone
<1>8. CASE UNCHANGED vars
  BY <1>8, <1>2 DEF vars
<1>9. users[r] <= users[r]
  BY <1>2
<1> QED
  BY <1>3, <1>4, <1>5, <1>6, <1>7, <1>8, <1>9 DEF Next

(* shutdown's promise that nothing is leased while the runtime is stopped.  *)
THEOREM StoppedSafe == Spec => StoppedTakesNothing
<1>1. IInv /\ LifeInv /\ [Next]_vars =>
        [stopped /\ stopped' => \A r \in Resources : users'[r] <= users[r]]_vars
  BY StoppedStep
<1> QED
  BY <1>1, LifeInvariance, PTL DEF Spec, StoppedTakesNothing

LEMMA RecloseStep ==
    ASSUME IInv, LifeInv, [Next]_vars, NEW r \in Resources
    PROVE  /\ r \in closed => r \in closed' /\ cleanup'[r] # "closing"
           /\ cleanup[r] \in {"closing", "recorded"} => cleanup'[r] # "check"
<1>1. r \in closed => cleanup[r] \in {"recorded", "done"}
  BY DEF LifeInv, ClosedRecorded
<1>2. ASSUME NEW S, cleanup' = Started(S), closed' = closed
      PROVE  /\ r \in closed => r \in closed' /\ cleanup'[r] # "closing"
             /\ cleanup[r] \in {"closing", "recorded"} => cleanup'[r] # "check"
  BY <1>1, <1>2 DEF Started, CanStart
<1>3. ASSUME cleanup' = Notified, closed' = closed
      PROVE  /\ r \in closed => r \in closed' /\ cleanup'[r] # "closing"
             /\ cleanup[r] \in {"closing", "recorded"} => cleanup'[r] # "check"
  BY <1>1, <1>3 DEF Notified
<1>4. ASSUME NEW q \in Resources, CleanupThread(q)
      PROVE  /\ r \in closed => r \in closed' /\ cleanup'[r] # "closing"
             /\ cleanup[r] \in {"closing", "recorded"} => cleanup'[r] # "check"
  BY <1>1, <1>4 DEF CleanupThread, CleanupCheck, CloseReturns, CleanupDone, IInv, TypeOk
<1>5. ASSUME NEW t \in Threads, Publish(t) \/ StopBody(t)
      PROVE  \E S : cleanup' = Started(S) /\ closed' = closed
  BY <1>5 DEF Publish, StopBody
<1>6. ASSUME NEW t \in Threads, Release(t) PROVE cleanup' = Notified /\ closed' = closed
  BY <1>6 DEF Release
<1>7. ASSUME NEW q \in Resources, FlushThread(q)
      PROVE  closed' = closed /\ cleanup' \in {Notified, cleanup}
  BY <1>7 DEF FlushThread, FlushReturns, FlushDone
<1>8. ASSUME NEW t \in Threads,
             \/ FacadeCall(t) \/ HostRecord(t) \/ Lease(t) \/ CallConfigure(t) \/ CallPackageRule(t)
             \/ FirstUse(t) \/ PackageRule(t) \/ Configure(t) \/ CallFlush(t)
             \/ CallShutdown(t) \/ Expire(t) \/ FlushEval(t) \/ WaitNext(t) \/ WaitCheck(t)
             \/ WaitEnd(t) \/ TakeStop(t) \/ ShutdownTimeout(t)
      PROVE  UNCHANGED <<closed, cleanup>>
  BY <1>8 DEF FacadeCall, HostRecord, Lease, CallConfigure, CallPackageRule, FirstUse, PackageRule,
              Configure, Transition, CallFlush, CallShutdown, Expire, FlushEval, WaitNext,
              WaitCheck, WaitEnd, TakeStop, ShutdownTimeout, jobs
<1>9. CASE UNCHANGED <<closed, cleanup>>
  BY <1>1, <1>9
<1>10. CASE UNCHANGED vars
  BY <1>9, <1>10 DEF vars
<1> QED
  BY <1>2, <1>3, <1>4, <1>5, <1>6, <1>7, <1>8, <1>9, <1>10 DEF Next, Waits

(* _start_cleanup never runs a close beside another or after a success. *)
THEOREM NeverRecloses == Spec => NeverReclose
<1>1. IInv /\ LifeInv /\ [Next]_vars =>
        [\A r \in Resources :
            /\ r \in closed => r \in closed' /\ cleanup'[r] # "closing"
            /\ cleanup[r] \in {"closing", "recorded"} => cleanup'[r] # "check"]_vars
  BY RecloseStep
<1> QED
  BY <1>1, LifeInvariance, PTL DEF Spec, NeverReclose

(* A retired provider that shutdown does not start again is being closed.  *)
LEMMA AttendedBefore ==
    ASSUME IInv, LifeInv, NEW t \in Threads, pc[t] = "stop", NEW r \in retired,
           r \notin closed, r \notin Restartable
    PROVE  cleanup[r] \in Running
<1>1. r \in Resources /\ cleanup[r] \in CleanupStates /\ users[r] # 0
  BY DEF IInv, TypeOk, Restartable, Idle
<1>2. ASSUME NEW u \in Threads PROVE AllOf(plan[u].draft) = {}
  <2>1. pc[u] \notin Publishing
    BY DEF IInv, LockHeld, Publishing
  <2> QED
    BY <2>1 DEF LifeInv, PlanOnlyPublishing, NoPlan, Nothing, AllOf
<1>3. r \notin Live
  BY DEF IInv, SnapshotUnretired, Unretired
<1>4. key[r] # NoKey
  BY <1>1 DEF IInv, UnbuiltNowhere, Unretired
<1>5. cleanup[r] # "none"
  BY <1>1, <1>2, <1>3, <1>4 DEF LifeInv, NoneForgotten
<1>6. cleanup[r] # "done"
  BY <1>1 DEF IInv, ClosingUnused
<1> QED
  BY <1>1, <1>5, <1>6 DEF CleanupStates, Running

LEMMA AttendedStep ==
    ASSUME IInv, LifeInv, NEW t \in Threads, StopBody(t), NEW r \in retired'
    PROVE  r \in closed \/ cleanup'[r] \in Running
<1>1. /\ pc[t] = "stop" /\ cleanup' = Started(Live \union Restartable)
      /\ retired' = retired \union Live
  BY DEF StopBody
<1>2. r \in Resources /\ cleanup[r] \in CleanupStates
  BY <1>1 DEF IInv, TypeOk, Live, AllOf, Choices
<1>3. CASE r \in Live \union Restartable
  BY <1>1, <1>2, <1>3 DEF Started, CanStart, CleanupStates, Running
<1>4. ASSUME r \notin Live \union Restartable, r \notin closed
      PROVE  cleanup'[r] \in Running
  <2>1. cleanup[r] \in Running
    BY <1>1, <1>4, AttendedBefore
  <2> QED
    BY <1>1, <1>2, <1>4, <2>1 DEF Started
<1> QED
  BY <1>3, <1>4

(* The body of shutdown restarts the cleanup of every provider that needs   *)
(* one: a failed close is tried again, also that of a provider retired by a *)
(* configure long before.                                                   *)
THEOREM StopAttends == Spec => NoneUnattended
<1>1. IInv /\ LifeInv =>
        [\A t \in Threads : StopBody(t) =>
            \A r \in retired' : r \in closed \/ cleanup'[r] \in Running]_vars
  BY AttendedStep
<1> QED
  BY <1>1, LifeInvariance, PTL DEF Spec, NoneUnattended

(****************************************************************************)
(* Runtime implements Lifecycle.                                            *)
(****************************************************************************)
AbstractStatus == [r \in Resources |-> StatusOf(r)]
AbstractLease  == [r \in Resources |-> LeaseOf(r)]

LEMMA RefinesInit == Init => L!Init
BY DEF Init, L!Init, StatusOf, LeaseOf, HoldersOf, FlushUses, Live, AllOf, Nothing

(* A step that moves no provider from one status to another. *)
LEMMA SameStatus ==
    ASSUME UNCHANGED <<snapshot, retired, closed>>,
           \A r \in Resources : cleanup[r] = "closing" <=> cleanup'[r] = "closing"
    PROVE  AbstractStatus' = AbstractStatus
BY DEF AbstractStatus, StatusOf, Live

LEMMA SameLease ==
    ASSUME UNCHANGED held, \A r \in Resources : flushing[r] = "run" <=> flushing'[r] = "run"
    PROVE  AbstractLease' = AbstractLease
BY DEF AbstractLease, LeaseOf, HoldersOf, FlushUses

LEMMA RefinesQuiet ==
    ASSUME NEW t \in Threads,
           \/ FacadeCall(t) \/ HostRecord(t) \/ CallConfigure(t) \/ CallPackageRule(t)
           \/ FirstUse(t) \/ PackageRule(t) \/ Configure(t) \/ CallShutdown(t) \/ Expire(t)
           \/ FlushEval(t) \/ WaitNext(t) \/ WaitCheck(t) \/ TakeStop(t) \/ ShutdownTimeout(t)
    PROVE  UNCHANGED <<AbstractStatus, AbstractLease>>
<1>1. UNCHANGED <<snapshot, retired, closed, cleanup, held, flushing>>
  BY DEF FacadeCall, HostRecord, CallConfigure, CallPackageRule, FirstUse, PackageRule,
         Configure, Transition, CallShutdown, Expire, FlushEval, WaitNext, WaitCheck, TakeStop,
         ShutdownTimeout, global, jobs
<1> QED
  BY <1>1, SameStatus, SameLease

(* What the abstract status of a resource says about the detailed state. *)
LEMMA LiveActive ==
    ASSUME IInv, LifeInv, NEW r \in Resources
    PROVE  /\ StatusOf(r) = "active" <=> r \in Live
           /\ r \in Live => r \notin closed /\ r \notin retired
BY DEF IInv, SnapshotUnretired, Unretired, StatusOf

LEMMA RefinesLease ==
    ASSUME IInv, LifeInv, NEW t \in Threads, Lease(t)
    PROVE  \E S \in SUBSET Resources : L!Acquire(t, S)
<1>1. PICK S : /\ S \in {Live, Live \ {snapshot["sentry"]}, {}}
               /\ held' = [held EXCEPT ![t] = S]
  BY DEF Lease
<1>2. S \subseteq Live /\ S \subseteq Resources
  BY <1>1 DEF IInv, TypeOk, Live, AllOf, Choices
<1>3. held[t] = {}
  BY DEF Lease, IInv, LeasesDelivered, Place
<1>4. S \subseteq L!In({"active"})
  BY <1>2, LiveActive DEF L!In
<1>5. flushing' = flushing /\ AbstractStatus' = AbstractStatus
  BY SameStatus DEF Lease, global, jobs
<1>6. \A r \in Resources : LeaseOf(r)' = IF r \in S THEN LeaseOf(r) \union {t} ELSE LeaseOf(r)
  BY <1>1, <1>3, <1>5 DEF LeaseOf, HoldersOf, FlushUses, IInv, TypeOk
<1> QED
  BY <1>2, <1>4, <1>5, <1>6 DEF L!Acquire, AbstractStatus, AbstractLease

LEMMA RefinesRelease ==
    ASSUME IInv, NEW t \in Threads, Release(t)
    PROVE  \E S \in SUBSET Resources : L!Drop(t, S)
<1>1. held[t] \in SUBSET Resources /\ t # FlushJob
  BY NamesAssumption DEF IInv, TypeOk
<1>2. AbstractStatus' = AbstractStatus
  <2>1. \A r \in Resources : cleanup[r] = "closing" <=> cleanup'[r] = "closing"
    BY DEF Release, Notified
  <2> QED
    BY <2>1, SameStatus DEF Release, global
<1>3. held' = [held EXCEPT ![t] = {}] /\ flushing' = flushing
  BY DEF Release
<1>4. \A r \in Resources :
        LeaseOf(r)' = IF r \in held[t] THEN LeaseOf(r) \ {t} ELSE LeaseOf(r)
  BY <1>1, <1>3 DEF LeaseOf, HoldersOf, FlushUses, IInv, TypeOk
<1> QED
  BY <1>1, <1>2, <1>4 DEF L!Drop, AbstractStatus, AbstractLease

LEMMA RefinesCallFlush ==
    ASSUME IInv, LifeInv, NEW t \in Threads, CallFlush(t)
    PROVE  \E S \in SUBSET Resources : L!Acquire(FlushJob, S)
<1> DEFINE new == {r \in Live : flushing[r] = "none"}
<1>1. new \in SUBSET Resources /\ new \subseteq L!In({"active"})
  BY LiveActive DEF L!In, IInv, TypeOk, Live, AllOf, Choices
<1>2. AbstractStatus' = AbstractStatus
  BY SameStatus DEF CallFlush, global
<1>3. held' = held /\ flushing' = [r \in Resources |-> IF r \in new THEN "run" ELSE flushing[r]]
  BY DEF CallFlush
<1>4. \A r \in Resources :
        LeaseOf(r)' = IF r \in new THEN LeaseOf(r) \union {FlushJob} ELSE LeaseOf(r)
  BY <1>3 DEF LeaseOf, HoldersOf, FlushUses
<1> QED
  BY <1>1, <1>2, <1>4 DEF L!Acquire, AbstractStatus, AbstractLease

LEMMA RefinesFlushReturns ==
    ASSUME IInv, NEW r \in Resources, NEW ok \in BOOLEAN, FlushReturns(r, ok)
    PROVE  \E S \in SUBSET Resources : L!Drop(FlushJob, S)
<1>1. AbstractStatus' = AbstractStatus
  <2>1. \A q \in Resources : cleanup[q] = "closing" <=> cleanup'[q] = "closing"
    BY DEF FlushReturns, Notified
  <2> QED
    BY <2>1, SameStatus DEF FlushReturns, global
<1>2. held' = held /\ flushing' = [flushing EXCEPT ![r] = "released"]
  BY DEF FlushReturns, thread
<1>3. \A q \in Resources : FlushJob \notin HoldersOf(q)
  BY NamesAssumption DEF HoldersOf
<1>4. \A q \in Resources :
        LeaseOf(q)' = IF q \in {r} THEN LeaseOf(q) \ {FlushJob} ELSE LeaseOf(q)
  BY <1>2, <1>3 DEF LeaseOf, HoldersOf, FlushUses, IInv, TypeOk
<1>5. {r} \in SUBSET Resources
  OBVIOUS
<1> QED
  BY <1>1, <1>4, <1>5 DEF L!Drop, AbstractStatus, AbstractLease

LEMMA RefinesFlushDone ==
    ASSUME IInv, NEW r \in Resources, FlushDone(r)
    PROVE  UNCHANGED <<AbstractStatus, AbstractLease>>
<1>1. UNCHANGED <<snapshot, retired, closed, cleanup, held>>
  BY DEF FlushDone, global
<1>2. \A q \in Resources : flushing[q] = "run" <=> flushing'[q] = "run"
  BY DEF FlushDone, IInv, TypeOk
<1> QED
  BY <1>1, <1>2, SameStatus, SameLease

(* The counter at zero is what makes the abstract provider unleased. *)
LEMMA IdleUnleased ==
    ASSUME IInv, NEW r \in Resources, users[r] = 0
    PROVE  LeaseOf(r) = {}
<1>1. IsFiniteSet(HoldersOf(r))
  BY ThreadsAssumption, FS_Subset DEF HoldersOf
<1>2. Cardinality(HoldersOf(r)) \in Nat
  BY <1>1, FS_CardinalityType
<1>3. Cardinality(HoldersOf(r)) = 0 /\ ~FlushUses(r)
  BY <1>2 DEF IInv, UsersCount
<1>4. HoldersOf(r) = {}
  BY <1>1, <1>3, FS_EmptySet
<1> QED
  BY <1>3, <1>4 DEF LeaseOf

LEMMA RefinesCheck ==
    ASSUME IInv, LifeInv, NEW r \in Resources, CleanupCheck(r)
    PROVE  L!BeginClose(r) \/ UNCHANGED <<AbstractStatus, AbstractLease>>
<1>1. UNCHANGED <<snapshot, retired, closed, held, flushing>>
  BY DEF CleanupCheck, global, thread
<1>2. AbstractLease' = AbstractLease
  BY <1>1, SameLease
<1>3. CASE Idle(r)
  <2>1. cleanup' = [cleanup EXCEPT ![r] = "closing"] /\ cleanup[r] = "check"
    BY <1>3 DEF CleanupCheck
  <2>2. r \notin closed /\ r \in retired /\ r \notin Live
    BY <2>1 DEF IInv, LifeInv, ClosedRecorded, CleanupRetired, SnapshotUnretired, Unretired
  <2>3. StatusOf(r) = "retired" /\ LeaseOf(r) = {}
    BY <1>3, <2>1, <2>2, IdleUnleased DEF StatusOf, Idle
  <2>4. StatusOf(r)' = "closing"
    BY <1>1, <2>1, <2>2 DEF StatusOf, Live, IInv, TypeOk
  <2>5. \A q \in Resources \ {r} : StatusOf(q)' = StatusOf(q)
    BY <1>1, <2>1 DEF StatusOf, Live, IInv, TypeOk
  <2> QED
    BY <1>2, <2>3, <2>4, <2>5 DEF L!BeginClose, AbstractStatus, AbstractLease
<1>4. CASE ~Idle(r)
  <2>1. \A q \in Resources : cleanup[q] = "closing" <=> cleanup'[q] = "closing"
    BY <1>4 DEF CleanupCheck, IInv, TypeOk
  <2> QED
    BY <1>1, <1>2, <2>1, SameStatus
<1> QED
  BY <1>3, <1>4

LEMMA RefinesClose ==
    ASSUME IInv, LifeInv, NEW r \in Resources, NEW ok \in BOOLEAN, CloseReturns(r, ok)
    PROVE  L!EndClose(r)
<1>1. UNCHANGED <<snapshot, retired, held, flushing>>
  BY DEF CloseReturns, global, thread
<1>2. AbstractLease' = AbstractLease
  BY <1>1, SameLease
<1>3. /\ cleanup' = [cleanup EXCEPT ![r] = "recorded"] /\ cleanup[r] = "closing"
      /\ closed' = IF ok THEN closed \union {r} ELSE closed
  BY DEF CloseReturns
<1>4. r \notin closed /\ r \in retired /\ r \notin Live
  BY <1>3 DEF IInv, LifeInv, ClosedRecorded, CleanupRetired, SnapshotUnretired, Unretired
<1>5. StatusOf(r) = "closing" /\ StatusOf(r)' \in {"closed", "retired"}
  BY <1>1, <1>3, <1>4 DEF StatusOf, Live, IInv, TypeOk
<1>6. \A q \in Resources \ {r} : StatusOf(q)' = StatusOf(q)
  BY <1>1, <1>3 DEF StatusOf, Live, IInv, TypeOk
<1> QED
  BY <1>2, <1>5, <1>6 DEF L!EndClose, AbstractStatus, AbstractLease

LEMMA RefinesCleanupDone ==
    ASSUME IInv, NEW r \in Resources, CleanupDone(r)
    PROVE  UNCHANGED <<AbstractStatus, AbstractLease>>
<1>1. UNCHANGED <<snapshot, retired, closed, held, flushing>>
  BY DEF CleanupDone, global
<1>2. \A q \in Resources : cleanup[q] = "closing" <=> cleanup'[q] = "closing"
  BY DEF CleanupDone, IInv, TypeOk
<1> QED
  BY <1>1, <1>2, SameStatus, SameLease

(* A transition that retires the live resources outside S. *)
LEMMA Switching ==
    ASSUME IInv, LifeInv, NEW S \in SUBSET Resources,
           S \subseteq L!In({"unbuilt", "active"}),
           Live' = S, retired' = retired \union (Live \ S),
           UNCHANGED <<closed, held, flushing>>,
           \A r \in Resources : cleanup[r] = "closing" <=> cleanup'[r] = "closing",
           \A r \in Live : cleanup[r] = "none"
    PROVE  L!Switch(S)
<1>1. AbstractLease' = AbstractLease
  BY SameLease
<1>2. \A r \in Resources : r \in Live => r \notin closed
  BY LiveActive
<1>3. \A r \in Resources : r \in S => r \notin closed
  BY DEF L!In, StatusOf
<1>4. ASSUME NEW r \in Resources
      PROVE  StatusOf(r)' = IF r \in S THEN "active"
                            ELSE IF StatusOf(r) = "active" THEN "retired" ELSE StatusOf(r)
  <2>1. CASE r \in S
    BY <1>3, <2>1 DEF StatusOf
  <2>2. CASE r \notin S /\ r \in Live
    <3>1. cleanup'[r] # "closing"
      BY <2>2
    <3>2. StatusOf(r)' = "retired"
      BY <1>2, <2>2, <3>1 DEF StatusOf
    <3> QED
      BY <2>2, <3>2, LiveActive
  <2>3. CASE r \notin S /\ r \notin Live
    BY <2>3 DEF StatusOf
  <2> QED
    BY <2>1, <2>2, <2>3
<1> QED
  BY <1>1, <1>4 DEF L!Switch, AbstractStatus, AbstractLease

LEMMA RefinesPublish ==
    ASSUME IInv, LifeInv, NEW t \in Threads, Publish(t)
    PROVE  \E S \in SUBSET Resources : L!Switch(S)
<1> DEFINE S == AllOf(plan[t].draft)
<1>1. S \in SUBSET Resources /\ Live' = S /\ AllOf(plan[t].olds) = Live
  BY DEF IInv, TypeOk, PlanFits, Publish, Live, AllOf, Choices
<1>2. \A r \in S : Unretired(r)
  BY DEF Publish, IInv, PlanFits
<1>3. \A r \in Live : Unretired(r)
  BY DEF IInv, SnapshotUnretired
<1>4. S \subseteq L!In({"unbuilt", "active"})
  BY <1>1, <1>2 DEF L!In, StatusOf, Unretired
<1>5. retired' = retired \union (Live \ S) /\ UNCHANGED <<closed, held, flushing>>
  BY <1>1 DEF Publish, Gone
<1>6. \A r \in Resources : cleanup[r] = "closing" <=> cleanup'[r] = "closing"
  BY DEF Publish, Started, CanStart
<1>7. L!Switch(S)
  BY <1>1, <1>3, <1>4, <1>5, <1>6, Switching DEF Unretired
<1> QED
  BY <1>1, <1>7

LEMMA RefinesStop ==
    ASSUME IInv, LifeInv, NEW t \in Threads, StopBody(t)
    PROVE  L!Switch({})
<1>1. Live' = {}
  BY DEF StopBody, Unpublished, Nothing, Live, AllOf
<1>2. \A r \in Live : Unretired(r)
  BY DEF IInv, SnapshotUnretired
<1>3. retired' = retired \union (Live \ {}) /\ UNCHANGED <<closed, held, flushing>>
  BY DEF StopBody
<1>4. \A r \in Resources : cleanup[r] = "closing" <=> cleanup'[r] = "closing"
  BY DEF StopBody, Started, CanStart
<1> QED
  BY <1>1, <1>2, <1>3, <1>4, Switching DEF Unretired

LEMMA RefinesWaitEnd ==
    ASSUME IInv, NEW t \in Threads, WaitEnd(t)
    PROVE  UNCHANGED <<AbstractStatus, AbstractLease>>
<1>1. UNCHANGED <<snapshot, closed, cleanup, held, flushing>> /\ retired' = retired \ closed
  BY DEF WaitEnd, global, jobs
<1>2. AbstractStatus' = AbstractStatus
  BY <1>1 DEF AbstractStatus, StatusOf, Live
<1> QED
  BY <1>1, <1>2, SameLease

LEMMA RefinesNext ==
    ASSUME IInv, LifeInv, [Next]_vars
    PROVE  L!Next \/ UNCHANGED <<AbstractStatus, AbstractLease>>
<1>1. ASSUME NEW t \in Threads, Lease(t) \/ Release(t) \/ CallFlush(t) \/ Publish(t)
      PROVE  L!Next
  BY <1>1, RefinesLease, RefinesRelease, RefinesCallFlush, RefinesPublish DEF L!Next
<1>2. ASSUME NEW t \in Threads, StopBody(t) PROVE L!Next
  BY <1>2, RefinesStop DEF L!Next
<1>3. ASSUME NEW t \in Threads,
             \/ FacadeCall(t) \/ HostRecord(t) \/ CallConfigure(t) \/ CallPackageRule(t)
             \/ FirstUse(t) \/ PackageRule(t) \/ Configure(t) \/ CallShutdown(t) \/ Expire(t)
             \/ FlushEval(t) \/ WaitNext(t) \/ WaitCheck(t) \/ TakeStop(t) \/ ShutdownTimeout(t)
      PROVE  UNCHANGED <<AbstractStatus, AbstractLease>>
  BY <1>3, RefinesQuiet
<1>4. ASSUME NEW t \in Threads, WaitEnd(t) PROVE UNCHANGED <<AbstractStatus, AbstractLease>>
  BY <1>4, RefinesWaitEnd
<1>5. ASSUME NEW r \in Resources, CleanupThread(r)
      PROVE  L!Next \/ UNCHANGED <<AbstractStatus, AbstractLease>>
  BY <1>5, RefinesCheck, RefinesClose, RefinesCleanupDone DEF CleanupThread, L!Next
<1>6. ASSUME NEW r \in Resources, FlushThread(r)
      PROVE  L!Next \/ UNCHANGED <<AbstractStatus, AbstractLease>>
  BY <1>6, RefinesFlushReturns, RefinesFlushDone DEF FlushThread, L!Next
<1>7. CASE UNCHANGED vars
  BY <1>7 DEF vars, AbstractStatus, AbstractLease, StatusOf, LeaseOf, HoldersOf, FlushUses, Live
<1> QED
  BY <1>1, <1>2, <1>3, <1>4, <1>5, <1>6, <1>7 DEF Next, Waits

(* Every step of the runtime is a step of Lifecycle or changes nothing that *)
(* Lifecycle speaks of: leases before closing, a failed close retried,      *)
(* nothing retired published again.                                         *)
THEOREM RefinesLifecycle == Spec => ImplementsLifecycle
<1>1. IInv /\ LifeInv /\ [Next]_vars => [L!Next]_(L!vars)
  BY RefinesNext DEF L!vars, AbstractStatus, AbstractLease
<1> QED
  BY <1>1, RefinesInit, LifeInvariance, PTL DEF Spec, ImplementsLifecycle, L!Spec

(* What LifecycleProofs shows of every implementation holds of the runtime. *)
P == INSTANCE LifecycleProofs WITH Holders <- Threads \union {FlushJob},
                                   status <- [r \in Resources |-> StatusOf(r)],
                                   lease <- [r \in Resources |-> LeaseOf(r)]

LEMMA LifeCarries == L!Spec => L!LifeGoesOn
<1>1. L!Init => P!Init
  BY DEF L!Init, P!Init
<1>2. [L!Next]_(L!vars) => [P!Next]_(P!vars)
  BY DEF L!Next, P!Next, L!vars, P!vars, L!Switch, P!Switch, L!Acquire, P!Acquire, L!Drop, P!Drop,
         L!BeginClose, P!BeginClose, L!EndClose, P!EndClose, L!In, P!In
<1>3. L!Spec => P!Spec
  BY <1>1, <1>2, PTL DEF L!Spec, P!Spec
<1>4. P!LifeGoesOn => L!LifeGoesOn
  BY DEF P!LifeGoesOn, L!LifeGoesOn, P!Age, L!Age, P!vars, L!vars
<1>5. P!Spec => P!LifeGoesOn
  BY P!LifecycleAges
<1> QED
  BY <1>3, <1>4, <1>5, PTL

(* A provider's life never goes back, over any replacements, failing closes *)
(* and restarts: what was retired is never published again, and what was    *)
(* closed stays closed (_retire, _start_cleanup, _update).                  *)
THEOREM LifeSafe == Spec => L!LifeGoesOn
BY RefinesLifecycle, LifeCarries DEF ImplementsLifecycle
==============================================================================
