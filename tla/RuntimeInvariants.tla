-------------------------- MODULE RuntimeInvariants --------------------------
(****************************************************************************)
(* The inductive invariant behind the safety properties of Runtime.         *)
(* RuntimeProofs proves it; MCRuntime checks it on a small instance.        *)
(****************************************************************************)
EXTENDS Runtime

(* The transition lock is held exactly by the thread that is between the    *)
(* two halves of an update or in the body of shutdown.                      *)
LockHeld == \A t \in Threads : lock = t <=> pc[t] \in Publishing \union {"stop"}

(* Where t's own code is: a lifecycle call returns to cont. *)
Place(t) == IF pc[t] \in {"idle", "dispatch", "deliver"} THEN pc[t] ELSE cont[t]

(* Only a delivery holds leases. *)
LeasesDelivered == \A t \in Threads : held[t] # {} => Place(t) = "deliver"

(* An empty slot is one the settings leave out; a filled one holds a        *)
(* provider of its kind, built with those settings.                         *)
Fits(choice, conf) == \A s \in Slots :
    /\ choice[s] = None <=> conf[s] = NoKey
    /\ choice[s] # None => SlotOf[choice[s]] = s /\ key[choice[s]] = conf[s]

(* A provider nobody has retired or closed. *)
Unretired(r) == r \notin retired \union closed /\ cleanup[r] = "none"

SnapshotFits == IF published THEN Fits(snapshot, settings) ELSE snapshot = Nothing
SnapshotUnretired == \A r \in Live : Unretired(r)

(* A prepared update still describes the snapshot it will replace. *)
PlanFits == \A t \in Threads :
    pc[t] \in Publishing => /\ plan[t].olds = snapshot
                            /\ Fits(plan[t].draft, plan[t].goal)
                            /\ \A r \in AllOf(plan[t].draft) : Unretired(r)

(* A resource that was not built yet is nowhere. *)
UnbuiltNowhere == \A r \in Resources : key[r] = NoKey => Unretired(r)

(* Closing has begun only with the counter at zero, and it stays there. *)
ClosingUnused == \A r \in Resources :
    r \in closed \/ cleanup[r] \in {"closing", "recorded", "done"} => users[r] = 0

(* What a waiter has ticked off is closed. *)
WaitedClosed == \A t \in Threads :
    pc[t] \in Waiting => call[t].scope \subseteq call[t].todo \union closed

IInv == /\ TypeOk
        /\ UsersCount
        /\ LockHeld
        /\ LeasesDelivered
        /\ SnapshotFits
        /\ SnapshotUnretired
        /\ PlanFits
        /\ UnbuiltNowhere
        /\ ClosingUnused
        /\ WaitedClosed
        /\ OnlyConfigureRestarts

(****************************************************************************)
(* What the refinement of Lifecycle and the action properties rest on.      *)
(****************************************************************************)
(* A cleanup thread belongs to a retired resource, and to a closed one only *)
(* while or after it recorded the result.                                   *)
CleanupRetired == \A r \in Resources : cleanup[r] # "none" => r \in retired \union closed
ClosedRecorded == \A r \in closed : cleanup[r] \in {"recorded", "done"}

(* A plan exists only between the two halves of an update. *)
PlanOnlyPublishing == \A t \in Threads : pc[t] \notin Publishing => plan[t] = NoPlan

StoppedUnpublished == stopped => ~published

LifeInv == /\ CleanupRetired
           /\ ClosedRecorded
           /\ PlanOnlyPublishing
           /\ StoppedUnpublished
           /\ NoneForgotten

(****************************************************************************)
(* Why nobody sleeps for ever: whoever waits without looking again waits    *)
(* for something under way, whose end wakes it.  This is the part of the    *)
(* liveness properties that is an invariant.                                *)
(****************************************************************************)
Running == {"check", "asleep", "closing", "recorded"}

(* A cleanup sleeps only while somebody uses its resource and will release  *)
(* it: wait_for tested the counter and no release has passed unnoticed.     *)
SleepersUsed == \A r \in Resources : cleanup[r] = "asleep" => InUse(r)

(* A flush awaits only jobs that are not done. *)
JobsAwaited == \A t \in Threads : \A r \in call[t].await : flushing[r] # "none"

(* A wait for a cleanup job that is not over is for one that is not done.   *)
WaitersWoken == \A t \in Threads : pc[t] = "waitJob" =>
    /\ call[t].target \in Resources
    /\ call[t].woken \/ cleanup[call[t].target] \in Running

WakeInv == SleepersUsed /\ JobsAwaited /\ WaitersWoken

(* All of it, as it is checked: what transitions, flushes, closes and       *)
(* waiters assume of one another between their steps.                       *)
RuntimeInv == IInv /\ LifeInv /\ WakeInv

(* A shutdown leaves no retired provider unattended: each one is closed or  *)
(* its cleanup is under way, also when an earlier close failed.             *)
NoneUnattended == [][\A t \in Threads : StopBody(t) =>
    \A r \in retired' : r \in closed \/ cleanup'[r] \in Running]_vars
=============================================================================
