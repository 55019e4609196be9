------------------------------ MODULE Lifecycle ------------------------------
(****************************************************************************)
(* What the runtime promises for its providers, with no threads, locks or   *)
(* jobs in it: a provider is in use while the published snapshot names it,  *)
(* is retired when a transition leaves it out, and is closed only after     *)
(* everyone who leased it has let go.  A close that reports failure leaves  *)
(* the provider retired, so that a later attempt can close it.              *)
(*                                                                          *)
(* Runtime.tla implements this specification.                               *)
(****************************************************************************)
EXTENDS Naturals

CONSTANTS Resources,  \* provider instances
          Holders     \* whoever can keep a provider open: threads, flush jobs

VARIABLES status,     \* status[r]: where r is in its life
          lease       \* lease[r]: who keeps r open

vars == <<status, lease>>

Statuses == {"unbuilt", "active", "retired", "closing", "closed"}

TypeOk == /\ status \in [Resources -> Statuses]
          /\ lease \in [Resources -> SUBSET Holders]

Init == /\ status = [r \in Resources |-> "unbuilt"]
        /\ lease = [r \in Resources |-> {}]

In(S) == {r \in Resources : status[r] \in S}

(* A transition publishes the set S: new providers or ones it keeps. *)
Switch(S) ==
    /\ S \subseteq In({"unbuilt", "active"})
    /\ status' = [r \in Resources |->
                    IF r \in S THEN "active"
                    ELSE IF status[r] = "active" THEN "retired" ELSE status[r]]
    /\ UNCHANGED lease

(* h leases active providers, all in one step. *)
Acquire(h, S) ==
    /\ S \subseteq In({"active"})
    /\ lease' = [r \in Resources |-> IF r \in S THEN lease[r] \union {h} ELSE lease[r]]
    /\ UNCHANGED status

Drop(h, S) ==
    /\ lease' = [r \in Resources |-> IF r \in S THEN lease[r] \ {h} ELSE lease[r]]
    /\ UNCHANGED status

BeginClose(r) ==
    /\ status[r] = "retired"
    /\ lease[r] = {}
    /\ status' = [status EXCEPT ![r] = "closing"]
    /\ UNCHANGED lease

EndClose(r) ==
    /\ status[r] = "closing"
    /\ \E outcome \in {"closed", "retired"} :
           status' = [status EXCEPT ![r] = outcome]
    /\ UNCHANGED lease

Next == \/ \E S \in SUBSET Resources : Switch(S)
        \/ \E h \in Holders, S \in SUBSET Resources : Acquire(h, S) \/ Drop(h, S)
        \/ \E r \in Resources : BeginClose(r) \/ EndClose(r)

Spec == Init /\ [][Next]_vars

(* Nobody holds a provider that is being closed or is closed: the promise   *)
(* "never close resources beneath active users".                            *)
ClosedUnused == \A r \in In({"closing", "closed"}) : lease[r] = {}

(* A provider's life never goes back: once retired it is never active       *)
(* again, and once closed it stays closed, so that no old cleanup can touch *)
(* what a restart publishes.                                                *)
Age(s) == IF s = "unbuilt" THEN 0 ELSE IF s = "active" THEN 1
          ELSE IF s = "closed" THEN 3 ELSE 2
LifeGoesOn == [][\A r \in Resources : Age(status[r]) <= Age(status'[r])]_vars
==============================================================================
