---------------------------- MODULE DeliveryProofs ----------------------------
(****************************************************************************)
(* The properties of Delivery, for any emitters, flushers, events and queue *)
(* capacity.                                                                *)
(****************************************************************************)
EXTENDS Delivery, FiniteSetTheorems, TLAPS

(* Every counted drop is an event that failed. *)
Failed == At({"failing", "lost"})
DropsCounted == dropped <= Cardinality(Failed)

(* A delivery has an event of its own. *)
EmittingTaken == \A t \in Emitters : \A e \in emitting[t] :
    event[e] = "taken" /\ \A u \in Emitters : e \in emitting[u] => u = t

(* From the end of its wait for leases a cleanup finds no delivery, and a   *)
(* retired provider gets no new one.                                        *)
CleanupRetired ==
    /\ published => cleanup.at = "none" /\ ~torn
    /\ cleanup.at \notin {"none", "wait"} => NoDelivery
    /\ cleanup.at = "destroy" => Pending = {}

(* A flush job and a close never run together. *)
JobAlone   == JobRunning => cleanup.at \in {"none", "wait"}

(* Who waits for a job, and who for a cleanup. *)
Awaited == \A t \in Flushers :
    /\ call[t].at = "await" => job.at # "none"
    /\ call[t].at = "waiting" => call[t].listed
    /\ call[t].own => ~call[t].listed
    /\ call[t].base <= dropped
    /\ call[t].own /\ call[t].at = "await" =>
          \A u \in Flushers : call[u].own /\ call[u].at = "await" => u = t

(* What a call that started its own job knows at each of the job's steps.   *)
Lossy(t)    == \E e \in call[t].seen : event[e] \in {"failing", "lost"}
AllSent(t)  == call[t].seen \subseteq At({"sent"})
Overtaken(t) == \E e \in call[t].ahead : event[e] \notin {"new", "taken"}

OwnJob(t) ==
    /\ \A e \in call[t].seen : event[e] \notin {"new", "taken"}
    /\ Lossy(t) => call[t].base < dropped
    /\ At({"new", "taken"}) \subseteq call[t].ahead
    /\ job.late => call[t].late
    /\ job.at \in {"drain", "check", "count"} => reported = call[t].base
    /\ job.at = "check" => job.late \/ Pending \subseteq call[t].ahead
    /\ job.at = "count" => IF job.idle THEN call[t].seen \intersect Pending = {}
                           ELSE job.late \/ Overtaken(t)
    /\ job.at \in {"leave", "ready"} => IF job.ok THEN AllSent(t) ELSE Reason(t)

OwnCall == \A t \in Flushers : call[t].own =>
    /\ call[t].at = "await" => OwnJob(t)
    /\ call[t].at = "retired" => AllSent(t)
    /\ call[t].at = "failed" => Reason(t)

DeliveryInv == /\ TypeOk
               /\ DropsCounted
               /\ EmittingTaken
               /\ CleanupRetired
               /\ CloseLosesNothing
               /\ JobAlone
               /\ Awaited
               /\ OwnCall

LEMMA EventsCounted == Cardinality(Events) \in Nat
BY DeliveryAssumption, FS_CardinalityType

LEMMA DeliveryInit == Init => DeliveryInv
<1> SUFFICES ASSUME Init PROVE DeliveryInv
  OBVIOUS
<1>1. Cardinality(Events) \in Nat /\ Cardinality(Failed) \in Nat
  <2>1. Failed \subseteq Events
    BY DEF Failed, At
  <2> QED
    BY <2>1, DeliveryAssumption, FS_CardinalityType, FS_Subset
<1>2. TypeOk
  <2>1. 0 \in Drops
    BY <1>1 DEF Drops
  <2>2. NoJob \in [at : JobSteps, idle : BOOLEAN, ok : BOOLEAN, late : BOOLEAN]
    BY DEF NoJob, JobSteps
  <2>3. NoCleanup \in [at : CloseSteps, idle : BOOLEAN, ok : BOOLEAN]
    BY DEF NoCleanup, CloseSteps
  <2>4. NoCall \in [at : CallSteps, own : BOOLEAN, listed : BOOLEAN, woken : BOOLEAN,
                    late : BOOLEAN, seen : SUBSET Events, ahead : SUBSET Events, base : Drops]
    BY <2>1 DEF NoCall, CallSteps
  <2>5. event \in [Events -> Stages]
    BY DEF Init, Stages
  <2>6. emitting \in [Emitters -> {{}} \union {{e} : e \in Events}]
    BY DEF Init
  <2>7. call \in [Flushers -> [at : CallSteps, own : BOOLEAN, listed : BOOLEAN, woken : BOOLEAN,
                    late : BOOLEAN, seen : SUBSET Events, ahead : SUBSET Events, base : Drops]]
    BY <2>4 DEF Init
  <2>8. reported \in 0..dropped /\ dropped \in Drops
    BY <2>1 DEF Init
  <2> QED
    BY <2>2, <2>3, <2>5, <2>6, <2>7, <2>8 DEF Init, TypeOk
<1>3. DropsCounted
  BY <1>1 DEF Init, DropsCounted
<1>4. EmittingTaken /\ CleanupRetired /\ CloseLosesNothing /\ JobAlone
  BY DEF Init, EmittingTaken, CleanupRetired, CloseLosesNothing, JobAlone, JobRunning, NoJob, NoCleanup
<1>5. Awaited /\ OwnCall
  BY DEF Init, Awaited, OwnCall, NoCall
<1> QED
  BY <1>2, <1>3, <1>4, <1>5 DEF DeliveryInv

(****************************************************************************)
(* Steps of the events.                                                     *)
(****************************************************************************)
(* What an event's step does: it moves on, and a failure may be counted.    *)
Moves(e, old, new) ==
    /\ event[e] = old /\ event' = [event EXCEPT ![e] = new]
    /\ <<old, new>> \in {<<"new", "taken">>, <<"taken", "queued">>, <<"taken", "lost">>,
                         <<"queued", "sending">>, <<"sending", "failing">>,
                         <<"sending", "sent">>, <<"failing", "lost">>}
    /\ \/ dropped' = dropped
       \/ dropped' = dropped + 1 /\ <<old, new>> \in {<<"taken", "lost">>, <<"sending", "failing">>}
    /\ <<old, new>> = <<"sending", "failing">> => dropped' = dropped + 1
    /\ UNCHANGED <<reported, job, cleanup, torn, closed, call, published>>

LEMMA StepMoves ==
    ASSUME DeliveryInv, NEW e \in Events
    PROVE  /\ \A t \in Emitters : Accept(t, e) => Moves(e, "new", "taken")
           /\ \A t \in Emitters : Capture(t, e) =>
                 Moves(e, "taken", "queued") \/ Moves(e, "taken", "lost")
           /\ Worker(e) => \E old, new \in Stages : Moves(e, old, new)
<1>1. ASSUME NEW t \in Emitters, Accept(t, e) PROVE Moves(e, "new", "taken")
  BY <1>1 DEF Accept, Moves, Becomes, counters
<1>2. ASSUME NEW t \in Emitters, Capture(t, e)
      PROVE  Moves(e, "taken", "queued") \/ Moves(e, "taken", "lost")
  <2>1. event[e] = "taken"
    BY <1>2 DEF Capture, DeliveryInv, EmittingTaken
  <2> QED
    BY <1>2, <2>1 DEF Capture, Moves, Becomes, Counted
<1>3. ASSUME Worker(e) PROVE \E old, new \in Stages : Moves(e, old, new)
  <2>1. Send(e) => Moves(e, "queued", "sending")
    BY DEF Send, Moves, Becomes, counters
  <2>2. Fail(e) => Moves(e, "sending", "failing")
    BY DEF Fail, Moves, Becomes, Counted
  <2>3. Finish(e) => Moves(e, "sending", "sent") \/ Moves(e, "failing", "lost")
    BY DEF Finish, Moves, Becomes, counters
  <2> QED
    BY <1>3, <2>1, <2>2, <2>3 DEF Worker, Stages
<1> QED
  BY <1>1, <1>2, <1>3

LEMMA MovesKeep ==
    ASSUME DeliveryInv, NEW e \in Events, NEW old, NEW new, Moves(e, old, new)
    PROVE  /\ event' \in [Events -> Stages]
           /\ DropsCounted' /\ dropped' \in Drops /\ reported' \in 0..dropped'
           /\ JobAlone' /\ Awaited' /\ OwnCall'
<1> USE DEF DeliveryInv
<1>1. event' \in [Events -> Stages]
  BY DEF Moves, TypeOk, Stages
<1>2. \A f \in Events : event'[f] = IF f = e THEN new ELSE event[f]
  BY DEF Moves, TypeOk
<1>3. DropsCounted' /\ dropped' \in Drops
  <2>1. Failed \subseteq Events /\ Failed' \subseteq Events
    BY DEF Failed, At
  <2>2. /\ IsFiniteSet(Failed) /\ IsFiniteSet(Failed')
        /\ Cardinality(Failed) \in Nat /\ Cardinality(Failed') \in Nat
        /\ Cardinality(Failed') <= Cardinality(Events) /\ Cardinality(Events) \in Nat
    BY <2>1, DeliveryAssumption, FS_CardinalityType, FS_Subset
  <2>3. CASE dropped' = dropped
    <3>1. Failed \subseteq Failed'
      BY <1>2 DEF Moves, Failed, At
    <3>2. Cardinality(Failed) <= Cardinality(Failed')
      BY <3>1, <2>2, FS_Subset
    <3> QED
      BY <2>2, <2>3, <3>2 DEF DropsCounted, TypeOk, Drops
  <2>4. CASE dropped' = dropped + 1 /\ <<old, new>> \in {<<"taken", "lost">>, <<"sending", "failing">>}
    <3>1. Failed' = Failed \union {e} /\ e \notin Failed
      BY <1>2, <2>4 DEF Moves, Failed, At
    <3>2. Cardinality(Failed') = Cardinality(Failed) + 1
      BY <3>1, <2>2, FS_AddElement
    <3> QED
      BY <2>2, <2>4, <3>2 DEF DropsCounted, TypeOk, Drops
  <2> QED
    BY <2>3, <2>4 DEF Moves
<1>4. reported' \in 0..dropped' /\ dropped' \in Nat /\ dropped \in Nat /\ dropped <= dropped'
  BY <1>3 DEF Moves, TypeOk, Drops
<1>5. JobAlone'
  BY DEF Moves, JobAlone, JobRunning
<1>6. Awaited'
  <2>1. \A t \in Flushers : call[t].base \in Nat
    BY DEF TypeOk, Drops
  <2> QED
    BY <1>4, <2>1 DEF Moves, Awaited
<1>7. ASSUME NEW t \in Flushers, call[t].own PROVE
        /\ call[t].at = "await" => OwnJob(t)'
        /\ call[t].at = "retired" => AllSent(t)'
        /\ call[t].at = "failed" => Reason(t)'
  <2>1. call[t].base \in Nat /\ call[t].base <= dropped /\ call[t].seen \subseteq Events
    BY DEF TypeOk, Drops, Awaited
  <2>2. AllSent(t) => AllSent(t)'
    BY <1>2, <2>1 DEF Moves, AllSent, At
  <2>3. Overtaken(t) => Overtaken(t)'
    BY <1>2 DEF Moves, Overtaken, TypeOk
  <2>4. Reason(t) => Reason(t)'
    BY <1>2, <1>4, <2>1 DEF Moves, Reason, TypeOk
  <2>5. ASSUME call[t].at = "await" PROVE OwnJob(t)'
    <3>1. OwnJob(t)
      BY <1>7, <2>5 DEF OwnCall
    <3>2. \A f \in call[t].seen : event'[f] \notin {"new", "taken"}
      BY <1>2, <2>1, <3>1 DEF OwnJob, Moves
    <3>3. Lossy(t)' => call[t].base < dropped'
      BY <1>2, <1>4, <2>1, <3>1 DEF OwnJob, Moves, Lossy
    <3>4. (At({"new", "taken"}) \subseteq call[t].ahead)'
      BY <1>2, <3>1 DEF OwnJob, Moves, At
    <3>5. job.at = "check" => job.late \/ Pending' \subseteq call[t].ahead
      BY <1>2, <3>1 DEF OwnJob, Moves, At, Pending
    <3>6. job.at = "count" => IF job.idle THEN call[t].seen \intersect Pending' = {}
                              ELSE job.late \/ Overtaken(t)'
      BY <1>2, <2>3, <3>1 DEF OwnJob, Moves, At, Pending
    <3> QED
      BY <3>1, <3>2, <3>3, <3>4, <3>5, <3>6, <2>2, <2>4 DEF OwnJob, Moves
  <2> QED
    BY <1>7, <2>2, <2>4, <2>5 DEF OwnCall
<1>8. OwnCall'
  BY <1>7 DEF OwnCall, Moves
<1> QED
  BY <1>1, <1>3, <1>4, <1>5, <1>6, <1>8

(* The actions that move an event. *)
EventStep == \/ \E t \in Emitters, e \in Events : Accept(t, e) \/ Capture(t, e)
             \/ \E e \in Events : Worker(e)

LEMMA EventsKeep == ASSUME DeliveryInv, EventStep PROVE DeliveryInv'
<1> USE DEF DeliveryInv
<1>1. PICK e \in Events, old \in Stages, new \in Stages : Moves(e, old, new)
  BY StepMoves DEF EventStep, Stages
<1>2. /\ event' \in [Events -> Stages]
      /\ DropsCounted' /\ dropped' \in Drops /\ reported' \in 0..dropped'
      /\ JobAlone' /\ Awaited' /\ OwnCall'
  BY <1>1, MovesKeep
<1>3. UNCHANGED <<reported, job, cleanup, torn, closed, call, published>>
  BY <1>1 DEF Moves
<1>4. ASSUME NEW t \in Emitters, NEW e1 \in Events, Accept(t, e1)
      PROVE  /\ \A u \in Emitters : emitting'[u] = IF u = t THEN {e1} ELSE emitting[u]
             /\ event[e1] = "new" /\ published /\ emitting[t] = {}
             /\ \A f \in Events : event'[f] = IF f = e1 THEN "taken" ELSE event[f]
  BY <1>4 DEF Accept, Becomes, TypeOk
<1>5. ASSUME NEW t \in Emitters, NEW e1 \in Events, Capture(t, e1)
      PROVE  /\ \A u \in Emitters : emitting'[u] = IF u = t THEN {} ELSE emitting[u]
             /\ emitting[t] = {e1}
             /\ \A f \in Events : event'[f] = IF f = e1 THEN event'[e1] ELSE event[f]
  BY <1>5 DEF Capture, Becomes, TypeOk
<1>6. ASSUME NEW e1 \in Events, Worker(e1)
      PROVE  /\ emitting' = emitting
             /\ event[e1] \in {"queued", "sending", "failing"}
             /\ \A f \in Events : event'[f] = IF f = e1 THEN event'[e1] ELSE event[f]
  BY <1>6 DEF Worker, Send, Fail, Finish, Becomes, TypeOk
<1>7. \A t \in Emitters : emitting[t] \subseteq Events
  BY DEF TypeOk
<1>8. EmittingTaken' /\ emitting' \in [Emitters -> {{}} \union {{f} : f \in Events}]
  <2>1. ASSUME NEW t \in Emitters, NEW e1 \in Events, Accept(t, e1)
        PROVE  EmittingTaken'
    <3>1. /\ \A u \in Emitters : emitting'[u] = IF u = t THEN {e1} ELSE emitting[u]
          /\ event[e1] = "new"
          /\ \A f \in Events : event'[f] = IF f = e1 THEN "taken" ELSE event[f]
      BY <1>4, <2>1
    <3>2. \A u \in Emitters : e1 \notin emitting[u]
      BY <3>1 DEF EmittingTaken
    <3>3. ASSUME NEW u \in Emitters, NEW f \in emitting'[u]
          PROVE  event'[f] = "taken" /\ \A v \in Emitters : f \in emitting'[v] => v = u
      <4>1. CASE u = t
        BY <3>1, <3>2, <3>3, <4>1
      <4>2. CASE u # t
        <5>1. f \in emitting[u] /\ f # e1 /\ f \in Events
          BY <1>7, <3>1, <3>2, <3>3, <4>2
        <5> QED
          BY <3>1, <5>1 DEF EmittingTaken
      <4> QED
        BY <4>1, <4>2
    <3> QED
      BY <3>3 DEF EmittingTaken
  <2>2. ASSUME NEW t \in Emitters, NEW e1 \in Events, Capture(t, e1)
        PROVE  EmittingTaken'
    BY <1>5, <1>7, <2>2 DEF EmittingTaken
  <2>3. ASSUME NEW e1 \in Events, Worker(e1) PROVE EmittingTaken'
    BY <1>6, <1>7, <2>3 DEF EmittingTaken
  <2>4. emitting' \in [Emitters -> {{}} \union {{f} : f \in Events}]
    BY DEF EventStep, Accept, Capture, Worker, Send, Fail, Finish, TypeOk
  <2> QED
    BY <2>1, <2>2, <2>3, <2>4 DEF EventStep
<1>9. CleanupRetired' /\ CloseLosesNothing'
  <2>1. ASSUME NEW t \in Emitters, NEW e1 \in Events, Accept(t, e1)
        PROVE  CleanupRetired' /\ CloseLosesNothing'
    BY <1>3, <1>4, <2>1 DEF CleanupRetired, CloseLosesNothing
  <2>2. ASSUME NEW t \in Emitters, NEW e1 \in Events, Capture(t, e1)
        PROVE  CleanupRetired' /\ CloseLosesNothing'
    BY <1>3, <1>5, <2>2 DEF CleanupRetired, CloseLosesNothing, NoDelivery
  <2>3. ASSUME NEW e1 \in Events, Worker(e1) PROVE CleanupRetired' /\ CloseLosesNothing'
    BY <1>3, <1>6, <2>3 DEF CleanupRetired, CloseLosesNothing, NoDelivery, Pending, At
  <2> QED
    BY <2>1, <2>2, <2>3 DEF EventStep
<1>10. TypeOk'
  BY <1>2, <1>3, <1>8 DEF TypeOk
<1> QED
  BY <1>2, <1>8, <1>9, <1>10

(****************************************************************************)
(* Steps of the flush job.                                                  *)
(****************************************************************************)
LEMMA JobKeeps == ASSUME DeliveryInv, FlushThread PROVE DeliveryInv'
<1> USE DEF DeliveryInv
<1>1. UNCHANGED <<event, emitting, torn, dropped, published, cleanup, closed>>
  BY DEF FlushThread, JobDrain, JobCheck, JobCount, JobLeave, JobReady, sdk, counters
<1>2. TypeOk'
  <2> DEFINE Jobs == [at : JobSteps, idle : BOOLEAN, ok : BOOLEAN, late : BOOLEAN]
  <2>1. job' \in Jobs
    <3>1. Drained(job.idle) \in BOOLEAN /\ (Pending = {}) \in BOOLEAN
      BY DEF Drained, TypeOk
    <3>2. (JobDrain => job' \in Jobs) /\ (JobLeave => job' \in Jobs)
      BY DEF JobDrain, JobLeave, TypeOk, JobSteps
    <3>5. JobReady => job' \in Jobs
      BY DEF JobReady, NoJob, JobSteps
    <3>3. JobCheck => job' \in Jobs
      BY <3>1 DEF JobCheck, TypeOk, JobSteps
    <3>4. JobCount => job' \in Jobs
      BY <3>1 DEF JobCount, TypeOk, JobSteps
    <3> QED
      BY <3>2, <3>3, <3>4, <3>5 DEF FlushThread
  <2>2. reported' \in 0..dropped
    BY DEF FlushThread, JobDrain, JobCheck, JobCount, JobLeave, JobReady, counters, TypeOk, Drops
  <2>3. call' \in [Flushers -> [at : CallSteps, own : BOOLEAN, listed : BOOLEAN, woken : BOOLEAN,
                     late : BOOLEAN, seen : SUBSET Events, ahead : SUBSET Events, base : Drops]]
    BY DEF FlushThread, JobDrain, JobCheck, JobCount, JobLeave, JobReady, TypeOk, CallSteps
  <2> QED
    BY <1>1, <2>1, <2>2, <2>3 DEF TypeOk
<1>3. DropsCounted' /\ EmittingTaken' /\ CleanupRetired' /\ CloseLosesNothing'
  BY <1>1 DEF DropsCounted, EmittingTaken, CleanupRetired, CloseLosesNothing, Failed, At,
     Pending, NoDelivery
<1>4. JobAlone'
  BY <1>1 DEF FlushThread, JobDrain, JobCheck, JobCount, JobLeave, JobReady, NoJob, TypeOk, JobAlone,
     JobRunning
<1>5. CASE JobReady
  <2>1. \A t \in Flushers :
          call'[t] = IF call[t].at = "await"
                     THEN [call[t] EXCEPT !.at = IF job.ok THEN "retired" ELSE "failed"]
                     ELSE call[t]
    BY <1>5 DEF JobReady
  <2>2. Awaited'
    <3>1. ASSUME NEW t \in Flushers
          PROVE  /\ call'[t].at # "await"
                 /\ call'[t].at = "waiting" => call[t].at = "waiting"
                 /\ call'[t].own = call[t].own /\ call'[t].listed = call[t].listed
                 /\ call'[t].base = call[t].base
      <4>1. call[t] \in [at : CallSteps, own : BOOLEAN, listed : BOOLEAN, woken : BOOLEAN,
                         late : BOOLEAN, seen : SUBSET Events, ahead : SUBSET Events, base : Drops]
        BY DEF TypeOk
      <4>2. CASE call[t].at = "await"
        BY <2>1, <4>1, <4>2
      <4>3. CASE call[t].at # "await"
        BY <2>1, <4>3
      <4> QED
        BY <4>2, <4>3
    <3> QED
      BY <1>1, <3>1 DEF Awaited
  <2>3. ASSUME NEW t \in Flushers, call'[t].own
        PROVE  /\ call'[t].at # "await"
               /\ call'[t].at = "retired" => AllSent(t)'
               /\ call'[t].at = "failed" => Reason(t)'
    <3>1. CASE call[t].at = "await"
      <4>1. OwnJob(t) /\ job.at = "ready"
        BY <1>5, <2>1, <2>3, <3>1 DEF OwnCall, TypeOk, JobReady
      <4>2. call[t] \in [at : CallSteps, own : BOOLEAN, listed : BOOLEAN, woken : BOOLEAN,
                         late : BOOLEAN, seen : SUBSET Events, ahead : SUBSET Events, base : Drops]
        BY DEF TypeOk
      <4>3. /\ call'[t].seen = call[t].seen /\ call'[t].late = call[t].late
            /\ call'[t].ahead = call[t].ahead /\ call'[t].base = call[t].base
            /\ call'[t].at = IF job.ok THEN "retired" ELSE "failed"
        BY <2>1, <3>1, <4>2
      <4> QED
        BY <1>1, <4>1, <4>3 DEF OwnJob, AllSent, Reason, At
    <3>2. CASE call[t].at # "await"
      BY <1>1, <2>1, <2>3, <3>2 DEF OwnCall, AllSent, Reason, At
    <3> QED
      BY <3>1, <3>2
  <2> QED
    BY <1>2, <1>3, <1>4, <2>2, <2>3 DEF OwnCall
<1>6. CASE ~JobReady
  <2>1. call' = call /\ job.at # "none" /\ job'.at # "none"
    BY <1>6 DEF FlushThread, JobDrain, JobCheck, JobCount, JobLeave, TypeOk
  <2>2. Awaited'
    BY <1>1, <2>1 DEF Awaited
  <2>3. ASSUME NEW t \in Flushers, OwnJob(t) PROVE OwnJob(t)'
    <3>1. /\ Lossy(t)' = Lossy(t) /\ AllSent(t)' = AllSent(t) /\ Reason(t)' = Reason(t)
          /\ Overtaken(t)' = Overtaken(t) /\ Pending' = Pending
          /\ At({"new", "taken"})' = At({"new", "taken"})
      BY <1>1, <2>1 DEF Lossy, AllSent, Reason, Overtaken, Pending, At
    <3>2. CASE JobDrain
      <4>1. /\ job.at = "drain" /\ job'.at = "check" /\ job'.late = job.late
            /\ reported' = reported /\ (Pending = {} \/ job.late)
        BY <3>2 DEF JobDrain, TypeOk, counters
      <4> QED
        BY <1>1, <2>1, <2>3, <3>1, <4>1 DEF OwnJob
    <3>3. CASE JobCheck
      <4>1. /\ job.at = "check" /\ job'.at = "count" /\ job'.late = job.late
            /\ job'.idle = (Pending = {}) /\ reported' = reported
        BY <3>3 DEF JobCheck, TypeOk, counters
      <4>2. ASSUME Pending # {}, Pending \subseteq call[t].ahead PROVE Overtaken(t)
        BY <4>2 DEF Overtaken, Pending, At
      <4> QED
        BY <1>1, <2>1, <2>3, <3>1, <4>1, <4>2 DEF OwnJob
    <3>4. CASE JobCount
      <4>1. /\ job.at = "count" /\ job'.at = "leave" /\ job'.late = job.late
            /\ job'.ok = (job.idle /\ dropped = reported)
        BY <3>4 DEF JobCount, TypeOk, Drained
      <4>2. ASSUME job.idle, dropped = reported PROVE AllSent(t)
        <5>1. /\ call[t].seen \intersect Pending = {} /\ ~Lossy(t)
              /\ \A e \in call[t].seen : event[e] \notin {"new", "taken"}
              /\ call[t].seen \subseteq Events
          BY <2>3, <4>1, <4>2 DEF OwnJob, TypeOk, Drops
        <5> QED
          BY <5>1 DEF AllSent, Lossy, Pending, At, TypeOk, Stages
      <4>3. ASSUME ~(job.idle /\ dropped = reported) PROVE Reason(t)
        BY <2>3, <4>1, <4>3 DEF OwnJob, Reason, Overtaken
      <4> QED
        BY <1>1, <2>1, <2>3, <3>1, <4>1, <4>2, <4>3 DEF OwnJob
    <3>5. CASE JobLeave
      <4>1. /\ job.at = "leave" /\ job'.at = "ready" /\ job'.late = job.late /\ job'.ok = job.ok
        BY <3>5 DEF JobLeave, TypeOk
      <4> QED
        BY <1>1, <2>1, <2>3, <3>1, <4>1 DEF OwnJob
    <3> QED
      BY <1>6, <3>2, <3>3, <3>4, <3>5 DEF FlushThread
  <2>4. \A t \in Flushers : AllSent(t)' = AllSent(t) /\ Reason(t)' = Reason(t)
    BY <1>1, <2>1 DEF AllSent, Reason, At
  <2>5. OwnCall'
    BY <2>1, <2>3, <2>4 DEF OwnCall
  <2> QED
    BY <1>2, <1>3, <1>4, <2>2, <2>5
<1> QED
  BY <1>5, <1>6

(****************************************************************************)
(* Steps of the cleanup, and what retires the provider.                     *)
(****************************************************************************)
(* What a call of flush stands on does not move with the cleanup.           *)
LEMMA CallsStand ==
    ASSUME DeliveryInv, NEW t \in Flushers,
           UNCHANGED <<event, dropped, job>>, JobRunning => reported' = reported,
           call'[t] = call[t] \/ call'[t] = [call[t] EXCEPT !.woken = TRUE]
    PROVE  /\ call[t].own => /\ call'[t].at = "await" => OwnJob(t)'
                             /\ call'[t].at = "retired" => AllSent(t)'
                             /\ call'[t].at = "failed" => Reason(t)'
           /\ call'[t].at = call[t].at /\ call'[t].own = call[t].own
           /\ call'[t].listed = call[t].listed /\ call'[t].base = call[t].base
<1>1. /\ call'[t].at = call[t].at /\ call'[t].own = call[t].own
      /\ call'[t].listed = call[t].listed /\ call'[t].base = call[t].base
      /\ call'[t].seen = call[t].seen /\ call'[t].ahead = call[t].ahead
      /\ call'[t].late = call[t].late
  BY DEF DeliveryInv, TypeOk
<1>2. /\ Lossy(t)' = Lossy(t) /\ AllSent(t)' = AllSent(t) /\ Reason(t)' = Reason(t)
      /\ Overtaken(t)' = Overtaken(t) /\ Pending' = Pending
      /\ At({"new", "taken"})' = At({"new", "taken"})
  BY <1>1 DEF Lossy, AllSent, Reason, Overtaken, Pending, At
<1>3. OwnJob(t) => OwnJob(t)'
  BY <1>1, <1>2 DEF OwnJob, JobRunning
<1> QED
  BY <1>1, <1>2, <1>3 DEF DeliveryInv, OwnCall

LEMMA CleanupKeeps ==
    ASSUME DeliveryInv, CleanupThread \/ Retire \/ ShutdownAgain
    PROVE  DeliveryInv'
<1> USE DEF DeliveryInv
<1> DEFINE Cleanups == [at : CloseSteps, idle : BOOLEAN, ok : BOOLEAN]
<1>1. UNCHANGED <<event, emitting, dropped, job>>
  BY DEF CleanupThread, CloseWait, CloseDrain, CloseCheck, CloseCount, CloseRecheck, CloseDestroy,
         CloseRecord, CloseReady, Retire, ShutdownAgain, sdk, counters
<1>2. cleanup' \in Cleanups
  <2>1. /\ Drained(cleanup.idle) \in BOOLEAN /\ (Pending = {}) \in BOOLEAN
        /\ cleanup \in Cleanups
    BY DEF Drained, TypeOk
  <2>2. CloseWait \/ CloseDrain \/ CloseRecheck => cleanup' \in Cleanups
    <3>1. CloseWait => cleanup' \in Cleanups
      BY <2>1 DEF CloseWait, CloseSteps
    <3>2. CloseDrain => cleanup' \in Cleanups
      BY <2>1 DEF CloseDrain, CloseSteps
    <3>3. CloseRecheck => cleanup' \in Cleanups
      BY <2>1 DEF CloseRecheck, CloseSteps
    <3> QED
      BY <3>1, <3>2, <3>3
  <2>3. CloseCheck => cleanup' \in Cleanups
    BY <2>1 DEF CloseCheck, CloseSteps
  <2>4. CloseCount => cleanup' \in Cleanups
    BY <2>1 DEF CloseCount, CloseSteps
  <2>5. CloseDestroy \/ CloseRecord => cleanup' \in Cleanups
    BY <2>1 DEF CloseDestroy, CloseRecord, CloseSteps
  <2>6. CloseReady \/ Retire \/ ShutdownAgain => cleanup' \in Cleanups
    BY DEF CloseReady, Retire, ShutdownAgain, NoCleanup, CloseSteps
  <2> QED
    BY <2>2, <2>3, <2>4, <2>5, <2>6 DEF CleanupThread
<1>3. /\ published' \in BOOLEAN /\ torn' \in BOOLEAN /\ closed' \in BOOLEAN
      /\ reported' \in 0..dropped
  <2>1. closed' = closed \/ closed' = cleanup.ok
    BY DEF CleanupThread, CloseWait, CloseDrain, CloseCheck, CloseCount, CloseRecheck, CloseDestroy,
           CloseRecord, CloseReady, Retire, ShutdownAgain
  <2>2. (published' = published \/ published' = FALSE) /\ (torn' = torn \/ torn' = TRUE)
    BY DEF CleanupThread, CloseWait, CloseDrain, CloseCheck, CloseCount, CloseRecheck, CloseDestroy,
           CloseRecord, CloseReady, Retire, ShutdownAgain, sdk
  <2>3. reported' = reported \/ reported' = dropped
    BY DEF CleanupThread, CloseWait, CloseDrain, CloseCheck, CloseCount, CloseRecheck, CloseDestroy,
           CloseRecord, CloseReady, Retire, ShutdownAgain, counters
  <2>4. dropped \in Nat
    BY EventsCounted DEF TypeOk, Drops
  <2>5. reported' \in 0..dropped
    BY <2>3, <2>4 DEF TypeOk
  <2>6. closed' \in BOOLEAN
    BY <2>1 DEF TypeOk
  <2>7. published' \in BOOLEAN /\ torn' \in BOOLEAN
    BY <2>2 DEF TypeOk
  <2> QED
    BY <2>5, <2>6, <2>7
<1>4. \A t \in Flushers : call'[t] = call[t] \/ call'[t] = [call[t] EXCEPT !.woken = TRUE]
  <2>1. CASE CloseReady
    BY <2>1 DEF CloseReady
  <2>2. CASE CloseWait \/ CloseDrain \/ CloseCheck \/ CloseCount
    BY <2>2 DEF CloseWait, CloseDrain, CloseCheck, CloseCount
  <2>3. CASE CloseRecheck \/ CloseDestroy \/ CloseRecord
    BY <2>3 DEF CloseRecheck, CloseDestroy, CloseRecord
  <2>4. CASE Retire \/ ShutdownAgain
    BY <2>4 DEF Retire, ShutdownAgain
  <2> QED
    BY <2>1, <2>2, <2>3, <2>4 DEF CleanupThread
<1>5. call' \in [Flushers -> [at : CallSteps, own : BOOLEAN, listed : BOOLEAN, woken : BOOLEAN,
                  late : BOOLEAN, seen : SUBSET Events, ahead : SUBSET Events, base : Drops]]
  <2>1. CASE CloseReady
    <3> DEFINE Calls == [at : CallSteps, own : BOOLEAN, listed : BOOLEAN, woken : BOOLEAN,
                         late : BOOLEAN, seen : SUBSET Events, ahead : SUBSET Events,
                         base : Drops]
    <3>1. ASSUME NEW t \in Flushers
          PROVE  call[t] \in Calls /\ [call[t] EXCEPT !.woken = TRUE] \in Calls
      BY DEF TypeOk
    <3> HIDE DEF Calls
    <3>2. call' \in [Flushers -> Calls]
      BY <2>1, <3>1 DEF CloseReady
    <3> QED
      BY <3>2 DEF Calls
  <2>2. CASE ~CloseReady
    <3>1. CASE CloseWait \/ CloseDrain \/ CloseCheck \/ CloseCount
      BY <3>1 DEF CloseWait, CloseDrain, CloseCheck, CloseCount, TypeOk
    <3>2. CASE CloseRecheck \/ CloseDestroy \/ CloseRecord
      BY <3>2 DEF CloseRecheck, CloseDestroy, CloseRecord, TypeOk
    <3>3. CASE Retire \/ ShutdownAgain
      BY <3>3 DEF Retire, ShutdownAgain, TypeOk
    <3> QED
      BY <2>2, <3>1, <3>2, <3>3 DEF CleanupThread
  <2> QED
    BY <2>1, <2>2
<1>6. TypeOk'
  BY <1>1, <1>2, <1>3, <1>5 DEF TypeOk
<1>7. DropsCounted' /\ EmittingTaken'
  BY <1>1 DEF DropsCounted, EmittingTaken, Failed, At
<1>8. Pending' = Pending /\ NoDelivery' = NoDelivery
  BY <1>1 DEF Pending, At, NoDelivery
<1>9. CleanupRetired' /\ CloseLosesNothing' /\ JobAlone'
  <2>1. CASE CloseWait
    BY <1>1, <1>8, <2>1 DEF CloseWait, CleanupRetired, CloseLosesNothing, JobAlone, JobRunning,
       TypeOk, Unleased, sdk
  <2>2. CASE CloseDrain \/ CloseCheck \/ CloseCount
    <3>1. /\ cleanup.at \in {"drain", "check", "count"}
          /\ cleanup'.at \in {"check", "count", "recheck"}
          /\ UNCHANGED <<torn, published>>
      BY <2>2 DEF CloseDrain, CloseCheck, CloseCount, TypeOk, sdk
    <3> QED
      BY <1>1, <1>8, <3>1 DEF CleanupRetired, CloseLosesNothing, JobAlone, JobRunning
  <2>3. CASE CloseRecheck
    BY <1>1, <1>8, <2>3 DEF CloseRecheck, CleanupRetired, CloseLosesNothing, JobAlone, JobRunning,
       TypeOk, MayDestroy, sdk
  <2>4. CASE CloseDestroy \/ CloseRecord
    BY <1>1, <1>8, <2>4 DEF CloseDestroy, CloseRecord, CleanupRetired, CloseLosesNothing,
       JobAlone, JobRunning, TypeOk, sdk
  <2>5. CASE CloseReady
    BY <1>1, <1>8, <2>5 DEF CloseReady, CleanupRetired, CloseLosesNothing, JobAlone, JobRunning,
       TypeOk, NoCleanup, sdk
  <2>6. CASE Retire \/ ShutdownAgain
    BY <1>1, <1>8, <2>6 DEF Retire, ShutdownAgain, CleanupRetired, CloseLosesNothing, JobAlone,
       JobRunning, TypeOk, NoCleanup, sdk
  <2> QED
    BY <2>1, <2>2, <2>3, <2>4, <2>5, <2>6 DEF CleanupThread
<1>10. JobRunning => reported' = reported
  BY DEF CleanupThread, CloseWait, CloseDrain, CloseCheck, CloseCount, CloseRecheck, CloseDestroy,
         CloseRecord, CloseReady, Retire, ShutdownAgain, counters, JobAlone
<1>11. Awaited' /\ OwnCall'
  BY <1>1, <1>4, <1>10, CallsStand DEF Awaited, OwnCall
<1> QED
  BY <1>6, <1>7, <1>9, <1>11

(****************************************************************************)
(* Steps of the calls of flush.                                             *)
(****************************************************************************)
CallStep(t) == \/ CallFlush(t) \/ Expire(t) \/ WaitRetired(t)
               \/ \E ok \in BOOLEAN : Answers(t, ok)

(* A call that another flusher makes, or leaves, does not change the own    *)
(* one's ground: a job begins only where nobody waits for one, and only its *)
(* owner gives it a deadline.                                               *)
LEMMA OthersStand ==
    ASSUME DeliveryInv, NEW t \in Flushers, CallStep(t), NEW u \in Flushers, u # t
    PROVE  /\ call'[u] = call[u]
           /\ call[u].own => /\ call[u].at = "await" => OwnJob(u)'
                             /\ call[u].at = "retired" => AllSent(u)'
                             /\ call[u].at = "failed" => Reason(u)'
<1> USE DEF DeliveryInv
<1>1. call'[u] = call[u] /\ UNCHANGED <<event, dropped, reported>>
  BY DEF CallStep, CallFlush, Expire, WaitRetired, Answers, TypeOk, sdk, counters
<1>2. /\ Lossy(u)' = Lossy(u) /\ AllSent(u)' = AllSent(u) /\ Reason(u)' = Reason(u)
      /\ Overtaken(u)' = Overtaken(u) /\ Pending' = Pending
      /\ At({"new", "taken"})' = At({"new", "taken"})
  BY <1>1 DEF Lossy, AllSent, Reason, Overtaken, Pending, At
<1>3. ASSUME call[u].own, call[u].at = "await" PROVE OwnJob(u)'
  <2>1. job.at # "none" /\ OwnJob(u)
    BY <1>3 DEF Awaited, OwnCall
  <2>2. job' = job
    BY <1>3, <2>1 DEF CallStep, CallFlush, Expire, WaitRetired, Answers, Awaited
  <2> QED
    BY <1>1, <1>2, <2>1, <2>2 DEF OwnJob
<1> QED
  BY <1>1, <1>2, <1>3 DEF OwnCall

(* What the caller's own step leaves it with. *)
LEMMA SelfStands ==
    ASSUME DeliveryInv, NEW t \in Flushers, CallStep(t)
    PROVE  /\ call'[t].own => /\ call'[t].at = "await" => OwnJob(t)'
                              /\ call'[t].at = "retired" => AllSent(t)'
                              /\ call'[t].at = "failed" => Reason(t)'
           /\ call'[t].at = "await" => job'.at # "none"
           /\ call'[t].at = "waiting" => call'[t].listed
           /\ call'[t].own => ~call'[t].listed
           /\ call'[t].base <= dropped'
           /\ call'[t].own /\ call'[t].at = "await" =>
                 (call[t].own /\ call[t].at = "await") \/ job.at = "none"
<1> USE DEF DeliveryInv
<1>1. UNCHANGED <<event, dropped, reported>>
  BY DEF CallStep, CallFlush, Expire, WaitRetired, Answers, sdk, counters
<1>2. reported \in Nat /\ dropped \in Nat /\ reported <= dropped
  BY EventsCounted DEF TypeOk, Drops
<1>3. CASE CallFlush(t)
  <2>1. /\ call'[t].at = IF published THEN "await" ELSE "retired"
        /\ call'[t].own = (published /\ job.at = "none")
        /\ call'[t].listed = ~published
        /\ call'[t].seen = At({"queued", "sending"}) /\ call'[t].ahead = At({"new", "taken"})
        /\ call'[t].base = reported
    BY <1>3 DEF CallFlush, NoCall, TypeOk
  <2>2. job' = IF published /\ job.at = "none" THEN [NoJob EXCEPT !.at = "drain"] ELSE job
    BY <1>3 DEF CallFlush
  <2>3. ASSUME call'[t].own PROVE OwnJob(t)' /\ job'.at = "drain"
    <3>1. job'.at = "drain" /\ job'.late = FALSE
      BY <2>1, <2>2, <2>3 DEF NoJob
    <3>2. /\ ~Lossy(t)' /\ \A e \in call'[t].seen : event[e] \notin {"new", "taken"}
          /\ At({"new", "taken"})' = call'[t].ahead
      BY <1>1, <2>1 DEF Lossy, At
    <3> QED
      BY <1>1, <2>1, <3>1, <3>2 DEF OwnJob
  <2> QED
    BY <1>1, <1>2, <2>1, <2>2, <2>3
<1>4. CASE Expire(t)
  <2>1. /\ call'[t] = [call[t] EXCEPT !.late = TRUE]
        /\ job' = job \/ job' = [job EXCEPT !.late = TRUE]
    BY <1>4 DEF Expire, TypeOk
  <2>2. /\ call'[t].late /\ call'[t].at = call[t].at /\ call'[t].own = call[t].own
        /\ call'[t].listed = call[t].listed /\ call'[t].base = call[t].base
        /\ call'[t].seen = call[t].seen /\ call'[t].ahead = call[t].ahead
        /\ job'.at = job.at /\ job'.idle = job.idle /\ job'.ok = job.ok
    BY <2>1 DEF TypeOk
  <2>3. /\ Lossy(t)' = Lossy(t) /\ AllSent(t)' = AllSent(t) /\ Reason(t)'
        /\ Overtaken(t)' = Overtaken(t) /\ Pending' = Pending
        /\ At({"new", "taken"})' = At({"new", "taken"})
    BY <1>1, <2>2 DEF Lossy, AllSent, Reason, Overtaken, Pending, At
  <2>4. job.late => job'.late
    BY <2>1 DEF TypeOk
  <2>5. OwnJob(t) => OwnJob(t)'
    BY <1>1, <2>2, <2>3, <2>4 DEF OwnJob
  <2> QED
    BY <1>1, <2>2, <2>3, <2>5 DEF OwnCall, Awaited
<1>5. CASE WaitRetired(t)
  <2>1. call'[t].at = "waiting" /\ call[t].listed
    BY <1>5 DEF WaitRetired, TypeOk
  <2>2. /\ call'[t].own = call[t].own /\ call'[t].listed = call[t].listed
        /\ call'[t].base = call[t].base
    BY <1>5 DEF WaitRetired, TypeOk
  <2> QED
    BY <1>1, <2>1, <2>2 DEF Awaited
<1>6. CASE \E ok \in BOOLEAN : Answers(t, ok)
  <2>1. call'[t] = NoCall
    BY <1>6 DEF Answers, TypeOk
  <2> QED
    BY <1>1, <1>2, <2>1 DEF NoCall
<1> QED
  BY <1>3, <1>4, <1>5, <1>6 DEF CallStep

LEMMA CallsKeep == ASSUME DeliveryInv, NEW t \in Flushers, CallStep(t) PROVE DeliveryInv'
<1> USE DEF DeliveryInv
<1>1. UNCHANGED <<event, emitting, torn, dropped, reported, published, cleanup, closed>>
  BY DEF CallStep, CallFlush, Expire, WaitRetired, Answers, sdk, counters
<1>2. job' \in [at : JobSteps, idle : BOOLEAN, ok : BOOLEAN, late : BOOLEAN]
  BY DEF CallStep, CallFlush, Expire, WaitRetired, Answers, TypeOk, NoJob, JobSteps
<1>3. call' \in [Flushers -> [at : CallSteps, own : BOOLEAN, listed : BOOLEAN, woken : BOOLEAN,
                  late : BOOLEAN, seen : SUBSET Events, ahead : SUBSET Events, base : Drops]]
  <2> DEFINE Records == [at : CallSteps, own : BOOLEAN, listed : BOOLEAN, woken : BOOLEAN,
                  late : BOOLEAN, seen : SUBSET Events, ahead : SUBSET Events, base : Drops]
  <2>1. reported \in Drops /\ 0 \in Drops
    BY EventsCounted DEF TypeOk, Drops
  <2>2. NoCall \in Records
    BY <2>1 DEF NoCall, CallSteps
  <2>3. ASSUME CallFlush(t) PROVE call' \in [Flushers -> Records]
    <3>1. At({"queued", "sending"}) \subseteq Events /\ At({"new", "taken"}) \subseteq Events
      BY DEF At
    <3>2. (published /\ job.at = "none") \in BOOLEAN /\ (~published) \in BOOLEAN
      OBVIOUS
    <3> QED
      BY <2>1, <2>2, <2>3, <3>1, <3>2 DEF CallFlush, TypeOk, CallSteps
  <2>7. call[t] \in Records /\ call \in [Flushers -> Records]
    BY DEF TypeOk
  <2>4. ASSUME Expire(t) PROVE call' \in [Flushers -> Records]
    <3>1. call' = [call EXCEPT ![t] = [call[t] EXCEPT !.late = TRUE]]
      BY <2>4, <2>7 DEF Expire
    <3>2. [call[t] EXCEPT !.late = TRUE] \in Records
      BY <2>7
    <3> QED
      BY <2>7, <3>1, <3>2
  <2>5. ASSUME WaitRetired(t) PROVE call' \in [Flushers -> Records]
    <3> DEFINE woken == cleanup.at = "done"
    <3>1. call' = [call EXCEPT ![t] = [call[t] EXCEPT !.at = "waiting", !.woken = woken]]
      BY <2>5, <2>7 DEF WaitRetired
    <3>2. woken \in BOOLEAN
      OBVIOUS
    <3>3. [call[t] EXCEPT !.at = "waiting", !.woken = woken] \in Records
      <4> HIDE DEF woken
      <4> QED
        BY <2>7, <3>2 DEF CallSteps
    <3> QED
      BY <2>7, <3>1, <3>3
  <2>6. (\E ok \in BOOLEAN : Answers(t, ok)) => call' \in [Flushers -> Records]
    BY <2>2 DEF Answers, TypeOk
  <2> QED
    BY <2>3, <2>4, <2>5, <2>6 DEF CallStep
<1>4. TypeOk'
  BY <1>1, <1>2, <1>3 DEF TypeOk
<1>5. DropsCounted' /\ EmittingTaken' /\ CleanupRetired' /\ CloseLosesNothing'
  BY <1>1 DEF DropsCounted, EmittingTaken, CleanupRetired, CloseLosesNothing, Failed, At,
     Pending, NoDelivery
<1>6. /\ job'.at = job.at \/ (published /\ job'.at = "drain")
      /\ job.at # "none" => job'.at # "none"
  BY DEF CallStep, CallFlush, Expire, WaitRetired, Answers, TypeOk, NoJob
<1>7. JobAlone'
  BY <1>1, <1>6 DEF JobAlone, JobRunning, CleanupRetired
<1>8. ASSUME NEW u \in Flushers
      PROVE  /\ call'[u].own => /\ call'[u].at = "await" => OwnJob(u)'
                                /\ call'[u].at = "retired" => AllSent(u)'
                                /\ call'[u].at = "failed" => Reason(u)'
             /\ call'[u].at = "await" => job'.at # "none"
             /\ call'[u].at = "waiting" => call'[u].listed
             /\ call'[u].own => ~call'[u].listed
             /\ call'[u].base <= dropped'
  BY <1>1, <1>6, SelfStands, OthersStand DEF Awaited
<1>9. ASSUME NEW u \in Flushers, NEW v \in Flushers, call'[u].own, call'[u].at = "await",
             call'[v].own, call'[v].at = "await"
      PROVE  u = v
  BY <1>9, SelfStands, OthersStand DEF Awaited
<1> QED
  BY <1>4, <1>5, <1>7, <1>8, <1>9 DEF Awaited, OwnCall

(****************************************************************************)
(* Theorems.                                                                *)
(****************************************************************************)
LEMMA DeliveryNext == ASSUME DeliveryInv, [Next]_vars PROVE DeliveryInv'
<1>1. CASE EventStep
  BY <1>1, EventsKeep
<1>2. CASE FlushThread
  BY <1>2, JobKeeps
<1>3. CASE CleanupThread \/ Retire \/ ShutdownAgain
  BY <1>3, CleanupKeeps
<1>4. CASE \E t \in Flushers : CallStep(t)
  BY <1>4, CallsKeep
<1>5. CASE UNCHANGED vars
  BY <1>5 DEF vars, DeliveryInv, TypeOk, DropsCounted, EmittingTaken, CleanupRetired,
     CloseLosesNothing, JobAlone, JobRunning, Awaited, OwnCall, OwnJob, Failed, Pending, NoDelivery,
     Lossy, AllSent, Overtaken, Reason, At
<1> QED
  BY <1>1, <1>2, <1>3, <1>4, <1>5 DEF Next, EventStep, CallStep

THEOREM DeliveryInvariance == Spec => []DeliveryInv
BY DeliveryInit, DeliveryNext, PTL DEF Spec

(* The variables of a provider, its jobs and its callers keep their types,  *)
(* and no more drops are counted than events fail (_record_drop).           *)
THEOREM DeliveryTypes == Spec => []TypeOk
<1>1. DeliveryInv => TypeOk
  BY DEF DeliveryInv
<1> QED
  BY <1>1, DeliveryInvariance, PTL

(* close never destroys the client beneath a queued event or a delivery     *)
(* (SentryProvider.close, _start_cleanup).                                  *)
THEOREM CloseSafe == Spec => []CloseLosesNothing
<1>1. DeliveryInv => CloseLosesNothing
  BY DEF DeliveryInv
<1> QED
  BY <1>1, DeliveryInvariance, PTL

(* A flush that drains by itself and returns True has sent what was queued  *)
(* when it was called (SentryProvider._flush, Runtime.flush).               *)
THEOREM OwnTrueSound == Spec => OwnTrueMeansSent
<1>1. ASSUME DeliveryInv, NEW t \in Flushers, Answers(t, TRUE), call[t].own
      PROVE  call[t].seen \subseteq At({"sent"})
  BY <1>1 DEF DeliveryInv, Answers, Awaited, OwnCall, AllSent
<1>2. DeliveryInv /\ [Next]_vars =>
        [\A t \in Flushers :
            Answers(t, TRUE) /\ call[t].own => call[t].seen \subseteq At({"sent"})]_vars
  BY <1>1
<1> QED
  BY <1>2, DeliveryInvariance, PTL DEF Spec, OwnTrueMeansSent

(* One that returns False had a reason: its deadline, a loss, or events     *)
(* that came after the call.                                                *)
THEOREM OwnFalseSound == Spec => OwnFalseHasReason
<1>1. ASSUME DeliveryInv, NEW t \in Flushers, Answers(t, FALSE), call[t].own
      PROVE  Reason(t)
  BY <1>1 DEF DeliveryInv, Answers, Awaited, OwnCall, Reason
<1>2. DeliveryInv /\ [Next]_vars =>
        [\A t \in Flushers : Answers(t, FALSE) /\ call[t].own => Reason(t)]_vars
  BY <1>1
<1> QED
  BY <1>2, DeliveryInvariance, PTL DEF Spec, OwnFalseHasReason

(****************************************************************************)
(* Delivery is the life of one provider of Lifecycle.                       *)
(****************************************************************************)
(* Only a recorded result closes, and a closed provider has no cleanup left.*)
ClosedAfter == closed => cleanup.at \in {"ready", "done"}

AbstractStatus == [r \in {"sentry"} |-> Status]
AbstractLease  == [r \in {"sentry"} |-> Lease]

LEMMA ClosedNext == ASSUME DeliveryInv, ClosedAfter, [Next]_vars PROVE ClosedAfter'
<1>1. CASE EventStep \/ FlushThread \/ \E t \in Flushers : CallStep(t)
  <2>1. UNCHANGED <<closed, cleanup>>
    BY <1>1 DEF EventStep, Accept, Capture, Worker, Send, Fail, Finish, FlushThread, JobDrain,
                JobCheck, JobCount, JobLeave, JobReady, CallStep, CallFlush, Expire, WaitRetired,
                Answers
  <2> QED
    BY <2>1 DEF ClosedAfter
<1>2. CASE CleanupThread
  BY <1>2 DEF CleanupThread, CloseWait, CloseDrain, CloseCheck, CloseCount, CloseRecheck,
              CloseDestroy, CloseRecord, CloseReady, NoCleanup, ClosedAfter, DeliveryInv, TypeOk
<1>3. CASE Retire \/ ShutdownAgain
  BY <1>3 DEF Retire, ShutdownAgain, ClosedAfter, DeliveryInv, CleanupRetired
<1>4. CASE UNCHANGED vars
  BY <1>4 DEF vars, ClosedAfter
<1> QED
  BY <1>1, <1>2, <1>3, <1>4 DEF Next, EventStep, CallStep

(* Who delivers an event has it: emitting and the lease say the same.       *)
LEMMA LivesEvents ==
    ASSUME DeliveryInv, EventStep
    PROVE  L!Next \/ UNCHANGED <<AbstractStatus, AbstractLease>>
<1>1. UNCHANGED <<published, job, cleanup, closed>>
  BY DEF EventStep, Accept, Capture, Worker, Send, Fail, Finish
<1>2. AbstractStatus' = AbstractStatus
  BY <1>1 DEF AbstractStatus, Status, Closing
<1>3. ASSUME NEW t \in Emitters, NEW e \in Events, Accept(t, e)
      PROVE  L!Acquire(t, {"sentry"})
  <2>1. published /\ emitting' = [emitting EXCEPT ![t] = {e}]
    BY <1>3 DEF Accept
  <2>2. Lease' = Lease \union {t}
    BY <1>1, <2>1 DEF Lease, JobRunning, DeliveryInv, TypeOk
  <2>3. {"sentry"} \subseteq L!In({"active"})
    BY <2>1 DEF L!In, Status
  <2> QED
    BY <1>2, <2>2, <2>3 DEF L!Acquire, AbstractStatus
<1>4. ASSUME NEW t \in Emitters, NEW e \in Events, Capture(t, e)
      PROVE  L!Drop(t, {"sentry"})
  <2>1. emitting' = [emitting EXCEPT ![t] = {}]
    BY <1>4 DEF Capture
  <2>2. Lease' = Lease \ {t}
    BY <1>1, <2>1, DeliveryAssumption DEF Lease, JobRunning, DeliveryInv, TypeOk
  <2> QED
    BY <1>2, <2>2 DEF L!Drop, AbstractStatus
<1>5. ASSUME NEW e \in Events, Worker(e) PROVE AbstractLease' = AbstractLease
  BY <1>1, <1>5 DEF Worker, Send, Fail, Finish, AbstractLease, Lease, JobRunning
<1> QED
  BY <1>2, <1>3, <1>4, <1>5 DEF EventStep, L!Next

LEMMA LivesFlush ==
    ASSUME DeliveryInv, FlushThread \/ \E t \in Flushers : CallStep(t)
    PROVE  L!Next \/ UNCHANGED <<AbstractStatus, AbstractLease>>
<1>1. UNCHANGED <<emitting, published, cleanup, closed>>
  BY DEF FlushThread, JobDrain, JobCheck, JobCount, JobLeave, JobReady, CallStep, CallFlush,
         Expire, WaitRetired, Answers, sdk
<1>2. AbstractStatus' = AbstractStatus
  BY <1>1 DEF AbstractStatus, Status, Closing
<1>3. JobRunning' = JobRunning => AbstractLease' = AbstractLease
  BY <1>1 DEF AbstractLease, Lease
<1>4. ASSUME JobLeave PROVE L!Drop(FlushJob, {"sentry"})
  <2>1. Lease' = Lease \ {FlushJob}
    BY <1>1, <1>4, DeliveryAssumption DEF JobLeave, Lease, JobRunning, DeliveryInv, TypeOk
  <2> QED
    BY <1>2, <2>1 DEF L!Drop, AbstractStatus
<1>5. ASSUME NEW t \in Flushers, CallFlush(t), published, job.at = "none"
      PROVE  L!Acquire(FlushJob, {"sentry"})
  <2>1. Lease' = Lease \union {FlushJob}
    BY <1>1, <1>5 DEF CallFlush, Lease, JobRunning, NoJob
  <2>2. {"sentry"} \subseteq L!In({"active"})
    BY <1>5 DEF L!In, Status
  <2> QED
    BY <1>2, <2>1, <2>2 DEF L!Acquire, AbstractStatus
<1>6. ASSUME NEW t \in Flushers, CallStep(t), ~(CallFlush(t) /\ published /\ job.at = "none")
      PROVE  JobRunning' = JobRunning
  BY <1>6 DEF CallStep, CallFlush, Expire, WaitRetired, Answers, JobRunning, DeliveryInv, TypeOk
<1>7. ASSUME JobDrain \/ JobCheck \/ JobCount \/ JobReady PROVE JobRunning' = JobRunning
  <2>1. CASE JobDrain \/ JobCheck
    <3>1. job.at \in {"drain", "check"} /\ job'.at \in {"check", "count"}
      BY <2>1 DEF JobDrain, JobCheck, DeliveryInv, TypeOk
    <3> QED
      BY <3>1 DEF JobRunning
  <2>2. CASE JobCount
    <3>1. job.at = "count" /\ job'.at = "leave"
      BY <2>2 DEF JobCount, DeliveryInv, TypeOk
    <3> QED
      BY <3>1 DEF JobRunning
  <2>3. CASE JobReady
    BY <2>3 DEF JobReady, JobRunning, NoJob
  <2> QED
    BY <1>7, <2>1, <2>2, <2>3
<1> QED
  BY <1>2, <1>3, <1>4, <1>5, <1>6, <1>7 DEF FlushThread, CallStep, L!Next

(* The wait for leases ends in the state in which a close may begin.        *)
LEMMA LivesCleanup ==
    ASSUME DeliveryInv, ClosedAfter, CleanupThread
    PROVE  L!Next \/ UNCHANGED <<AbstractStatus, AbstractLease>>
<1>1. /\ UNCHANGED <<emitting, published, job>>
      /\ ~published /\ AbstractLease' = AbstractLease
  <2>1. UNCHANGED <<emitting, published, job>> /\ cleanup.at # "none"
    BY DEF CleanupThread, CloseWait, CloseDrain, CloseCheck, CloseCount, CloseRecheck,
           CloseDestroy, CloseRecord, CloseReady, sdk
  <2> QED
    BY <2>1 DEF AbstractLease, Lease, JobRunning, DeliveryInv, CleanupRetired
<1>2. CASE CloseWait
  <2>1. AbstractStatus["sentry"] = "retired" /\ AbstractStatus' = [r \in {"sentry"} |-> "closing"]
    BY <1>1, <1>2 DEF CloseWait, AbstractStatus, Status, Closing, ClosedAfter, DeliveryInv, TypeOk
  <2>2. AbstractLease["sentry"] = {}
    BY <1>2 DEF CloseWait, Unleased, NoDelivery, JobRunning, AbstractLease, Lease
  <2>3. L!BeginClose("sentry")
    BY <1>1, <2>1, <2>2 DEF L!BeginClose, AbstractStatus, AbstractLease
  <2> QED
    BY <2>3 DEF L!Next
<1>3. CASE CloseRecord
  <2>1. /\ AbstractStatus["sentry"] = "closing"
        /\ \/ AbstractStatus' = [r \in {"sentry"} |-> "closed"]
           \/ AbstractStatus' = [r \in {"sentry"} |-> "retired"]
    BY <1>1, <1>3 DEF CloseRecord, AbstractStatus, Status, Closing, ClosedAfter, DeliveryInv, TypeOk
  <2>2. L!EndClose("sentry")
    BY <1>1, <2>1 DEF L!EndClose, AbstractStatus, AbstractLease
  <2> QED
    BY <2>2 DEF L!Next
<1>4. CASE CloseDrain \/ CloseCheck \/ CloseCount \/ CloseRecheck \/ CloseDestroy \/ CloseReady
  <2>1. closed' = closed
    BY <1>4 DEF CloseDrain, CloseCheck, CloseCount, CloseRecheck, CloseDestroy, CloseReady
  <2>2. ASSUME CloseReady PROVE Closing' = Closing
    BY <2>2 DEF CloseReady, NoCleanup, Closing
  <2>3. ASSUME ~CloseReady PROVE Closing' = Closing
    <3>1. /\ cleanup.at \in {"drain", "check", "count", "recheck", "destroy"}
          /\ cleanup'.at \in {"check", "count", "recheck", "destroy", "record"}
      <4>1. cleanup \in [at : CloseSteps, idle : BOOLEAN, ok : BOOLEAN]
        BY DEF DeliveryInv, TypeOk
      <4> QED
        BY <1>4, <2>3, <4>1 DEF CloseDrain, CloseCheck, CloseCount, CloseRecheck, CloseDestroy
    <3> QED
      BY <3>1 DEF Closing
  <2>4. Closing' = Closing
    BY <2>2, <2>3
  <2> QED
    BY <1>1, <2>1, <2>4 DEF AbstractStatus, Status
<1> QED
  BY <1>2, <1>3, <1>4 DEF CleanupThread

LEMMA LivesRetired ==
    ASSUME DeliveryInv, ClosedAfter, Retire \/ ShutdownAgain
    PROVE  L!Next \/ UNCHANGED <<AbstractStatus, AbstractLease>>
<1>1. AbstractLease' = AbstractLease
  BY DEF Retire, ShutdownAgain, sdk, AbstractLease, Lease, JobRunning
<1>2. CASE Retire
  <2>1. AbstractStatus["sentry"] = "active" /\ AbstractStatus' = [r \in {"sentry"} |-> "retired"]
    BY <1>2 DEF Retire, AbstractStatus, Status, Closing, ClosedAfter, DeliveryInv, TypeOk,
                CleanupRetired
  <2>2. L!Switch({})
    BY <1>1, <2>1 DEF L!Switch, AbstractStatus, AbstractLease
  <2> QED
    BY <2>2 DEF L!Next
<1>3. CASE ShutdownAgain
  <2>1. AbstractStatus' = AbstractStatus
    BY <1>3 DEF ShutdownAgain, AbstractStatus, Status, Closing, DeliveryInv, TypeOk, CleanupRetired
  <2> QED
    BY <1>1, <2>1
<1> QED
  BY <1>2, <1>3

LEMMA LivesNext ==
    ASSUME DeliveryInv, ClosedAfter, [Next]_vars
    PROVE  [L!Next]_(L!vars)
<1>1. CASE UNCHANGED vars
  <2>1. AbstractStatus' = AbstractStatus /\ AbstractLease' = AbstractLease
    BY <1>1 DEF vars, AbstractStatus, AbstractLease, Status, Closing, Lease, JobRunning
  <2> QED
    BY <2>1 DEF L!vars, AbstractStatus, AbstractLease
<1>2. ASSUME L!Next \/ UNCHANGED <<AbstractStatus, AbstractLease>> PROVE [L!Next]_(L!vars)
  BY <1>2 DEF L!vars, AbstractStatus, AbstractLease
<1> QED
  BY <1>1, <1>2, LivesEvents, LivesFlush, LivesCleanup, LivesRetired DEF Next, EventStep, CallStep

(* The queue, the flush job and the close of SentryProvider live as the     *)
(* runtime promises for a provider: what Runtime proves without looking     *)
(* into a provider holds of the detailed one.                               *)
THEOREM DeliveryLives == Spec => LivesAsPromised
<1>1. Init => ClosedAfter
  BY DEF Init, ClosedAfter
<1>2. DeliveryInv /\ ClosedAfter /\ [Next]_vars => ClosedAfter'
  BY ClosedNext
<1>3. DeliveryInv /\ ClosedAfter /\ [Next]_vars => [L!Next]_(L!vars)
  BY LivesNext
<1> QED
  BY <1>1, <1>2, <1>3, DeliveryInvariance, PTL DEF Spec, LivesAsPromised

(* The flush and the close of a provider never run at the same time, though *)
(* the model has no _lifecycle_lock: the lease of the flush job and the     *)
(* wait for leases keep them apart already (_flush_job, _start_cleanup).    *)
THEOREM FlushCloseApart == Spec => []JobAlone
<1>1. DeliveryInv => JobAlone
  BY DEF DeliveryInv
<1> QED
  BY <1>1, DeliveryInvariance, PTL

(* Only a closed client makes a close succeed.                              *)
ClosedTorn == /\ closed => torn
              /\ cleanup.at = "record" /\ cleanup.ok => torn

LEMMA TornNext == ASSUME DeliveryInv, ClosedTorn, [Next]_vars PROVE ClosedTorn'
<1>1. CASE EventStep \/ FlushThread \/ \E t \in Flushers : CallStep(t)
  <2>1. UNCHANGED <<closed, cleanup, torn>>
    BY <1>1 DEF EventStep, Accept, Capture, Worker, Send, Fail, Finish, FlushThread, JobDrain,
                JobCheck, JobCount, JobLeave, JobReady, CallStep, CallFlush, Expire, WaitRetired,
                Answers, sdk
  <2> QED
    BY <2>1 DEF ClosedTorn
<1>2. CASE CleanupThread
  <2> USE DEF ClosedTorn, sdk
  <2>1. cleanup \in [at : CloseSteps, idle : BOOLEAN, ok : BOOLEAN]
    BY DEF DeliveryInv, TypeOk
  <2>2. CASE CloseWait
    BY <2>1, <2>2 DEF CloseWait
  <2>3. CASE CloseDrain \/ CloseCheck \/ CloseCount
    <3>1. cleanup'.at # "record" /\ closed' = closed /\ torn' = torn
      BY <2>1, <2>3 DEF CloseDrain, CloseCheck, CloseCount
    <3> QED
      BY <3>1
  <2>4. CASE CloseRecheck
    BY <2>1, <2>4 DEF CloseRecheck
  <2>5. CASE CloseDestroy
    BY <2>5 DEF CloseDestroy
  <2>6. CASE CloseRecord
    BY <2>1, <2>6 DEF CloseRecord
  <2>7. CASE CloseReady
    BY <2>7 DEF CloseReady, NoCleanup
  <2> QED
    BY <1>2, <2>2, <2>3, <2>4, <2>5, <2>6, <2>7 DEF CleanupThread
<1>3. CASE Retire \/ ShutdownAgain
  BY <1>3 DEF Retire, ShutdownAgain, NoCleanup, ClosedTorn, sdk
<1>4. CASE UNCHANGED vars
  BY <1>4 DEF vars, ClosedTorn
<1> QED
  BY <1>1, <1>2, <1>3, <1>4 DEF Next, EventStep, CallStep

(* A call that waits for a job another call began. *)
Joined(t) == ~call[t].own /\ ~call[t].listed

(* True means drained for every flush that has not joined another one's     *)
(* unfinished job: with a job of its own, and for a provider that a         *)
(* transition replaced, whose close emptied the queue (Runtime.flush,       *)
(* _wait_retired, SentryProvider.close).  Joining is all that misleads.     *)
THEOREM TrueUnlessJoined == Spec =>
    [][\A t \in Flushers :
          Answers(t, TRUE) /\ ~Joined(t) => call[t].seen \intersect Pending = {}]_vars
<1>1. Init => ClosedTorn
  BY DEF Init, ClosedTorn, NoCleanup
<1>2. DeliveryInv /\ ClosedTorn /\ [Next]_vars => ClosedTorn'
  BY TornNext
<1>3. ASSUME DeliveryInv, ClosedTorn, NEW t \in Flushers, Answers(t, TRUE), ~Joined(t)
      PROVE  call[t].seen \intersect Pending = {}
  <2>1. CASE call[t].own
    <3>1. AllSent(t)
      BY <1>3, <2>1 DEF DeliveryInv, Answers, Awaited, OwnCall
    <3> QED
      BY <3>1 DEF AllSent, At, Pending
  <2>2. CASE call[t].listed
    <3>1. closed
      BY <1>3, <2>2 DEF Answers
    <3> QED
      BY <1>3, <3>1 DEF ClosedTorn, DeliveryInv, CloseLosesNothing
  <2> QED
    BY <1>3, <2>1, <2>2 DEF Joined
<1>4. DeliveryInv /\ ClosedTorn =>
        [\A t \in Flushers :
            Answers(t, TRUE) /\ ~Joined(t) => call[t].seen \intersect Pending = {}]_vars
  BY <1>3
<1> QED
  BY <1>1, <1>2, <1>4, DeliveryInvariance, PTL DEF Spec
==============================================================================
