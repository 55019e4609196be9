------------------------------- MODULE Runtime -------------------------------
(****************************************************************************)
(* The composition root, core/service/runtime.py: one Runtime object shared *)
(* by every thread of the process.  Threads log, configure, change package  *)
(* rules, flush and shut down; daemon threads flush a provider or clean up  *)
(* a retired one.                                                           *)
(*                                                                          *)
(* Locks.  `_transition` serialises configure, package rules, the first use *)
(* and the body of shutdown, and is held across several steps: it is the    *)
(* variable lock.  `_state` is held only for short blocks that never wait:  *)
(* each `with self._state` block is one atomic action.                      *)
(*                                                                          *)
(* Left to other modules: levels and root handlers (Ownership), thresholds, *)
(* what a provider's queue holds.  `_retired` is a set here: its order only *)
(* decides which unclosed provider a waiter meets first.                    *)
(****************************************************************************)
EXTENDS Naturals, FiniteSets

CONSTANTS Threads,    \* application threads
          Resources,  \* _Resource instances the process can build
          SlotOf,     \* which provider each of them is: console or sentry
          Keys,       \* construction settings of a provider
          NoKey,      \* the settings that leave a provider out
          None,       \* an empty slot of a snapshot
          Free,       \* the owner of a free lock
          FlushJob,   \* the holder that stands for a provider's flush thread
          Does,       \* Does[t]: the kinds of calls the program makes from t
          Goals       \* the settings a configure may ask for

Slots == {"console", "sentry"}

Settings == [Slots -> Keys \union {NoKey}]
Calls    == {"record", "host", "configure", "rule", "flush", "shutdown",
             "nested", "interrupt"}

ASSUME SlotAssumption == SlotOf \in [Resources -> Slots]
ASSUME NamesAssumption == /\ None \notin Resources
                          /\ NoKey \notin Keys
                          /\ Free \notin Threads
                          /\ FlushJob \notin Threads
ASSUME ThreadsAssumption == IsFiniteSet(Threads)
ASSUME CallsAssumption == Does \in [Threads -> SUBSET Calls] /\ Goals \subseteq Settings

VARIABLES
    lock,       \* owner of _transition
    published,  \* _snapshot is not None
    snapshot,   \* the resource in each slot of _snapshot
    stopped,    \* _stopped
    settings,   \* resolved environment and overrides; kept while stopped
    key,        \* key[r]: what r was built with, NoKey before it exists
    users,      \* users[r]: leases on r
    retired,    \* _retired
    closed,     \* resources whose close has returned True
    cleanup,    \* cleanup[r]: where r's cleanup thread is
    flushing,   \* flushing[r]: where r's flush thread is
    drained,    \* drained[r]: the result of r's flush job
    pc, cont,   \* where thread t is, and where its lifecycle call returns
    held,       \* resources t leased for the record it is delivering
    plan,       \* the transition t is making
    call        \* the flush or shutdown t is in

global == <<lock, published, snapshot, stopped, settings>>
jobs   == <<cleanup, closed, flushing, drained>>
thread == <<pc, cont, held, plan, call>>
vars   == <<lock, published, snapshot, stopped, settings, key, users, retired,
            closed, cleanup, flushing, drained, pc, cont, held, plan, call>>

Choices  == [Slots -> Resources \union {None}]
Nothing  == [s \in Slots |-> None]
AllOf(c) == {c[s] : s \in Slots} \ {None}
Live     == AllOf(snapshot)

NoPlan == [goal |-> [s \in Slots |-> NoKey], draft |-> Nothing, olds |-> Nothing]
NoCall == [await |-> {}, bad |-> FALSE, todo |-> {}, target |-> None,
           woken |-> FALSE, expired |-> FALSE, scope |-> {}]

CleanupStates == {"none", "check", "asleep", "closing", "recorded", "done"}
FlushStates   == {"none", "run", "released"}
Wanting       == {"wantInit", "wantRule", "wantConfigure", "wantStop"}
Publishing    == {"publish", "republish"}
Waiting       == {"awaitFlush", "waitRetired", "waitJob"}
Locations     == {"idle", "dispatch", "deliver", "stop"}
                     \union Wanting \union Publishing \union Waiting

(* A flush or shutdown in progress: flush jobs it waits for and whether one *)
(* has failed; retired resources still to look at and the one whose cleanup *)
(* it waits for; its deadline; and, to state what True means, the resources *)
(* that were retired when it looked.                                        *)
CallRecords == [await : SUBSET Resources, bad : BOOLEAN, todo : SUBSET Resources,
                target : Resources \union {None}, woken : BOOLEAN, expired : BOOLEAN,
                scope : SUBSET Resources]

TypeOk ==
    /\ lock \in Threads \union {Free}
    /\ published \in BOOLEAN /\ stopped \in BOOLEAN
    /\ snapshot \in Choices
    /\ settings \in Settings
    /\ key \in [Resources -> Keys \union {NoKey}]
    /\ users \in [Resources -> Nat]
    /\ retired \subseteq Resources /\ closed \subseteq Resources
    /\ cleanup \in [Resources -> CleanupStates]
    /\ flushing \in [Resources -> FlushStates]
    /\ drained \in [Resources -> BOOLEAN]
    /\ pc \in [Threads -> Locations]
    /\ cont \in [Threads -> {"idle", "dispatch", "deliver"}]
    /\ held \in [Threads -> SUBSET Resources]
    /\ plan \in [Threads -> [goal : Settings, draft : Choices, olds : Choices]]
    /\ call \in [Threads -> CallRecords]

(* Before the first use: nothing is published and no provider exists. The   *)
(* settings are whatever the environment will yield.                        *)
Init ==
    /\ lock = Free /\ published = FALSE /\ stopped = FALSE
    /\ snapshot = Nothing
    /\ settings \in Goals
    /\ key = [r \in Resources |-> NoKey]
    /\ users = [r \in Resources |-> 0]
    /\ retired = {} /\ closed = {}
    /\ cleanup = [r \in Resources |-> "none"]
    /\ flushing = [r \in Resources |-> "none"]
    /\ drained = [r \in Resources |-> FALSE]
    /\ pc = [t \in Threads |-> "idle"]
    /\ cont = [t \in Threads |-> "idle"]
    /\ held = [t \in Threads |-> {}]
    /\ plan = [t \in Threads |-> NoPlan]
    /\ call = [t \in Threads |-> NoCall]

Goto(t, there) == pc' = [pc EXCEPT ![t] = there]

InCall(t, record) == call' = [call EXCEPT ![t] = record]

(* t goes on where its call was made from. *)
Resume(t, there) == Goto(t, there) /\ cont' = [cont EXCEPT ![t] = "idle"]

(****************************************************************************)
(* Resources: leases, retirement, cleanup.                                  *)
(****************************************************************************)
Leased(S)   == [r \in Resources |-> IF r \in S THEN users[r] + 1 ELSE users[r]]
Released(S) == [r \in Resources |-> IF r \in S THEN users[r] - 1 ELSE users[r]]

(* _release notifies the condition: every sleeping cleanup looks again. *)
NotNotified == cleanup
Notified == [r \in Resources |-> IF cleanup[r] = "asleep" THEN "check" ELSE cleanup[r]]

(* _start_cleanup does nothing for a closed resource or a running job. *)
StartBeside(r) == r \notin closed
CanStart(r) == r \notin closed /\ cleanup[r] \in {"none", "done"}
Started(S) == [r \in Resources |->
                 IF r \in S /\ CanStart(r) THEN "check" ELSE cleanup[r]]

AlmostIdle(r) == users[r] <= 1
Idle(r) == users[r] = 0

(* _start_cleanup.cleanup: wait_for is woken by every release and tests its *)
(* predicate under the lock; the provider is closed outside of it.          *)
CleanupCheck(r) ==
    /\ cleanup[r] = "check"
    /\ cleanup' = [cleanup EXCEPT ![r] = IF Idle(r) THEN "closing" ELSE "asleep"]
    /\ UNCHANGED <<global, key, users, retired, closed, flushing, drained, thread>>

(* provider.close returns True, or returns False or raises. *)
CloseReturns(r, ok) ==
    /\ cleanup[r] = "closing"
    /\ cleanup' = [cleanup EXCEPT ![r] = "recorded"]
    /\ closed' = IF ok THEN closed \union {r} ELSE closed
    /\ UNCHANGED <<global, key, users, retired, flushing, drained, thread>>

(* job.done.set() wakes whoever waits for this job. *)
CleanupDone(r) ==
    /\ cleanup[r] = "recorded"
    /\ cleanup' = [cleanup EXCEPT ![r] = "done"]
    /\ call' = [t \in Threads |->
                  IF pc[t] = "waitJob" /\ call[t].target = r
                  THEN [call[t] EXCEPT !.woken = TRUE] ELSE call[t]]
    /\ UNCHANGED <<global, key, users, retired, closed, flushing, drained,
                   pc, cont, held, plan>>

CleanupThread(r) == \/ CleanupCheck(r)
                    \/ \E ok \in BOOLEAN : CloseReturns(r, ok)
                    \/ CleanupDone(r)

(****************************************************************************)
(* The flush thread of a resource, _flush_job.drain.                        *)
(****************************************************************************)
(* provider.flush returns, or raises (a False result), and the lease of the *)
(* job is released; the job is done only afterwards.                        *)
FlushReturns(r, ok) ==
    /\ flushing[r] = "run"
    /\ flushing' = [flushing EXCEPT ![r] = "released"]
    /\ drained' = [drained EXCEPT ![r] = ok]
    /\ users' = Released({r})
    /\ cleanup' = Notified
    /\ UNCHANGED <<global, key, retired, closed, thread>>

FlushDone(r) ==
    /\ flushing[r] = "released"
    /\ flushing' = [flushing EXCEPT ![r] = "none"]
    /\ drained' = [drained EXCEPT ![r] = FALSE]
    /\ call' = [t \in Threads |->
                  IF r \in call[t].await
                  THEN [call[t] EXCEPT !.await = @ \ {r}, !.bad = @ \/ ~drained[r]]
                  ELSE call[t]]
    /\ UNCHANGED <<global, key, users, retired, closed, cleanup,
                   pc, cont, held, plan>>

FlushThread(r) == (\E ok \in BOOLEAN : FlushReturns(r, ok)) \/ FlushDone(r)

(****************************************************************************)
(* Records: the facade's first use, and DispatchHandler.emit.               *)
(****************************************************************************)
(* ensure has nothing to do, or nothing it may do. *)
PublishedOnly == published
Initialized == published \/ stopped

(* A facade call: ensure's test without the transition lock.  A stopped     *)
(* runtime is not started again.  From "dispatch" on the record may still   *)
(* be dropped, by enabled, by the host's levels or by emit: all of them     *)
(* read the snapshot, or the levels, afresh.                                *)
FacadeCall(t) ==
    /\ "record" \in Does[t]
    /\ pc[t] = "idle"
    /\ IF Initialized
       THEN Goto(t, "dispatch") /\ UNCHANGED cont
       ELSE Goto(t, "wantInit") /\ cont' = [cont EXCEPT ![t] = "dispatch"]
    /\ UNCHANGED <<global, key, users, retired, jobs, held, plan, call>>

(* A record of the host's own logging reaches the root handler. *)
HostRecord(t) ==
    /\ "host" \in Does[t]
    /\ pc[t] = "idle"
    /\ Goto(t, "dispatch")
    /\ UNCHANGED <<global, key, users, retired, jobs, cont, held, plan, call>>

(* emit leases what accepts the record: the console, and the Sentry client  *)
(* when the severity reaches its level and the logger is not the SDK's own. *)
(* No snapshot, a record below the threshold or no taker: it is dropped.    *)
Lease(t) ==
    /\ pc[t] = "dispatch"
    /\ \E taken \in {Live, Live \ {snapshot["sentry"]}, {}} :
         /\ users' = Leased(taken)
         /\ held' = [held EXCEPT ![t] = taken]
         /\ Goto(t, IF taken = {} THEN "idle" ELSE "deliver")
    /\ UNCHANGED <<global, key, retired, jobs, cont, plan, call>>

(* However the event's construction and the providers' emits end (return,   *)
(* Exception, BaseException), the finally block drops every lease.          *)
Release(t) ==
    /\ pc[t] = "deliver"
    /\ users' = Released(held[t])
    /\ held' = [held EXCEPT ![t] = {}]
    /\ cleanup' = Notified
    /\ Goto(t, "idle")
    /\ UNCHANGED <<global, key, retired, closed, flushing, drained, cont, plan, call>>

(****************************************************************************)
(* Transitions.  What a transition reads changes only under _transition, so *)
(* taking the lock and the part up to the construction of the providers are *)
(* one step, with the lock held until the new snapshot is published.        *)
(*                                                                          *)
(* Code that runs inside a delivery (a repr, a stream, the SDK) may call    *)
(* the public API too, on the same thread: its call returns to "deliver".   *)
(****************************************************************************)
Calling(t, kind) ==
    /\ kind \in Does[t]
    /\ pc[t] = "idle" \/ (pc[t] = "deliver" /\ "nested" \in Does[t])
    /\ cont' = [cont EXCEPT ![t] = pc[t]]

CallConfigure(t) ==
    /\ Calling(t, "configure")
    /\ Goto(t, "wantConfigure")
    /\ UNCHANGED <<global, key, users, retired, jobs, held, plan, call>>

CallPackageRule(t) ==
    /\ Calling(t, "rule")
    /\ Goto(t, "wantRule")
    /\ UNCHANGED <<global, key, users, retired, jobs, held, plan, call>>

(* A provider is kept exactly when the settings it was built with stay. *)
ReuseAny(s, goal) == snapshot[s] # None /\ goal[s] # NoKey
Reusable(s, goal) == snapshot[s] # None /\ settings[s] = goal[s]
Fresh(s) == {r \in Resources : SlotOf[r] = s /\ key[r] = NoKey}

(* What _update may put in slot s to reach the goal. *)
Candidates(s, goal) == IF goal[s] = NoKey THEN {None}
                       ELSE IF Reusable(s, goal) THEN {snapshot[s]} ELSE Fresh(s)

(* The first half of _update: the candidate settings are validated and the  *)
(* providers they need are built, before anything is published.             *)
Prepare(t, goal, there) ==
    /\ lock' = t
    /\ \E c \in Candidates("console", goal), d \in Candidates("sentry", goal) :
         LET draft == [s \in Slots |-> IF s = "console" THEN c ELSE d] IN
         /\ plan' = [plan EXCEPT ![t] = [goal |-> goal, draft |-> draft, olds |-> snapshot]]
         /\ key' = [r \in Resources |-> IF r \in AllOf(draft) THEN goal[SlotOf[r]] ELSE key[r]]
    /\ Goto(t, there)
    /\ UNCHANGED cont

(* Validation or construction raises: the lock is released, nothing else    *)
(* changes, and the exception ends a facade call.                           *)
PrepareFails(t) ==
    /\ Resume(t, IF cont[t] = "dispatch" THEN "idle" ELSE cont[t])
    /\ UNCHANGED <<lock, key, plan>>

NoUpdate(t, there) == Resume(t, there) /\ UNCHANGED <<lock, key, plan>>

Transition(t) ==
    /\ lock = Free
    /\ UNCHANGED <<published, snapshot, stopped, settings, users, retired, jobs, held, call>>

(* ensure, with the lock: the same test again before the first update. *)
FirstUse(t) ==
    /\ pc[t] = "wantInit"
    /\ Transition(t)
    /\ IF Initialized
       THEN NoUpdate(t, cont[t])
       ELSE Prepare(t, settings, "republish") \/ PrepareFails(t)

(* package_rule: while stopped only the retained rules change. *)
PackageRule(t) ==
    /\ pc[t] = "wantRule"
    /\ Transition(t)
    /\ IF stopped
       THEN NoUpdate(t, cont[t])
       ELSE Prepare(t, settings, "republish") \/ PrepareFails(t)

Configure(t) ==
    /\ pc[t] = "wantConfigure"
    /\ Transition(t)
    /\ (\E goal \in Goals : Prepare(t, goal, "publish")) \/ PrepareFails(t)

(* The second half of _update, in one block under _state: publish, then     *)
(* retire what the new snapshot left out.                                   *)
GoneDisabled(t) == AllOf([s \in Slots |-> IF plan[t].draft[s] = None
                                          THEN plan[t].olds[s] ELSE None])
GoneAll(t) == AllOf(plan[t].olds)
Gone(t) == AllOf(plan[t].olds) \ AllOf(plan[t].draft)

Publish(t) ==
    /\ pc[t] \in Publishing
    /\ published' = TRUE /\ stopped' = FALSE
    /\ snapshot' = plan[t].draft
    /\ settings' = plan[t].goal
    /\ retired' = retired \union Gone(t)
    /\ cleanup' = Started(Gone(t))
    /\ lock' = Free
    /\ plan' = [plan EXCEPT ![t] = NoPlan]
    /\ Resume(t, cont[t])
    /\ UNCHANGED <<key, users, closed, flushing, drained, held, call>>

(****************************************************************************)
(* Flush and shutdown, and the wait they share.                             *)
(****************************************************************************)
(* A new flush job counts as a user of its resource. *)
NotLeased(S) == users
JobLeased(S) == Leased(S)

(* flush: one block under _state starts or joins a flush job per published  *)
(* resource and notes the retired ones.                                     *)
CallFlush(t) ==
    /\ Calling(t, "flush")
    /\ LET new == {r \in Live : flushing[r] = "none"} IN
       /\ flushing' = [r \in Resources |-> IF r \in new THEN "run" ELSE flushing[r]]
       /\ users' = JobLeased(new)
    /\ InCall(t, [NoCall EXCEPT !.await = Live, !.todo = retired, !.scope = retired])
    /\ Goto(t, "awaitFlush")
    /\ UNCHANGED <<global, key, retired, closed, cleanup, drained, held, plan>>

(* The one deadline of a flush or shutdown passes. *)
Expire(t) ==
    /\ pc[t] \in Waiting \union {"wantStop", "stop"}
    /\ ~call[t].expired
    /\ InCall(t, [call[t] EXCEPT !.expired = TRUE])
    /\ UNCHANGED <<global, key, users, retired, jobs, pc, cont, held, plan>>

(* flush or shutdown returns, True or False. *)
Return(t) == Resume(t, cont[t]) /\ InCall(t, NoCall)

(* The waits for the flush jobs end when they are all done or at the        *)
(* deadline; a job that is not done or not successful makes flush False.    *)
FlushEval(t) ==
    /\ pc[t] = "awaitFlush"
    /\ call[t].await = {} \/ call[t].expired
    /\ IF call[t].await = {} /\ ~call[t].bad
       THEN Goto(t, "waitRetired") /\ UNCHANGED <<cont, call>>
       ELSE Return(t)
    /\ UNCHANGED <<global, key, users, retired, jobs, held, plan>>

(* _wait_retired: take the next resource; a closed one needs no waiting, a  *)
(* finished job is not waited for.                                          *)
WaitNext(t) ==
    /\ pc[t] = "waitRetired"
    /\ \E r \in call[t].todo :
         IF r \in closed
         THEN InCall(t, [call[t] EXCEPT !.todo = @ \ {r}]) /\ UNCHANGED pc
         ELSE /\ InCall(t, [call[t] EXCEPT !.target = r,
                                           !.woken = cleanup[r] \in {"none", "done"}])
              /\ Goto(t, "waitJob")
    /\ UNCHANGED <<global, key, users, retired, jobs, cont, held, plan>>

(* The wait for a cleanup job ends, woken or at the deadline: only closed   *)
(* counts, however the job ended.                                           *)
WokenOnly(t) == call[t].woken
WaitOver(t)  == call[t].woken \/ call[t].expired
JobEnded(t) == call[t].woken
CleanedUp(t) == call[t].target \in closed

WaitCheck(t) ==
    /\ pc[t] = "waitJob"
    /\ WaitOver(t)
    /\ IF CleanedUp(t)
       THEN /\ Goto(t, "waitRetired") /\ UNCHANGED cont
            /\ InCall(t, [call[t] EXCEPT !.todo = @ \ {call[t].target},
                                         !.target = None, !.woken = FALSE])
       ELSE Return(t)
    /\ UNCHANGED <<global, key, users, retired, jobs, held, plan>>

(* All closed: True, and the closed ones are dropped from _retired. *)
WaitEnd(t) ==
    /\ pc[t] = "waitRetired"
    /\ call[t].todo = {}
    /\ retired' = retired \ closed
    /\ Return(t)
    /\ UNCHANGED <<global, key, users, jobs, held, plan>>

CallShutdown(t) ==
    /\ Calling(t, "shutdown")
    /\ Goto(t, "wantStop")
    /\ UNCHANGED <<global, key, users, retired, jobs, held, plan, call>>

TakeStop(t) ==
    /\ pc[t] = "wantStop"
    /\ lock = Free
    /\ lock' = t
    /\ Goto(t, "stop")
    /\ UNCHANGED <<published, snapshot, stopped, settings, key, users, retired,
                   jobs, cont, held, plan, call>>

(* acquire(timeout=...) fails: a slow transition does not hold up shutdown. *)
ShutdownTimeout(t) ==
    /\ pc[t] = "wantStop"
    /\ call[t].expired
    /\ lock # Free
    /\ Return(t)
    /\ UNCHANGED <<global, key, users, retired, jobs, held, plan>>

(* What the stopped runtime publishes, and the retired resources whose      *)
(* cleanup shutdown starts again.                                           *)
StillPublished == snapshot
Unpublished == Nothing
NoneAgain == {}
Restartable == {r \in retired : Idle(r)}

(* The body of shutdown, one block under _state: unpublish, retire what was *)
(* published, and start the cleanup of idle retired resources again.        *)
StopBody(t) ==
    /\ pc[t] = "stop"
    /\ stopped' = TRUE /\ published' = FALSE
    /\ snapshot' = Unpublished
    /\ retired' = retired \union Live
    /\ cleanup' = Started(Live \union Restartable)
    /\ InCall(t, [call[t] EXCEPT !.todo = retired', !.scope = retired'])
    /\ lock' = Free
    /\ Goto(t, "waitRetired")
    /\ UNCHANGED <<settings, key, users, closed, flushing, drained, cont, held, plan>>

(****************************************************************************)
Waits(t) == FlushEval(t) \/ WaitNext(t) \/ WaitCheck(t) \/ WaitEnd(t)
            \/ TakeStop(t) \/ ShutdownTimeout(t) \/ StopBody(t)

Next ==
    \/ \E t \in Threads :
         \/ FacadeCall(t) \/ HostRecord(t) \/ Lease(t) \/ Release(t)
         \/ CallConfigure(t) \/ CallPackageRule(t)
         \/ FirstUse(t) \/ PackageRule(t) \/ Configure(t) \/ Publish(t)
         \/ CallFlush(t) \/ CallShutdown(t) \/ Expire(t) \/ Waits(t)
    \/ \E r \in Resources : CleanupThread(r) \/ FlushThread(r)

Spec == Init /\ [][Next]_vars

(* Nothing makes a provider, a delivery or a transition come back.  What is *)
(* fair is a caller's own thread and its deadline (the lock, the events and *)
(* the deadline all end a wait), and a cleanup thread that is not blocked:  *)
(* it may hang in provider.close.                                           *)
CallerFairness == \A t \in Threads : /\ WF_vars(Waits(t))
                                     /\ WF_vars(Expire(t))
CleanupFairness == \A r \in Resources : WF_vars(CleanupCheck(r)) /\ WF_vars(CleanupDone(r))
FairSpec == Spec /\ CallerFairness /\ CleanupFairness

(****************************************************************************)
(* Properties.                                                              *)
(****************************************************************************)
HoldersOf(r) == {t \in Threads : r \in held[t]}
FlushUses(r) == flushing[r] = "run"
InUse(r) == HoldersOf(r) # {} \/ FlushUses(r)

(* The counter that gates closing, _Resource.users, is exactly the number   *)
(* of deliveries in flight plus one for a running flush job: no exit path   *)
(* of emit, no joined flush job and no retirement makes them differ.        *)
UsersCount == \A r \in Resources :
    users[r] = Cardinality(HoldersOf(r)) + (IF FlushUses(r) THEN 1 ELSE 0)

(* From the moment a cleanup thread stops waiting and calls provider.close  *)
(* no delivery and no flush job uses the provider: "never close resources   *)
(* beneath active users".                                                   *)
NoCloseUnderUse == \A r \in Resources :
    r \in closed \/ cleanup[r] \in {"closing", "recorded", "done"} => ~InUse(r)

(* No old cleanup touches the published pipeline, also after a restart: a   *)
(* published provider was built, was never retired and is not closed, and   *)
(* it was built with the settings now in force.                             *)
PublishedUsable == \A s \in Slots :
    /\ published => (snapshot[s] = None <=> settings[s] = NoKey)
    /\ snapshot[s] # None =>
         /\ SlotOf[snapshot[s]] = s /\ key[snapshot[s]] = settings[s]
         /\ snapshot[s] \notin retired \union closed
         /\ cleanup[snapshot[s]] = "none"

(* Every provider ever built is published, about to be published, or has    *)
(* been retired with a cleanup of its own: none is forgotten unclosed.      *)
NoneForgotten == \A r \in Resources : key[r] # NoKey =>
    \/ r \in Live
    \/ \E t \in Threads : r \in AllOf(plan[t].draft)
    \/ r \in retired \union closed /\ cleanup[r] # "none"

(* When flush or shutdown is about to return True, every provider that was  *)
(* retired when it looked (for shutdown: the ones it unpublished as well)   *)
(* is closed, whatever other calls did to _retired meanwhile.               *)
TrueMeansClosed == \A t \in Threads :
    pc[t] = "waitRetired" /\ call[t].todo = {} => call[t].scope \subseteq closed

(* Only configure restarts a stopped runtime: neither a record that raced   *)
(* with shutdown on first use nor a package rule reaches the update.        *)
OnlyConfigureRestarts == \A t \in Threads : pc[t] = "republish" => ~stopped

(* While the runtime stays stopped no delivery and no flush takes a new     *)
(* lease, whatever was eligible before.                                     *)
StoppedTakesNothing == [][stopped /\ stopped' =>
                             \A r \in Resources : users'[r] <= users[r]]_vars

(* A failed or running cleanup is never started a second time beside the    *)
(* first, and a closed provider is never closed again.                      *)
NeverReclose == [][\A r \in Resources :
    /\ r \in closed => r \in closed' /\ cleanup'[r] # "closing"
    /\ cleanup[r] \in {"closing", "recorded"} => cleanup'[r] # "check"]_vars

(* flush and shutdown return within their budget: no provider that hangs,   *)
(* no transition that is slow and no cleanup that never ends holds them.    *)
BoundedCalls == \A t \in Threads :
    pc[t] \in Waiting \union {"wantStop", "stop"} ~> pc[t] \in {"idle", "deliver"}

(* A retired provider whose last user has left is closed without anyone     *)
(* asking: the wakeup of its cleanup is never lost.                         *)
CleanupRuns == \A r \in Resources :
    cleanup[r] \in {"check", "asleep"} /\ ~InUse(r) ~> cleanup[r] = "closing"

(* A provider whose close fails or times out for a while, but never hangs,  *)
(* is closed in the end if shutdown is called again and again.              *)
CloseWorks(r) == /\ []<>(cleanup[r] # "closing")
                 /\ []<>(cleanup[r] = "closing") => []<><<CloseReturns(r, TRUE)>>_vars
RetryCloses == []<><<\E t \in Threads : StopBody(t)>>_vars =>
    \A r \in Resources : CloseWorks(r) => (r \in retired /\ ~InUse(r) ~> r \in closed)

(* The runtime keeps the promise of Lifecycle. *)
StatusOf(r) == IF r \in closed THEN "closed"
               ELSE IF r \in Live THEN "active"
               ELSE IF r \notin retired THEN "unbuilt"
               ELSE IF cleanup[r] = "closing" THEN "closing" ELSE "retired"
LeaseOf(r) == HoldersOf(r) \union (IF FlushUses(r) THEN {FlushJob} ELSE {})

L == INSTANCE Lifecycle WITH Holders <- Threads \union {FlushJob},
                             status <- [r \in Resources |-> StatusOf(r)],
                             lease <- [r \in Resources |-> LeaseOf(r)]
ImplementsLifecycle == L!Spec
==============================================================================
