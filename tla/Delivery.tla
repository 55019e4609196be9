------------------------------- MODULE Delivery -------------------------------
(****************************************************************************)
(* What happens to the events of one Sentry provider: proxy/sentry.py, and  *)
(* the flush job and the cleanup with which core/service/runtime.py drives  *)
(* it.  Runtime has many providers and does not look into them; here is     *)
(* one, with its queue, its drop counters and the answers flush gives.      *)
(*                                                                          *)
(* The SDK is external: a bounded queue, and a worker that sends.  A send   *)
(* may fail and may take forever; the SDK's own flush and close do not      *)
(* raise.  SENTRY_DROP_COUNTER_MAX_INT (2^63 - 1) is never reached.         *)
(* _lifecycle_lock is no variable: a flush job holds a lease and is started *)
(* only for a published provider, so it never runs beside a close.          *)
(****************************************************************************)
EXTENDS Naturals, FiniteSets

CONSTANTS Emitters,   \* threads that log
          Flushers,   \* threads that flush
          Events,     \* the records they may log
          Capacity,   \* of the SDK's queue
          FlushJob,   \* the holder that stands for the provider's flush thread
          Happens     \* what else may happen

Happenings == {"failure",   \* the SDK rejects an event or fails to send it
               "timeout",   \* the deadline of a flush passes
               "replace",   \* configure puts another provider in its place
               "shutdown"}

ASSUME DeliveryAssumption == /\ Capacity \in Nat /\ Happens \subseteq Happenings
                             /\ IsFiniteSet(Events)
                             /\ FlushJob \notin Emitters

VARIABLES
    event,      \* where each event is
    emitting,   \* the event that an emitter delivers, under a lease
    published,  \* the provider is in the snapshot
    dropped,    \* _dropped_events
    reported,   \* _reported_drops
    job,        \* the flush job of the resource
    cleanup,    \* its cleanup job
    torn,       \* the SDK client is closed (provider._closed)
    closed,     \* resource.closed
    call        \* the flush each flusher is in

sdk      == <<event, emitting, torn>>
counters == <<dropped, reported>>
vars     == <<event, emitting, published, dropped, reported, job, cleanup, torn, closed, call>>

Stages     == {"new", "taken", "queued", "sending", "failing", "sent", "lost"}
JobSteps   == {"none", "drain", "check", "count", "leave", "ready"}
CloseSteps == {"none", "wait", "drain", "check", "count", "recheck", "destroy",
               "record", "ready", "done"}
CallSteps  == {"idle", "await", "failed", "retired", "waiting"}

(* idle: nothing was pending when it looked; late: its deadline has passed. *)
NoJob     == [at |-> "none", idle |-> FALSE, ok |-> FALSE, late |-> FALSE]
NoCleanup == [at |-> "none", idle |-> FALSE, ok |-> FALSE]

(* own: this call started the job it waits for; listed: the provider was in *)
(* _retired.  And what an answer is judged by: the events that were waiting *)
(* or being sent at the call, those that were not captured yet, and the     *)
(* drops that had been reported.                                            *)
NoCall == [at |-> "idle", own |-> FALSE, listed |-> FALSE, woken |-> FALSE,
           late |-> FALSE, seen |-> {}, ahead |-> {}, base |-> 0]

Drops == 0 .. Cardinality(Events)

TypeOk ==
    /\ event \in [Events -> Stages]
    /\ emitting \in [Emitters -> {{}} \union {{e} : e \in Events}]
    /\ published \in BOOLEAN /\ torn \in BOOLEAN /\ closed \in BOOLEAN
    /\ dropped \in Drops /\ reported \in 0 .. dropped
    /\ job \in [at : JobSteps, idle : BOOLEAN, ok : BOOLEAN, late : BOOLEAN]
    /\ cleanup \in [at : CloseSteps, idle : BOOLEAN, ok : BOOLEAN]
    /\ call \in [Flushers -> [at : CallSteps, own : BOOLEAN, listed : BOOLEAN,
                              woken : BOOLEAN, late : BOOLEAN,
                              seen : SUBSET Events, ahead : SUBSET Events,
                              base : Drops]]

Init ==
    /\ event = [e \in Events |-> "new"]
    /\ emitting = [t \in Emitters |-> {}]
    /\ published = TRUE /\ torn = FALSE /\ closed = FALSE
    /\ dropped = 0 /\ reported = 0
    /\ job = NoJob /\ cleanup = NoCleanup
    /\ call = [t \in Flushers |-> NoCall]

At(stages) == {e \in Events : event[e] \in stages}
Becomes(e, stage) == event' = [event EXCEPT ![e] = stage]

(* _record_drop. *)
Counted == dropped + 1

(* queue.unfinished_tasks: envelopes that wait and the one being sent. *)
QueuedOnly == At({"queued"})
Pending    == At({"queued", "sending", "failing"})

(****************************************************************************)
(* An event: runtime.emit leases, the provider captures, the worker sends.  *)
(****************************************************************************)
Accept(t, e) ==
    /\ emitting[t] = {} /\ event[e] = "new"
    /\ published
    /\ emitting' = [emitting EXCEPT ![t] = {e}]
    /\ Becomes(e, "taken")
    /\ UNCHANGED <<published, counters, job, cleanup, torn, closed, call>>

(* capture_event queues the event, or drops it because the queue is full,   *)
(* or rejects it; a payload that cannot be built is lost without a count,   *)
(* and a closed provider ignores the event.                                 *)
Capture(t, e) ==
    /\ emitting[t] = {e}
    /\ emitting' = [emitting EXCEPT ![t] = {}]
    /\ \/ /\ ~torn /\ Cardinality(At({"queued"})) < Capacity
          /\ Becomes(e, "queued") /\ UNCHANGED dropped
       \/ /\ ~torn /\ (Cardinality(At({"queued"})) = Capacity \/ "failure" \in Happens)
          /\ Becomes(e, "lost") /\ dropped' = Counted
       \/ /\ torn \/ "failure" \in Happens
          /\ Becomes(e, "lost") /\ UNCHANGED dropped
    /\ UNCHANGED <<published, reported, job, cleanup, torn, closed, call>>

(* The worker takes one envelope at a time. *)
Send(e) ==
    /\ ~torn /\ event[e] = "queued" /\ At({"sending", "failing"}) = {}
    /\ Becomes(e, "sending")
    /\ UNCHANGED <<emitting, published, counters, job, cleanup, torn, closed, call>>

(* A failure is counted before the queue counts the task as finished. *)
Fail(e) ==
    /\ "failure" \in Happens /\ event[e] = "sending"
    /\ Becomes(e, "failing") /\ dropped' = Counted
    /\ UNCHANGED <<emitting, published, reported, job, cleanup, torn, closed, call>>

Finish(e) ==
    /\ event[e] \in {"sending", "failing"}
    /\ Becomes(e, IF event[e] = "sending" THEN "sent" ELSE "lost")
    /\ UNCHANGED <<emitting, published, counters, job, cleanup, torn, closed, call>>

Worker(e) == Send(e) \/ Fail(e) \/ Finish(e)

(****************************************************************************)
(* The flush thread: SentryProvider._flush, then _flush_job.drain's end.    *)
(****************************************************************************)
(* _flush succeeds when nothing is pending and no loss is new. *)
PendingOnly(idle) == idle
TotalZero(idle)   == idle /\ dropped = 0
Drained(idle)     == idle /\ dropped = reported

(* The SDK's flush returns when the queue is empty or at its timeout. *)
JobDrain ==
    /\ job.at = "drain"
    /\ Pending = {} \/ job.late
    /\ job' = [job EXCEPT !.at = "check"]
    /\ UNCHANGED <<sdk, counters, published, cleanup, closed, call>>

JobCheck ==
    /\ job.at = "check"
    /\ job' = [job EXCEPT !.at = "count", !.idle = Pending = {}]
    /\ UNCHANGED <<sdk, counters, published, cleanup, closed, call>>

JobCount ==
    /\ job.at = "count"
    /\ job' = [job EXCEPT !.at = "leave", !.ok = Drained(job.idle)]
    /\ reported' = dropped
    /\ UNCHANGED <<sdk, dropped, published, cleanup, closed, call>>

(* The lease is released, and only then is the job done. *)
JobLeave ==
    /\ job.at = "leave"
    /\ job' = [job EXCEPT !.at = "ready"]
    /\ UNCHANGED <<sdk, counters, published, cleanup, closed, call>>

JobReady ==
    /\ job.at = "ready"
    /\ job' = NoJob
    /\ call' = [t \in Flushers |->
                  IF call[t].at = "await"
                  THEN [call[t] EXCEPT !.at = IF job.ok THEN "retired" ELSE "failed"]
                  ELSE call[t]]
    /\ UNCHANGED <<sdk, counters, published, cleanup, closed>>

FlushThread == JobDrain \/ JobCheck \/ JobCount \/ JobLeave \/ JobReady

(****************************************************************************)
(* The cleanup thread: _start_cleanup.cleanup and SentryProvider.close.     *)
(****************************************************************************)
(* resource.users = 0: no delivery in flight and no flush job. *)
NoDelivery == \A t \in Emitters : emitting[t] = {}
NoneEmits  == NoDelivery
Unleased   == NoDelivery /\ job.at \in {"none", "ready"}

CloseWait ==
    /\ cleanup.at = "wait"
    /\ Unleased
    /\ cleanup' = IF torn THEN [cleanup EXCEPT !.at = "record", !.ok = TRUE]
                  ELSE [cleanup EXCEPT !.at = "drain"]
    /\ UNCHANGED <<sdk, counters, published, job, closed, call>>

(* DEFAULT_TIMEOUT_SECONDS_FLOAT may pass before the queue is empty. *)
CloseDrain ==
    /\ cleanup.at = "drain"
    /\ cleanup' = [cleanup EXCEPT !.at = "check"]
    /\ UNCHANGED <<sdk, counters, published, job, closed, call>>

CloseCheck ==
    /\ cleanup.at = "check"
    /\ cleanup' = [cleanup EXCEPT !.at = "count", !.idle = Pending = {}]
    /\ UNCHANGED <<sdk, counters, published, job, closed, call>>

CloseCount ==
    /\ cleanup.at = "count"
    /\ cleanup' = [cleanup EXCEPT !.at = "recheck", !.ok = Drained(cleanup.idle)]
    /\ reported' = dropped
    /\ UNCHANGED <<sdk, dropped, published, job, closed, call>>

(* The transport is destroyed only when nothing is pending. *)
MayDestroyAny == TRUE
MayDestroy    == Pending = {}

CloseRecheck ==
    /\ cleanup.at = "recheck"
    /\ cleanup' = IF MayDestroy THEN [cleanup EXCEPT !.at = "destroy"]
                  ELSE [cleanup EXCEPT !.at = "record", !.ok = FALSE]
    /\ UNCHANGED <<sdk, counters, published, job, closed, call>>

CloseDestroy ==
    /\ cleanup.at = "destroy"
    /\ torn' = TRUE
    /\ cleanup' = [cleanup EXCEPT !.at = "record"]
    /\ UNCHANGED <<event, emitting, counters, published, job, closed, call>>

CloseRecord ==
    /\ cleanup.at = "record"
    /\ closed' = cleanup.ok
    /\ cleanup' = [cleanup EXCEPT !.at = "ready"]
    /\ UNCHANGED <<sdk, counters, published, job, call>>

CloseReady ==
    /\ cleanup.at = "ready"
    /\ cleanup' = [NoCleanup EXCEPT !.at = "done"]
    /\ call' = [t \in Flushers |-> IF call[t].at = "waiting"
                                   THEN [call[t] EXCEPT !.woken = TRUE] ELSE call[t]]
    /\ UNCHANGED <<sdk, counters, published, job, closed>>

CleanupThread == \/ CloseWait \/ CloseDrain \/ CloseCheck \/ CloseCount
                 \/ CloseRecheck \/ CloseDestroy \/ CloseRecord \/ CloseReady

(* A configure that replaces the provider retires it; a shutdown retires it *)
(* too, and restarts the finished cleanup of an unclosed one.               *)
Retire ==
    /\ published
    /\ "replace" \in Happens \/ "shutdown" \in Happens
    /\ published' = FALSE
    /\ cleanup' = [NoCleanup EXCEPT !.at = "wait"]
    /\ UNCHANGED <<sdk, counters, job, closed, call>>

ShutdownAgain ==
    /\ "shutdown" \in Happens
    /\ cleanup.at = "done" /\ ~closed /\ Unleased
    /\ cleanup' = [NoCleanup EXCEPT !.at = "wait"]
    /\ UNCHANGED <<sdk, counters, published, job, closed, call>>

(****************************************************************************)
(* Runtime.flush.                                                           *)
(****************************************************************************)
(* A flush starts a job for the published provider, or joins the one that   *)
(* is not done yet.                                                         *)
CallFlush(t) ==
    /\ call[t].at = "idle"
    /\ job' = IF published /\ job.at = "none" THEN [NoJob EXCEPT !.at = "drain"] ELSE job
    /\ call' = [call EXCEPT ![t] =
                  [NoCall EXCEPT !.at = IF published THEN "await" ELSE "retired",
                                 !.own = published /\ job.at = "none",
                                 !.listed = ~published,
                                 !.seen = At({"queued", "sending"}),
                                 !.ahead = At({"new", "taken"}), !.base = reported]]
    /\ UNCHANGED <<sdk, counters, published, cleanup, closed>>

(* The deadline passes; it is also the deadline of the job the call began.  *)
Expire(t) ==
    /\ "timeout" \in Happens
    /\ call[t].at # "idle" /\ ~call[t].late
    /\ call' = [call EXCEPT ![t].late = TRUE]
    /\ job' = IF call[t].own /\ call[t].at = "await" THEN [job EXCEPT !.late = TRUE] ELSE job
    /\ UNCHANGED <<sdk, counters, published, cleanup, closed>>

WaitRetired(t) ==
    /\ call[t].at = "retired" /\ call[t].listed /\ ~closed
    /\ call' = [call EXCEPT ![t].at = "waiting", ![t].woken = cleanup.at = "done"]
    /\ UNCHANGED <<sdk, counters, published, job, cleanup, closed>>

(* The answer, True or False. *)
Answers(t, ok) ==
    /\ \/ ~ok /\ call[t].at = "failed"
       \/ ~ok /\ call[t].at = "await" /\ call[t].late
       \/ ok  /\ call[t].at = "retired" /\ (call[t].listed => closed)
       \/ ok = closed /\ call[t].at = "waiting" /\ (call[t].woken \/ call[t].late)
    /\ call' = [call EXCEPT ![t] = NoCall]
    /\ UNCHANGED <<sdk, counters, published, job, cleanup, closed>>

Next ==
    \/ \E t \in Emitters, e \in Events : Accept(t, e) \/ Capture(t, e)
    \/ \E e \in Events : Worker(e)
    \/ FlushThread \/ CleanupThread \/ Retire \/ ShutdownAgain
    \/ \E t \in Flushers : \/ CallFlush(t) \/ Expire(t) \/ WaitRetired(t)
                           \/ \E ok \in BOOLEAN : Answers(t, ok)

Spec == Init /\ [][Next]_vars

(****************************************************************************)
(* Properties.                                                              *)
(****************************************************************************)
(* The SDK client is destroyed only when nothing is queued or being sent    *)
(* and no delivery can still reach it: neither a lease that is late nor a   *)
(* flush job that returned meanwhile lets close lose an accepted event.     *)
CloseLosesNothing == torn => Pending = {} /\ NoDelivery

(* A flush that started its own job and returns True knows that every event *)
(* queued when it was called has been sent.                                 *)
OwnTrueMeansSent == [][\A t \in Flushers :
    Answers(t, TRUE) /\ call[t].own => call[t].seen \subseteq At({"sent"})]_vars

(* Such a flush returns False only for its deadline, for a loss that no     *)
(* flush or close had reported when it was called, or because more events   *)
(* arrived before it looked at the queue.                                   *)
Reason(t) == \/ call[t].late
             \/ dropped # call[t].base
             \/ \E e \in call[t].ahead : event[e] \notin {"new", "taken"}
OwnFalseHasReason == [][\A t \in Flushers :
    Answers(t, FALSE) /\ call[t].own => Reason(t)]_vars

(* The same of every flush, whoever started the job it waits for: "flush    *)
(* waits up to the budget for currently queued owned work; return false     *)
(* when draining fails or times out" (prompt/000001).                       *)
TrueMeansDrained == [][\A t \in Flushers :
    Answers(t, TRUE) => call[t].seen \cap Pending = {}]_vars

(* With nothing queued at the call or at the return, and none of these      *)
(* reasons, a flush succeeds.                                               *)
QuietFlushSucceeds == [][\A t \in Flushers :
    Answers(t, FALSE) => Reason(t) \/ call[t].seen # {} \/ Pending # {}]_vars

(* Once published the provider lives as Lifecycle promises, which Runtime   *)
(* implements for all providers without looking into them: each step here   *)
(* is a step of that life or leaves it alone.  Its close is everything      *)
(* between the end of the wait for leases and the recorded result.          *)
JobRunning == job.at \in {"drain", "check", "count", "leave"}
Closing    == cleanup.at \in {"drain", "check", "count", "recheck", "destroy", "record"}
Status     == IF published THEN "active"
              ELSE IF closed THEN "closed"
              ELSE IF Closing THEN "closing" ELSE "retired"
Lease      == {t \in Emitters : emitting[t] # {}} \union (IF JobRunning THEN {FlushJob} ELSE {})

L == INSTANCE Lifecycle WITH Resources <- {"sentry"},
                             Holders <- Emitters \union {FlushJob},
                             status <- [r \in {"sentry"} |-> Status],
                             lease <- [r \in {"sentry"} |-> Lease]
LivesAsPromised == [][L!Next]_L!vars
==============================================================================
