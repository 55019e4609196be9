# n-log-forge in TLA+

A verification development of the package under `src/n_log_forge`: a process-wide
logging runtime that any thread may log through, configure, flush and shut down. It
holds TLA+ modules that model the code, TLC configurations that check them on small
instances, and TLAPS proofs of the properties that matter most, for every value of the
constants. `PROJECT.json` maps each definition to the lines it models, and lists the
runs, the mutants, the findings, the hazards and the theorems.

## 1. The system

| Component | State | Operations | Hard because |
| --- | --- | --- | --- |
| Runtime, `core/service/runtime.py` | published snapshot, settings, retired providers, per provider its leases, cleanup and flush jobs, two locks | `ensure`, `configure`, `package_rule`, `emit`, `flush`, `shutdown`; daemon threads that flush and close | every operation runs from any thread, also from inside a delivery; closes are slow, fail and are retried; calls have deadlines |
| Host ownership, same file, `_reconcile` | levels it changed with their baselines, detached root handlers | part of every transition and of shutdown | the host changes levels and handlers in between, and must get back what is its own |
| Configuration, `core/service/configuration.py` | captured environment, overrides, package rules | validate, merge, resolve the threshold of a logger | several callers at once; refused calls; rules kept while stopped |
| Timing, `core/helper/timing.py` | two kinds of context variables | start, stop, enter, exit | contexts are copied to tasks; handles are stopped in any order |
| Sentry provider, `core/proxy/sentry.py` | SDK queue, drop counters, closed flag | emit, flush, close | a worker sends beside them; answers must be true although looked up in steps |
| Event snapshot, `core/helper/event.py` | the traversal of application data | validate and merge metadata, convert, describe a chain of exceptions | cyclic, shared, huge and concurrently modified data; keys from several sources |
| Facade and standard logging dispatch, `core/service/facade.py` | a cache of loggers | log, `isEnabledFor` | the root's handlers change while a record is dispatched |
| Caller attribution, `core/helper/source.py` | none | `resolve_caller` | a second search, of standard logging, with other rules |
| Console, normalization, display names, constants | none beyond a stream and pure caches | formatting, parsing | not concurrent |

A facade call asks the runtime whether a level is enabled (which may be the first use
and build the pipeline), then logs through standard logging, whose root calls the
runtime's dispatch handler. `emit` takes the snapshot under `_state`, leases the
providers that accept the record, delivers outside the lock and releases. A transition
holds `_transition`, prepares providers, publishes the new snapshot under `_state` and
retires what it left out; a cleanup thread closes a retired provider when its last
lease is gone. `flush` runs one job per published provider and waits for retired ones;
`shutdown` unpublishes, gives the host its levels and handlers back and waits.

What makes each part correct:

* Runtime: nothing is closed beneath a user or twice; no provider is forgotten; a
  published provider is open; a stopped runtime stays stopped; True means closed; calls
  return within their budget; a retired provider is closed in the end.
* Ownership: gates match the configuration; the host's levels and handlers survive any
  sequence of transitions, and what it changes later is respected.
* Configuration: the last accepted call wins, refused ones leave no trace, nothing else moves.
* Timing: a record is attributed to the innermost operation that runs in its context; a
  stop that is refused leaves the timer stoppable.
* Sentry: no accepted event is lost by a close; flush answers what is true.
* Event snapshot: cycles are never entered, and the documented limits hold together; an
  event carries the first of its attributes, each with its own value, and says so when a limit
  cuts off the rest; a chain of exceptions is told once and in order.
* Dispatch: no reconfiguration takes a record from a handler or captures it twice.
* Attribution: a record's source and its file and line are the same frame.

## 2. The modules

`Runtime` is the core. Locks: `_transition` is the variable `lock` and is held across
steps; `_state` protects short blocks that never wait, so each `with self._state` block
is one action. A thread is a program counter `pc`, the place `cont` its lifecycle call
returns to (`deliver` for a call made inside a delivery), the leases it holds, the
transition it plans and the flush or shutdown it is in. The cleanup and flush threads of
a provider are `cleanup[r]` and `flushing[r]`. `_update` is two actions, `Prepare` (up
to the construction of the providers) and `Publish`; in between others log, flush and
ask for the lock.

| Code | Action |
| --- | --- |
| `ensure`, `enabled` | `FacadeCall`, `FirstUse` |
| `emit` | `Lease`, `Release`; `HostRecord` for records of the host |
| `configure`, `package_rule`, `_update` | `CallConfigure`, `CallPackageRule`, `Configure`, `PackageRule`, `Prepare` or `PrepareFails`, `Publish` |
| `_start_cleanup.cleanup` | `CleanupCheck`, `CloseReturns`, `CleanupDone` |
| `_flush_job.drain` | `FlushReturns`, `FlushDone` |
| `flush`, `_wait_retired` | `CallFlush`, `FlushEval`, `WaitNext`, `WaitCheck`, `WaitEnd`, `Expire` |
| `shutdown` | `CallShutdown`, `TakeStop`, `ShutdownTimeout`, `StopBody`, then as above |

`RuntimeInvariants` holds the inductive invariant (`RuntimeInv`, in the parts `IInv`, `LifeInv` and
`WakeInv`), `RuntimeProofs` the proofs. `Lifecycle` is the abstract specification of a
provider's life, with no threads or locks in it; `Runtime` implements it under the
mapping `StatusOf`, `LeaseOf`. `LifecycleProofs` proves what it promises.
`RuntimeSignals` adds one action: a shutdown that a signal handler makes inside a
transition of its own thread, which the re-entrant locks admit.

`Ownership` models `_reconcile` with the level of each logger, the gate (baseline and
owned level) kept for it, the root's handlers and the detached ones. Transitions are
serialised, so each is one action. `hostLevel` and `hostAdded` are history: what the
host is entitled to.

`Dispatch` refines it: `list` is `root.handlers` in order, a transition is `Begin`, which
fixes the calls of `addHandler` and `removeHandler` it will make (`todo`), and one `Call`
for each; `walk[t]` is a record in the loop of `Logger.callHandlers`, which takes handlers
by position without a lock (`Log`, `Take`, `End`), and `Emit` is the owned handler, which
waits for `_state`, that is, until `todo` is empty. `meanwhile` is history: whether a
removal or a shutdown fell into the walk. `OwnershipProofs` proves the properties of
`Ownership`, and that `Dispatch` implements it.

`Configuration` models capture, merge and publication with several callers, a lock, and
`asked`, the history of what accepted calls asked for. `level` and `debugging` stand for
all settings, because they are the two that interact; the value of a text is good or bad.

`Timing` models the context variables. `NewContext` copies a context (tasks,
`copy_context`) or starts an empty one (threads). `orderly` is history: whether the
program has so far left its with-blocks only with the timers it started in them stopped.

`Delivery` looks into one Sentry provider: the stages of each event, the SDK's queue and
worker (external), the drop counters, and the flush and close steps with the runtime's
jobs around them. From its publication on it takes the steps of one provider of
`Lifecycle` (`LivesAsPromised`, under the mapping `Status`, `Lease`).

`EventSnapshot` is the recursion of `_Snapshot.convert` as a stack of open containers,
beside an application that changes them. `Record` puts it where it is used, in one facade
call: `Emit` validates and merges the metadata, is refused, dropped, clashes in standard
logging (external) or is accepted, with the frames that `resolve_caller` and the
`findCaller` of standard logging (external) select; `Copy` is a step of `EventSnapshot`,
whose `Root` is the mapping of the attributes (`Attributes`, listed in `order`). What such a
step does at the top becomes the event's metadata, `carried`: `CopyItem` gives an attribute
a name no other has (`Named`; keys may have the same bounded text, or the marker's),
`CopyCut` puts the marker of a truncation, `CopyText` is a copy that fails as a whole;
`Describe` is one turn of the loop of `_exception_snapshot` over the causes and contexts.

`Lists` holds `Only`, the loop with an `if` over a list that `Dispatch` and `Record` use, and
`ListLemmas` what is proved about it and about sequences and sets of integers.

The modules are joined by the runtime's contract for a provider (`core/proxy/provider.py`):
`Runtime` lets a provider's flush and close return anything or hang, `Delivery` looks
inside one; `Runtime` reads settings as a whole, `Configuration` and `Ownership` say what
is in them. `Lifecycle` is the interface between `Runtime` and a provider,
and both sides are shown to keep it.

Some operators are used by no definition: they stand before the one they would replace
and are slips the code does not make (a missing reset, a swapped order, a dropped guard).
`PROJECT.json` names each with the property that notices it: `NotNotified`,
`StartBeside`, `AlmostIdle`, `PublishedOnly`, `ReuseAny`, `GoneDisabled`, `GoneAll`,
`NotLeased`, `WokenOnly`, `JobEnded`, `StillPublished`, `NoneAgain` in `Runtime`;
`BaselineAlways`, `KeepGates`, `InstallsAll`, `DetachAgain`, `DetachOwn` in `Ownership`;
`StoppingFirst`, `OnStack`, `LatestFirst` in `Timing`; `PendingOnly`,
`TotalZero`, `MayDestroyAny`, `NoneEmits` in `Delivery`; `AttachedTwice`, `CallsAgain` in
`Dispatch`; `ThresholdZeroStops`, `WithReset`, `Unlocked`, `ReadsAgain` in `Configuration`; `SettledLater`, `ItemsOnly`, `ForgottenNever` in
`EventSnapshot`; `StacklevelBelow`, `NamedPlainly`, `ReservedOnly`, `ToldNever` in `Record`.

## 3. The runs

| Run | Instance | Shows |
| --- | --- | --- |
| `core` | 2 threads that make every call, 2 consoles, one setting switched on and off | leases are counted exactly, nothing is closed beneath a user or twice, True means closed, stopped stays stopped, a shutdown attends to every retired provider |
| `reuse` | a thread that logs and flushes, one that manages; a console kept, a Sentry client replaced between two settings | what is published is open and has the settings in force; nothing is forgotten; the inductive invariant holds; `Runtime` implements `Lifecycle` |
| `liveness` | one provider, calls also from inside a delivery, which may hang, as a close may; callers, deadlines and cleanup threads fair | flush and shutdown return; wakeups are not lost; repeated shutdowns close |
| `signals` | one thread with a handler | violated: see findings |
| `ownership` | root, one ruled logger, 3 levels, 2 rule levels, 2 foreign handlers, 1 thread that logs | gates, baselines and handlers; the live list agrees with them; a record misses no handler and is captured once while nothing but reconfiguration happens |
| `timing` | 3 contexts, one shared scope, 4 handles | the stack is what runs; a context's timers can be stopped from the innermost on; blocks of orderly programs stop their own handle |
| `timing_leak` | as `timing`, with 2 contexts | violated: see findings |
| `delivery` | 2 emitters, 1 flusher, 3 events, queue of 1, everything may happen | close loses nothing; a flush of its own answers the truth; each step is one of `Lifecycle` |
| `delivery_early`, `delivery_replaced` | one or two flushers | violated: see findings |
| `configuration` | 2 threads, 3 loggers (a name, one two levels below it, another), 5 environments (two unreadable), 11 requests | no lost update, no trace of a refusal, nearest rule, nothing else moves |
| `snapshot` | all graphs of the attributes and 2 containers with up to 5 items, one change; depth 2, 3 items, 5 nodes; or 7 keys of every kind from 3 sources, in any order the sources allow, two with the same bounded text, one named as the first is renamed and one named as the marker; or 4 frames around the facade; or chains of 4 exceptions, of which 3 are told | limits and cycle detection; the first attributes are kept and a cut is marked; the two searches agree; chains are told in order |

Why the bounds are enough. Leases, jobs and closes are per provider and a transition
touches only the published providers and the ones it builds, so two providers of a kind
show every exchange: one retired and one published. Two threads give every pair of
concurrent operations, the daemon threads come on top. Providers are not reused after
they are closed, so that two of a kind allow one restart in `core` after a retirement;
the proofs hold for any number. In `ownership` loggers do not influence one another, only
the root and a ruled logger differ; records are followed only while the levels are at rest
(`RecordsApart`), because levels do not touch the list. In `delivery` a queue of one makes overflow common.
In `snapshot` the limits are small enough for each to be met before the others, and both the
items and the nodes limit may cut the attributes themselves; two keys with one text and one
that has the name the second of them gets make the search for a free name go past its first
try.
`MCRecord` starts from four families of states, each with one part of a call at its most
general and the others at their simplest, because the parts read nothing of one another;
`ChangesApart` disturbs the copy only where the metadata is general.
Symmetry is used for sets of model values that nothing tells apart, only with safety
properties. `MaxHandles`, `MaxLength`, `MaxTotal`, `MaxChanges` and the finite `Events`,
`Resources` and `Environs` are the bounds; none of them is in the code. `Init` of `Runtime`
takes the settings the first environment would give from `Goals`.

Fairness. `FairSpec` assumes that a caller's own thread runs and that its deadline passes
(`CallerFairness`: the code waits with `Event.wait(timeout)` and `acquire(timeout=...)`),
and that a cleanup thread which is not blocked runs (`CleanupFairness`). Nothing makes a
delivery, a provider or a transition come back: `BoundedCalls` and `CleanupRuns` hold
although each may hang. `RetryCloses` is about the runtime's retries and not about the
provider, so its antecedents say that shutdown is called for ever and that this provider's
close works (`CloseWorks`): it never hangs, and one that is tried again and again succeeds.

All the machines here may go on forever or are idle where they can still take a step, so
deadlock is checked in every run.

## 4. The proofs

`RuntimeProofs` proves `IInv` inductive and from it the invariants. `UsersCount` and
`NoCloseUnderUse` are not inductive by themselves. That closing begins with no user must
also stay true while `close` runs, and a new lease is possible only on what is published
or in the hands of a flush job; so the invariant says that what is published, or planned
by the holder of the lock, is unretired (`SnapshotUnretired`, `PlanFits`), that a plan
still describes the snapshot it will replace, that only the holder of the lock is between
the halves of an update (`LockHeld`), that only deliveries hold leases (`LeasesDelivered`),
that unbuilt providers are nowhere (`UnbuiltNowhere`), that the counter of a closing
provider is zero (`ClosingUnused`), and that a waiter's list shrinks only by closed
providers (`WaitedClosed`). `UsersCount` needs the cardinality of the set of holders
before and after a lease or a release, stated as lemmas. There is one lemma per conjunct
or action. `LifeInv` adds that a cleanup belongs to a retired provider, that a plan exists
only while a transition is under way and that no provider is forgotten. From both follow the
action properties, among them that shutdown attends to every provider whose close has
failed (`StopAttends`: a retired provider with no cleanup under way was built, so it is
remembered, and has no user, so it is restarted), and that every step of `Runtime` is a
step of `Lifecycle` or leaves its variables alone. What `LifecycleProofs` shows of every
implementation then holds of the runtime (`LifeSafe`).

`WakeInv` is the part of the liveness properties that is an invariant: whoever sleeps sleeps
for something under way. A sleeping cleanup has a user of its provider, whose release will
notify it (`SleepersUsed`: every release makes all sleepers look again, and nobody falls
asleep but after looking); a flush awaits only jobs that run (`JobsAwaited`); a wait that
has not been woken is for a cleanup that has not ended (`WaitersWoken`). What stays with
TLC is that the ones waited for take their steps.

`OwnershipProofs` proves, for any loggers, rules and handlers, that gates match, that
baselines are the host's, that handlers are kept, that the host's changes are respected
and that handlers added late stay; and that every step of `Dispatch` is one of `Ownership`
or leaves its variables alone, so that all this holds with records under way
(`DispatchKeepsStates`, `DispatchKeepsSteps`).

The live list needs an invariant of its own, `DispatchInv`, about a transition half done.
It says of the calls still to make that they add and remove different handlers, that the
owned one is added last and only where it is missing, and that list and calls together lead to
what the bookkeeping says already (`CallsLead`; hence `ListMatches` when no call is left); and
of each walk that it knows of the removals under way (`Knows`), that the handlers it has to
reach are ahead of it (`DueAhead`), and that the owned one is behind it once the walk is in it
or has captured (`OwnedBehind`). An addition
appends, which moves no handler over a walk's position; a removal may, and then `meanwhile`
says so. `UndisturbedReachAll` and `CapturedOnce` are what is left when the walk ends.
`ShutdownGivesBack` puts gates, levels, handlers and list together: after a shutdown the
host's logging tree is as the host had it.

`DeliveryProofs`: that close loses nothing rests on where deliveries can be. What is
published has no cleanup; a retired provider gets no new delivery, so that from the end of
its wait for leases the cleanup finds none (`CleanupRetired`), and what it saw empty stays
empty. A flush job holds a lease, so that it and a close never run together (`JobAlone`).
The answers of flush need an invariant for each step of a job (`OwnJob`): which events it
may have seen pending, that nobody reports losses beside it, and that each counted drop is
an event that failed (`DropsCounted`, over the cardinality of a set). With `ClosedAfter`, that
a closed provider has no cleanup before its result, each step is one of `Lifecycle`
(`DeliveryLives`). `JobAlone` is a theorem too: it is why `_lifecycle_lock` is no variable.

`ConfigurationProofs`: `InForce` is inductive once it is known that what a transition
prepared belongs to the holder of the lock, and still fits what is stored
(`CandidateFits`), and that a stopped runtime has no snapshot (`StoppedDown`).
`Threshold` is a recursive function over the prefixes of a name; what it yields is proved for
names of any depth (`ThresholdFacts`: the rule at the longest prefix that has one), and from
that `NearestRuleDecides` and that a call on one rule reaches only what lies under it
(`NamedOnly`), by comparing the prefixes that decide before and after it.

`RecordProofs`: in `EventSnapshot` the open containers are pairwise different and the
ancestors are exactly these, so that removing the innermost one on return is right, and
the visited nodes and the remaining ones add up to the limit; in each container no more
items are behind than the limit (`ItemsCounted`). `Record` implements
`EventSnapshot`; its metadata and its chain have an invariant each (`MetadataInv`,
`ChainInv`), the latter place by place: each exception told leads to the one before it. While
the attributes are copied, `carried` holds exactly those before the current place of `order`,
under different names; that a further one finds a free name is a pigeonhole argument
(`NamedIsNew`: one more numbers than names are tried), and the marker is put only at a limit. `OneCaller`
rests on two facts about searches: each selects the frames it keeps in their order
(`OnlyPositions`), and on an ordinary stack the one of standard logging keeps the facade's two
frames and then those `resolve_caller` keeps (`KeptAlike`), so that a `stacklevel` larger by two
counts to the same frame. `StackInv` says that `place` and `source` are what the searches give.

`ListLemmas` is where data is reasoned about. The library's induction theorems are about
predicates, which cannot be instantiated here; its own are about sets: a set that has 0 and
with each number the next has all of them (`SetInduction`, `IntervalInduction`), proved from
the least number outside it. From these follow that a recursive function over an interval has
the values its equation gives (`Recursion`), what `Only` selects and in which order
(`OnlyFacts`, `OnlyPositions`), and what `RemoveFirst`, `Append`, `Tail` and `SubSeq` do to the
set and the order of a sequence. A predicate to be proved by induction is so the set of the
numbers that have it.

`TimingProofs`: the invariant adds to `StackIsRunning` that the token of a running
operation holds exactly the stack below it, and that no operation of a context is in what
that context inherited; then a stop that finds its operation innermost and its token its
own restores the right stack, and every operation a context started has such a token
(`UnwindSafe`). `ExitStopsOwn` rests on the order in which handles are made:
those a scope holds in a context, and those of the open blocks, increase, the inherited
ones come before all of them, and in an orderly program the scope's own handles are those
of the open blocks (`ScopesFit`); so the latest one is the innermost block's.

The proofs assume what the modules assume of their constants: kinds are given to
providers, the special values are not providers, threads, loggers, settings or
exceptions, the limits are positive, logger names are sequences of segments, levels lie
between 0 and 50 as in `configuration.py`, and there are finitely many threads, events and
foreign handlers.

Only model-checked: all liveness (`BoundedCalls`, `CleanupRuns`, `RetryCloses`), which is out
of the prover's reach with fairness. Of these `WakeInv`, `ClosingUnused` and `NoneUnattended`
are the safety part. Every safety invariant and action property of the passing runs is a
theorem, for all values of the constants; the type invariants are too.

## 5. Findings

Four runs expect a violation; each checks one sentence of the documentation. A shutdown
made by a signal handler inside an update lets that update publish a provider which is
being closed (`signals`). The error of an inner block's timer leaves its handle in the
shared scope, and the outer exit stops that one instead of its own (`timing_leak`). A
flush that joins another one's unfinished job answers from a drain older than its own
events (`delivery_early`); such a flush also takes the deadline of the job it joins, so
that it may return False with its own budget unspent. A replaced provider whose close
failed makes every later flush False until shutdown (`delivery_replaced`).
`OwnTrueMeansSent`, `OwnFalseHasReason` and `ExitStopsOwn` say what does hold, and the theorem
`TrueUnlessJoined` that joining a job is the only way a True answer misleads.

Three more things came up that no run states, because a condition in a passing property
says them. A shutdown and a restart inside one record's walk move the owned handler behind
the walk's position, and the record may be captured twice, although README.md says the own
path attempts capture at most once (`CapturedOnce` excepts shutdowns); and the removals of a
beginning replacement or a shutdown may move a handler of the host before the position, so
that a record skips it (`UndisturbedReachAll` excepts them). A function of this package that
wraps the application (a call decorated with `timed`) and `stacklevel` of 2 or more select
the application's frame for the source, and the wrapper's for file and line; and an
application module named `core` counts as internal (`OneCaller` is about `Ordinary` stacks).
A thread that cannot be started makes `_update` raise after the new snapshot is in force,
and leaves a cleanup that never ends.

## 6. Not modelled

The console, the normalizers and display names are pure or own no state; the
construction of the SDK client is configuration of a library. Bytes, wording and widths
of the output are left out, and so are the conversion of scalars, the names
in mappings below the attributes and the frames of a traceback. The order of `_retired`, which only decides
the provider a waiter meets first, is left out. Interpreter exit calls
`shutdown` and adds no state. Forked processes are outside the documented contract.
Asynchronous exceptions (a `KeyboardInterrupt` between two statements) are left out, except
for the shutdown of `RuntimeSignals`. A transition is one step towards the host's
`setLevel`, whose race with the comparison and assignment of a gate is a hazard without a
property.

## 7. Plan

1. Done: `Lifecycle`, `Runtime`, `RuntimeSignals`, with proofs and the refinement.
2. Done: `Ownership` and `Dispatch`, with proofs and the refinement.
3. Done, with proofs: `Timing`, `Delivery`, `Configuration`, `EventSnapshot`, `Record`.
4. Done: `Delivery` as a provider of `Lifecycle`, the safety part of the wakeups, and the proofs
   over lists, names and stacks (`ListLemmas`).
5. Left: `Ownership` with the thresholds of `Configuration`; the host between the comparison and
   the assignment of a gate; `format_duration` and the normalizers as functions over bounded
   inputs.
