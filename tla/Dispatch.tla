------------------------------- MODULE Dispatch -------------------------------
(****************************************************************************)
(* Ownership, with root.handlers as the live list it is, and the records    *)
(* that standard logging carries past it.  A transition changes the list    *)
(* one call of addHandler or removeHandler at a time, inside one block      *)
(* under `_state`; callHandlers walks the same list by position, without    *)
(* any lock; the owned handler's emit waits for `_state`.                   *)
(*                                                                          *)
(* `handlers` is what the list holds when the transition is over.  The host *)
(* changes handlers and levels between transitions.                         *)
(****************************************************************************)
EXTENDS Ownership, Lists, SequencesExt

CONSTANT Emitters    \* threads that log

ASSUME ForeignAssumption == IsFiniteSet(Foreign)

VARIABLES
    list,   \* root.handlers
    aside,  \* _detached, in order
    todo,   \* the calls on the list that the transition under way still makes
    walk    \* walk[t]: where t's callHandlers is

(* The handler t takes next; whether it is inside the owned one; how often  *)
(* that captured its record; the handlers it has to reach; and what was     *)
(* done to the list since it began.                                         *)
Quiet == [at |-> 0, inside |-> FALSE, captured |-> 0, due |-> {}, meanwhile |-> "nothing"]

loop == <<list, aside, todo, walk>>

DispatchInit ==
    /\ Init
    /\ list \in SetToAllKPermutations(Foreign) /\ handlers = ToSet(list)
    /\ aside = << >> /\ todo = << >>
    /\ walk = [t \in Emitters |-> Quiet]

(****************************************************************************)
(* The list.                                                                *)
(****************************************************************************)
(* Logger.addHandler and Logger.removeHandler. *)
AttachedTwice(h) == Append(list, h)
Attached(h)      == IF h \in ToSet(list) THEN list ELSE Append(list, h)
Without(h)       == RemoveFirst(list, h)

(* What happens to the list while t walks it. *)
Meanwhile(t, what) ==
    IF walk[t].at = 0 \/ walk[t].meanwhile = "shutdown" THEN walk[t]
    ELSE [walk[t] EXCEPT !.meanwhile = what, !.due = {}]

Each(op, s) == [i \in DOMAIN s |-> <<op, s[i]>>]

(* The calls of one transition: _reconcile detaches all others or restores  *)
(* the detached ones, and then our handler is attached; shutdown removes it *)
(* and then restores.                                                       *)
Removals == Only(list, Handlers \ handlers')
Restored == IF detached' = {} THEN aside ELSE << >>
Attaches == IF Owned \in handlers' \ handlers THEN <<Owned>> ELSE << >>
CallsAgain == Each("remove", Removals)
                \o (IF Owned \in handlers THEN <<<<"remove", Owned>>>> ELSE << >>)
                \o Each("add", Restored)
                \o (IF Owned \in handlers' THEN <<<<"add", Owned>>>> ELSE << >>)
Calls == Each("remove", Removals) \o Each("add", Restored \o Attaches)

Aside == IF detached' = {} THEN << >> ELSE aside \o Only(Removals, Foreign)

Begin(transition, what) ==
    /\ todo = << >>
    /\ transition
    /\ todo' = Calls
    /\ aside' = Aside
    /\ walk' = [t \in Emitters |-> IF Removals # << >> \/ what = "shutdown"
                                   THEN Meanwhile(t, what) ELSE walk[t]]
    /\ UNCHANGED list

Transition == \/ Begin(FirstUse \/ Configure \/ PackageRule, "removal")
              \/ Begin(Shutdown, "shutdown")

Call ==
    /\ todo # << >>
    /\ LET h == Head(todo)[2] IN
          list' = IF Head(todo)[1] = "add" THEN Attached(h) ELSE Without(h)
    /\ todo' = Tail(todo)
    /\ UNCHANGED <<vars, aside, walk>>

HostChange ==
    /\ todo = << >>
    /\ \/ (\E l \in Loggers, v \in Levels : HostSetsLevel(l, v)) /\ UNCHANGED <<list, walk>>
       \/ \E h \in Foreign :
             HostAddsHandler(h) /\ list' = Attached(h) /\ UNCHANGED walk
       \/ \E h \in Handlers :
             /\ HostRemovesHandler(h) /\ list' = Without(h)
             /\ walk' = [t \in Emitters |-> Meanwhile(t, "removal")]
    /\ UNCHANGED <<aside, todo>>

(****************************************************************************)
(* A record in standard logging.                                            *)
(****************************************************************************)
Goes(t, w) == walk' = [walk EXCEPT ![t] = w] /\ UNCHANGED <<vars, list, aside, todo>>

(* The logger lets the record through and propagates it to the root. *)
Log(t) ==
    /\ walk[t].at = 0
    /\ Goes(t, [Quiet EXCEPT !.at = 1, !.due = ToSet(list),
                  !.meanwhile = IF <<"remove", Owned>> \in ToSet(todo) THEN "shutdown"
                                ELSE IF \E h \in Foreign : <<"remove", h>> \in ToSet(todo)
                                THEN "removal" ELSE "nothing"])

Walking(t) == walk[t].at # 0 /\ ~walk[t].inside

(* The loop takes the handler at its position, if there is one. *)
Take(t) ==
    /\ Walking(t)
    /\ walk[t].at <= Len(list)
    /\ LET h == list[walk[t].at] IN
          Goes(t, [walk[t] EXCEPT !.at = @ + 1, !.inside = h = Owned, !.due = @ \ {h}])

(* emit of the owned handler, also of one that has been removed since: it   *)
(* captures the record if a snapshot is published.                          *)
Emit(t) ==
    /\ walk[t].inside
    /\ todo = << >>
    /\ Goes(t, [walk[t] EXCEPT !.inside = FALSE, !.captured = IF Active THEN @ + 1 ELSE @])

Ended(t) == Walking(t) /\ walk[t].at > Len(list)
End(t) == Ended(t) /\ Goes(t, Quiet)

DispatchNext == \/ Transition \/ Call \/ HostChange
                \/ \E t \in Emitters : Log(t) \/ Take(t) \/ Emit(t) \/ End(t)

DispatchSpec == DispatchInit /\ [][DispatchNext]_<<vars, loop>>

(****************************************************************************)
(* Properties.                                                              *)
(****************************************************************************)
(* Between transitions the list holds what Ownership says, each handler     *)
(* once, and the detached handlers are the ones put aside: the order of the *)
(* calls and handlers that are there already do not matter.                 *)
ListMatches == todo = << >> =>
    /\ ToSet(list) = handlers /\ IsInjective(list)
    /\ ToSet(aside) = detached /\ IsInjective(aside)

(* While nothing but reconfiguration happens (no handler is removed by the  *)
(* host, no replacement begins, no shutdown), a record reaches every        *)
(* handler that was attached when its walk began: transitions, also ones    *)
(* half done, take no record from anybody.                                  *)
UndisturbedReachAll == \A t \in Emitters :
    Ended(t) /\ walk[t].meanwhile = "nothing" => walk[t].due = {}

(* The owned path captures a record at most once (README, "its own path     *)
(* attempts capture at most once"), unless a shutdown and a restart fall    *)
(* into its walk.                                                           *)
CapturedOnce == \A t \in Emitters :
    walk[t].meanwhile # "shutdown" => walk[t].captured <= 1
==============================================================================
