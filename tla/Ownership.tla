------------------------------ MODULE Ownership ------------------------------
(****************************************************************************)
(* What the runtime changes in the host's logging tree, and gives back: the *)
(* levels ("gates") of the root logger and of the loggers with a package    *)
(* rule, and the root's handlers.  core/service/runtime.py, _reconcile and  *)
(* its callers.                                                             *)
(*                                                                          *)
(* Transitions are serialised (Runtime, lock), so each is one action; the   *)
(* host sets levels and adds or removes handlers between them.  A           *)
(* transition that fails changes nothing.  Handlers are sets: their order   *)
(* is left to Dispatch.                                                     *)
(****************************************************************************)
EXTENDS Naturals

CONSTANTS Root,       \* the root logger
          Names,      \* loggers that can have a package rule
          Levels,     \* the levels loggers can have
          RuleLevels, \* the thresholds a rule can give
          Omitted,    \* no rule
          NoGate,     \* a logger whose level the package has not set
          Unknown,    \* a level the host chose and nobody can see
          Foreign,    \* the host's root handlers
          Owned       \* the dispatch handler

Loggers  == Names \union {Root}
Handlers == Foreign \union {Owned}
Gates    == [baseline : Levels, owned : Levels]
Rules    == [Names -> RuleLevels \union {Omitted}]

ASSUME LoggerAssumption  == Root \notin Names
ASSUME LevelAssumption   == {0, 1} \subseteq Levels
ASSUME SpecialAssumption == /\ Omitted \notin RuleLevels
                            /\ NoGate \notin Gates
                            /\ Unknown \notin Levels
                            /\ Owned \notin Foreign

VARIABLES
    phase,     \* "fresh", "active" (a snapshot is published) or "stopped"
    manage,    \* manageRootLevel
    replace,   \* rootHandlerPolicy is "replace"
    environ,   \* package rules of the environment, as last read
    rules,     \* runtime package rules, kept while stopped
    level,     \* logger.level
    gates,     \* _gates: the level before ours, and ours
    handlers,  \* root.handlers
    detached,  \* _detached
    hostLevel, \* what the host last chose for a logger, as far as one can see
    hostAdded  \* the handlers the host added and has not removed

config == <<phase, manage, replace, environ, rules>>
tree   == <<level, gates, handlers, detached>>
host   == <<hostLevel, hostAdded>>
vars   == <<phase, manage, replace, environ, rules, level, gates, handlers,
            detached, hostLevel, hostAdded>>

TypeOk ==
    /\ phase \in {"fresh", "active", "stopped"}
    /\ manage \in BOOLEAN /\ replace \in BOOLEAN
    /\ environ \in Rules /\ rules \in Rules
    /\ level \in [Loggers -> Levels]
    /\ gates \in [Loggers -> Gates \union {NoGate}]
    /\ handlers \subseteq Handlers
    /\ detached \subseteq Foreign
    /\ hostLevel \in [Loggers -> Levels \union {Unknown}]
    /\ hostAdded \subseteq Foreign

(* Whatever the host has set up before the first use. *)
Init ==
    /\ phase = "fresh"
    /\ manage = TRUE /\ replace = FALSE
    /\ environ \in Rules
    /\ rules = [n \in Names |-> Omitted]
    /\ level \in [Loggers -> Levels]
    /\ gates = [l \in Loggers |-> NoGate]
    /\ handlers \in SUBSET Foreign
    /\ detached = {}
    /\ hostLevel = level /\ hostAdded = handlers

Active == phase = "active"

(* build_config: a runtime rule masks the environment's for the same name.  *)
Merged(env, run) == [n \in Names |-> IF run[n] # Omitted THEN run[n] ELSE env[n]]
Current == Merged(environ, rules)
Ruled(set) == {n \in Names : set[n] # Omitted}

(****************************************************************************)
(* Levels.                                                                  *)
(****************************************************************************)
Gated(l) == gates[l] # NoGate
Ours(l)  == Gated(l) /\ level[l] = gates[l].owned

(* The level the host is entitled to: the one before our gate, or the one   *)
(* it has set since.                                                        *)
BaselineAlways(l) == IF Gated(l) THEN gates[l].baseline ELSE level[l]
Baseline(l) == IF Ours(l) THEN gates[l].baseline ELSE level[l]

(* NOTSET for the root, NAMED_CREATION_GATE_INT for a rule's logger. *)
GateLevel(l) == IF l = Root THEN 0 ELSE 1

(* _install_gate and _restore_gate, for all the loggers of a transition. *)
KeepGates(install, restore) ==
    gates' = [l \in Loggers |->
                IF l \in install THEN [baseline |-> Baseline(l), owned |-> GateLevel(l)]
                ELSE gates[l]]
SetGates(install, restore) ==
    gates' = [l \in Loggers |->
                IF l \in install THEN [baseline |-> Baseline(l), owned |-> GateLevel(l)]
                ELSE IF l \in restore THEN NoGate ELSE gates[l]]
SetLevels(install, restore) ==
    level' = [l \in Loggers |->
                IF l \in install THEN GateLevel(l)
                ELSE IF l \in restore THEN Baseline(l) ELSE level[l]]
Regate(install, restore) == SetGates(install, restore) /\ SetLevels(install, restore)

(****************************************************************************)
(* _update, from a snapshot (or none) to the next.                          *)
(****************************************************************************)
(* The rules and settings of the snapshot to be replaced. *)
OldRules == [n \in Names |-> IF Active THEN Current[n] ELSE Omitted]
OldManage  == Active /\ manage
OldReplace == Active /\ replace

InstallsAll(man, set, authorized) == {l \in Loggers : l = Root /\ man} \union Ruled(set)
Installs(man, set, authorized) ==
    {l \in Loggers : l = Root /\ man /\ ~OldManage}
        \union {n \in Ruled(set) : n \in authorized \/ OldRules[n] # set[n]}
RestoresRoot(man, set) == {l \in Loggers : l = Root /\ ~man}
Restores(man, set) == {l \in Loggers : l = Root /\ ~man} \union (Ruled(OldRules) \ Ruled(set))

(* Entering the replacement policy detaches every root handler but ours;    *)
(* leaving it puts them back (addHandler skips one that is there).          *)
DetachAgain(repl) ==
    IF repl THEN /\ detached' = handlers \ {Owned}
                 /\ handlers' = {Owned}
    ELSE /\ detached' = {} /\ handlers' = handlers \union detached \union {Owned}
DetachOwn(repl) ==
    IF repl /\ ~OldReplace
    THEN detached' = detached \union handlers /\ handlers' = {Owned}
    ELSE IF ~repl /\ OldReplace
    THEN detached' = {} /\ handlers' = handlers \union detached
    ELSE UNCHANGED detached /\ handlers' = handlers \union (IF Active THEN {} ELSE {Owned})
SwapHandlers(repl) ==
    LET attach == IF Active THEN {} ELSE {Owned} IN
    IF repl /\ ~OldReplace
    THEN /\ detached' = detached \union (handlers \ {Owned})
         /\ handlers' = (handlers \intersect {Owned}) \union attach
    ELSE IF ~repl /\ OldReplace
    THEN detached' = {} /\ handlers' = handlers \union detached
    ELSE UNCHANGED detached /\ handlers' = handlers \union attach

Update(man, repl, env, run, authorized) ==
    LET set == Merged(env, run) IN
    /\ Regate(Installs(man, set, authorized), Restores(man, set))
    /\ SwapHandlers(repl)
    /\ phase' = "active"
    /\ manage' = man /\ replace' = repl /\ environ' = env /\ rules' = run
    /\ UNCHANGED host

(* ensure: the first facade call. *)
FirstUse ==
    /\ phase = "fresh"
    /\ Update(manage, replace, environ, rules, {})

(* configure, with or without reloadEnvironment. *)
Configure ==
    \E man, repl \in BOOLEAN, env \in Rules :
        Update(man, repl, env, rules, {})

(* setPackageLevel and resetPackageLevel: a change of the rule authorizes   *)
(* its gate again; a stopped runtime only remembers the rule.               *)
PackageRule ==
    \E n \in Names, value \in RuleLevels \union {Omitted} :
        LET run == [rules EXCEPT ![n] = value]
            authorized == IF rules[n] # value THEN {n} ELSE {} IN
        IF phase = "stopped"
        THEN rules' = run /\ UNCHANGED <<phase, manage, replace, environ, tree, host>>
        ELSE Update(manage, replace, environ, run, authorized)

(* shutdown: our handler goes, detached handlers come back, gates lift. *)
Shutdown ==
    /\ phase' = "stopped"
    /\ handlers' = (handlers \ {Owned}) \union detached
    /\ detached' = {}
    /\ Regate({}, {l \in Loggers : Gated(l)})
    /\ UNCHANGED <<manage, replace, environ, rules, host>>

(****************************************************************************)
(* The host.                                                                *)
(****************************************************************************)
(* Choosing exactly the level of our gate cannot be told from the gate. *)
HostSetsLevel(l, v) ==
    /\ level' = [level EXCEPT ![l] = v]
    /\ hostLevel' = [hostLevel EXCEPT
                       ![l] = IF Gated(l) /\ v = gates[l].owned THEN Unknown ELSE v]
    /\ UNCHANGED <<config, gates, handlers, detached, hostAdded>>

HostAddsHandler(h) ==
    /\ handlers' = handlers \union {h}
    /\ hostAdded' = hostAdded \union {h}
    /\ UNCHANGED <<config, level, gates, detached, hostLevel>>

(* Removing any root handler, ours too (basicConfig with force). *)
HostRemovesHandler(h) ==
    /\ h \in handlers
    /\ handlers' = handlers \ {h}
    /\ hostAdded' = hostAdded \ {h}
    /\ UNCHANGED <<config, level, gates, detached, hostLevel>>

HostStep == \/ \E l \in Loggers, v \in Levels : HostSetsLevel(l, v)
            \/ \E h \in Foreign : HostAddsHandler(h)
            \/ \E h \in Handlers : HostRemovesHandler(h)

Next == FirstUse \/ Configure \/ PackageRule \/ Shutdown \/ HostStep

Spec == Init /\ [][Next]_vars

(****************************************************************************)
(* Properties.                                                              *)
(****************************************************************************)
(* The package owns exactly the gates its configuration asks for, and none  *)
(* while it is not active: a rule that disappears, root management that is  *)
(* turned off and shutdown all lift theirs, also after restarts.            *)
GatesMatch ==
    {l \in Loggers : Gated(l)} =
        IF Active THEN {l \in Loggers : l = Root /\ manage} \union Ruled(Current) ELSE {}

(* Whenever the gates are lifted the host gets back the level it had, or    *)
(* the one it has chosen since: no sequence of rule changes, restarts and   *)
(* host changes makes the package remember one of its own levels.           *)
HostLevelKept == \A l \in Loggers :
    hostLevel[l] # Unknown => Baseline(l) = hostLevel[l]

(* A handler the host added and has not removed is on the root or waits to  *)
(* be put back, and it waits only while the replacement policy is in force. *)
HandlersKept == /\ hostAdded \subseteq handlers \union detached
                /\ detached # {} => Active /\ replace
                /\ Owned \in handlers => Active

(* Under the replacement policy a handler is detached only when the policy  *)
(* comes into force; what the host adds later stays.                        *)
LateHandlersStay == [][Active /\ replace =>
    \A h \in Foreign : h \in handlers /\ h \notin handlers' => h \notin hostAdded']_vars

(* A level the host set over our gate is not overwritten by a transition    *)
(* that leaves the logger's rule, and the management of the root, alone.    *)
HostChangeRespected == [][\A l \in Loggers :
    Gated(l) /\ ~Ours(l) /\ level'[l] # level[l] =>
        \/ HostStep
        \/ l \in Names /\ (Current'[l] # Current[l] \/ rules'[l] # rules[l])]_vars
==============================================================================
