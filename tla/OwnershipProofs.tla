--------------------------- MODULE OwnershipProofs ---------------------------
(****************************************************************************)
(* The properties of Ownership, for any loggers, levels and handlers, and   *)
(* that Dispatch, with its list and its records, implements Ownership.      *)
(****************************************************************************)
EXTENDS Dispatch, ListLemmas, FiniteSetTheorems

OwnershipInv == TypeOk /\ GatesMatch /\ HostLevelKept /\ HandlersKept

LEMMA OwnershipInit == Init => OwnershipInv
<1> SUFFICES ASSUME Init PROVE OwnershipInv
  OBVIOUS
<1>1. TypeOk
  BY DEF Init, TypeOk, Rules, Handlers
<1>2. GatesMatch
  BY DEF Init, GatesMatch, Gated, Active
<1>3. HostLevelKept
  BY DEF Init, HostLevelKept, Baseline, Ours, Gated
<1>4. HandlersKept
  BY SpecialAssumption DEF Init, HandlersKept
<1> QED
  BY <1>1, <1>2, <1>3, <1>4 DEF OwnershipInv

(****************************************************************************)
(* Lemmas about the gates.                                                  *)
(****************************************************************************)
LEMMA BaselineType ==
    ASSUME TypeOk, NEW l \in Loggers
    PROVE  Baseline(l) \in Levels /\ GateLevel(l) \in Levels
BY LevelAssumption DEF TypeOk, Baseline, Ours, Gated, Gates, GateLevel

(* Setting and lifting gates keeps types, and keeps what lifting them all   *)
(* would give back.                                                         *)
LEMMA RegateKeeps ==
    ASSUME TypeOk, NEW install, NEW restore, Regate(install, restore)
    PROVE  /\ level' \in [Loggers -> Levels]
           /\ gates' \in [Loggers -> Gates \union {NoGate}]
           /\ \A l \in Loggers : Baseline(l)' = Baseline(l)
           /\ \A l \in Loggers : Gated(l)' <=> l \in install \/ (Gated(l) /\ l \notin restore)
<1>1. \A l \in Loggers : [baseline |-> Baseline(l), owned |-> GateLevel(l)] \in Gates
  BY BaselineType DEF Gates
<1>2. /\ gates' = [l \in Loggers |->
                     IF l \in install THEN [baseline |-> Baseline(l), owned |-> GateLevel(l)]
                     ELSE IF l \in restore THEN NoGate ELSE gates[l]]
      /\ level' = [l \in Loggers |->
                     IF l \in install THEN GateLevel(l)
                     ELSE IF l \in restore THEN Baseline(l) ELSE level[l]]
  BY DEF Regate, SetGates, SetLevels
<1>3. level' \in [Loggers -> Levels]
  BY <1>2, BaselineType DEF TypeOk
<1>4. gates' \in [Loggers -> Gates \union {NoGate}]
  BY <1>1, <1>2 DEF TypeOk
<1>5. ASSUME NEW l \in Loggers PROVE Baseline(l)' = Baseline(l)
  <2>1. CASE l \in install
    <3>1. gates'[l] = [baseline |-> Baseline(l), owned |-> GateLevel(l)] /\ level'[l] = GateLevel(l)
      BY <1>2, <2>1
    <3>2. gates'[l] # NoGate
      BY <1>1, <3>1, SpecialAssumption
    <3> QED
      BY <3>1, <3>2 DEF Baseline, Ours, Gated
  <2>2. CASE l \notin install /\ l \in restore
    <3>1. gates'[l] = NoGate /\ level'[l] = Baseline(l)
      BY <1>2, <2>2
    <3> QED
      BY <3>1 DEF Baseline, Ours, Gated
  <2>3. CASE l \notin install /\ l \notin restore
    <3>1. gates'[l] = gates[l] /\ level'[l] = level[l]
      BY <1>2, <2>3
    <3> QED
      BY <3>1 DEF Baseline, Ours, Gated
  <2> QED
    BY <2>1, <2>2, <2>3
<1>6. ASSUME NEW l \in Loggers
      PROVE  Gated(l)' <=> l \in install \/ (Gated(l) /\ l \notin restore)
  <2>1. gates'[l] = IF l \in install THEN [baseline |-> Baseline(l), owned |-> GateLevel(l)]
                    ELSE IF l \in restore THEN NoGate ELSE gates[l]
    BY <1>2
  <2>2. [baseline |-> Baseline(l), owned |-> GateLevel(l)] # NoGate
    BY <1>1, SpecialAssumption
  <2>3. CASE l \in install
    <3>1. gates'[l] = [baseline |-> Baseline(l), owned |-> GateLevel(l)]
      BY <2>1, <2>3
    <3>2. gates'[l] # NoGate
      BY <2>2, <3>1
    <3> QED
      BY <2>3, <3>2 DEF Gated
  <2>4. CASE l \notin install
    BY <2>1, <2>4 DEF Gated
  <2> QED
    BY <2>3, <2>4
<1> QED
  BY <1>3, <1>4, <1>5, <1>6

LEMMA MergedType ==
    ASSUME NEW env \in Rules, NEW run \in Rules
    PROVE  Merged(env, run) \in Rules
BY DEF Merged, Rules

(****************************************************************************)
(* Transitions.                                                             *)
(****************************************************************************)
LEMMA UpdateKeeps ==
    ASSUME OwnershipInv, NEW man \in BOOLEAN, NEW repl \in BOOLEAN,
           NEW env \in Rules, NEW run \in Rules, NEW authorized \in SUBSET Names,
           Update(man, repl, env, run, authorized)
    PROVE  OwnershipInv'
<1> DEFINE set == Merged(env, run)
<1> DEFINE install == Installs(man, set, authorized)
<1> DEFINE restore == Restores(man, set)
<1>1. /\ Regate(install, restore) /\ SwapHandlers(repl) /\ phase' = "active"
      /\ manage' = man /\ replace' = repl /\ environ' = env /\ rules' = run
      /\ UNCHANGED host
  BY DEF Update
<1>2. /\ level' \in [Loggers -> Levels] /\ gates' \in [Loggers -> Gates \union {NoGate}]
      /\ \A l \in Loggers : Baseline(l)' = Baseline(l)
      /\ \A l \in Loggers : Gated(l)' <=> l \in install \/ (Gated(l) /\ l \notin restore)
  BY <1>1, RegateKeeps DEF OwnershipInv
<1>3. set \in Rules /\ OldRules \in Rules
  BY MergedType DEF OwnershipInv, TypeOk, OldRules, Current, Rules
<1>4. /\ detached' \subseteq Foreign /\ handlers' \subseteq Handlers
      /\ hostAdded \subseteq handlers' \union detached'
      /\ detached' # {} => repl
  BY <1>1, SpecialAssumption DEF SwapHandlers, OwnershipInv, TypeOk, HandlersKept, Handlers,
     OldReplace, Active
<1>5. TypeOk'
  BY <1>1, <1>2, <1>4 DEF OwnershipInv, TypeOk, host
<1>6. HostLevelKept'
  BY <1>1, <1>2 DEF OwnershipInv, HostLevelKept, host
<1>7. HandlersKept'
  BY <1>1, <1>4 DEF HandlersKept, Active, host
<1>8. GatesMatch'
  <2>1. Current' = set /\ Active' /\ manage' = man
    BY <1>1 DEF Current, Active
  <2>2. ASSUME NEW l \in Loggers
        PROVE  Gated(l)' <=> (l = Root /\ man) \/ l \in Ruled(set)
    <3>1. CASE l = Root
      <4>1. l \notin Names
        BY <3>1, LoggerAssumption
      <4>2. /\ l \in install <=> man /\ ~OldManage
            /\ l \in restore <=> ~man
            /\ l \notin Ruled(set)
        BY <3>1, <4>1 DEF Installs, Restores, Ruled
      <4>3. OldManage => Gated(l)
        BY <3>1, <4>1 DEF OldManage, OwnershipInv, GatesMatch, Active
      <4> QED
        BY <1>2, <3>1, <4>2, <4>3
    <3>2. CASE l # Root
      <4>1. l \in Names
        BY <3>2 DEF Loggers
      <4>2. /\ l \in install <=> l \in Ruled(set) /\ (l \in authorized \/ OldRules[l] # set[l])
            /\ l \in restore <=> l \in Ruled(OldRules) /\ l \notin Ruled(set)
        BY <3>2, <4>1 DEF Installs, Restores
      <4>3. Gated(l) <=> l \in Ruled(OldRules)
        BY <3>2, <4>1 DEF OwnershipInv, GatesMatch, Ruled, OldRules, Active
      <4>4. /\ l \in Ruled(set) <=> set[l] # Omitted
            /\ l \in Ruled(OldRules) <=> OldRules[l] # Omitted
        BY <4>1 DEF Ruled
      <4> QED
        BY <1>2, <3>2, <4>2, <4>3, <4>4
    <3> QED
      BY <3>1, <3>2
  <2>3. Ruled(set) \subseteq Loggers
    BY DEF Ruled, Loggers
  <2>4. {l \in Loggers : Gated(l)'} = {l \in Loggers : l = Root /\ man} \union Ruled(set)
    BY <2>2, <2>3
  <2> QED
    BY <2>1, <2>4 DEF GatesMatch, Ruled
<1> QED
  BY <1>5, <1>6, <1>7, <1>8 DEF OwnershipInv

LEMMA PackageRuleUpdates ==
    ASSUME OwnershipInv, PackageRule
    PROVE  \/ /\ phase = "stopped" /\ rules' \in Rules
              /\ UNCHANGED <<phase, manage, replace, environ, tree, host>>
           \/ \E n \in Names, run \in Rules :
                Update(manage, replace, environ, run, IF rules[n] # run[n] THEN {n} ELSE {})
<1>1. PICK n \in Names, value \in RuleLevels \union {Omitted} :
        LET run == [rules EXCEPT ![n] = value]
            authorized == IF rules[n] # value THEN {n} ELSE {} IN
        IF phase = "stopped"
        THEN rules' = run /\ UNCHANGED <<phase, manage, replace, environ, tree, host>>
        ELSE Update(manage, replace, environ, run, authorized)
  BY DEF PackageRule
<1> DEFINE run == [rules EXCEPT ![n] = value]
<1>2. run \in Rules /\ run[n] = value
  BY DEF OwnershipInv, TypeOk, Rules
<1> QED
  BY <1>1, <1>2

LEMMA ShutdownKeeps == ASSUME OwnershipInv, Shutdown PROVE OwnershipInv'
<1> DEFINE lifted == {l \in Loggers : Gated(l)}
<1>1. /\ Regate({}, lifted) /\ phase' = "stopped" /\ UNCHANGED <<manage, replace, environ, rules>>
      /\ UNCHANGED host
  BY DEF Shutdown
<1>2. /\ level' \in [Loggers -> Levels] /\ gates' \in [Loggers -> Gates \union {NoGate}]
      /\ \A l \in Loggers : Baseline(l)' = Baseline(l)
      /\ \A l \in Loggers : ~Gated(l)'
  BY <1>1, RegateKeeps DEF OwnershipInv
<1>3. TypeOk'
  BY <1>1, <1>2 DEF OwnershipInv, TypeOk, host, Shutdown, Handlers
<1>4. GatesMatch'
  BY <1>1, <1>2 DEF GatesMatch, Active
<1>5. HostLevelKept'
  BY <1>1, <1>2 DEF OwnershipInv, HostLevelKept, host
<1>6. HandlersKept'
  BY <1>1, SpecialAssumption DEF OwnershipInv, TypeOk, HandlersKept, host, Shutdown
<1> QED
  BY <1>3, <1>4, <1>5, <1>6 DEF OwnershipInv

LEMMA HostKeeps == ASSUME OwnershipInv, HostStep PROVE OwnershipInv'
<1>1. ASSUME NEW l \in Loggers, NEW v \in Levels, HostSetsLevel(l, v) PROVE OwnershipInv'
  <2>1. TypeOk'
    BY <1>1 DEF HostSetsLevel, OwnershipInv, TypeOk, config
  <2>2. GatesMatch'
    BY <1>1 DEF HostSetsLevel, OwnershipInv, GatesMatch, Gated, Active, Current, Ruled, config
  <2>3. ASSUME NEW k \in Loggers, hostLevel'[k] # Unknown PROVE Baseline(k)' = hostLevel'[k]
    <3>1. gates' = gates
      BY <1>1 DEF HostSetsLevel
    <3>2. CASE k = l
      <4>1. /\ level'[k] = v
            /\ hostLevel'[k] = IF Gated(l) /\ v = gates[l].owned THEN Unknown ELSE v
        BY <1>1, <3>2 DEF HostSetsLevel, OwnershipInv, TypeOk
      <4>2. ~(Gated(k) /\ v = gates[k].owned) /\ hostLevel'[k] = v
        BY <2>3, <3>2, <4>1
      <4> QED
        BY <3>1, <4>1, <4>2 DEF Baseline, Ours, Gated
    <3>3. CASE k # l
      <4>1. level'[k] = level[k] /\ hostLevel'[k] = hostLevel[k]
        BY <1>1, <3>3 DEF HostSetsLevel, OwnershipInv, TypeOk
      <4> QED
        BY <2>3, <3>1, <4>1 DEF OwnershipInv, HostLevelKept, Baseline, Ours, Gated
    <3> QED
      BY <3>2, <3>3
  <2>4. HostLevelKept'
    BY <2>3 DEF HostLevelKept
  <2>5. HandlersKept'
    BY <1>1 DEF HostSetsLevel, OwnershipInv, HandlersKept, Active, config
  <2> QED
    BY <2>1, <2>2, <2>4, <2>5 DEF OwnershipInv
<1>2. ASSUME NEW h \in Handlers, HostRemovesHandler(h) \/ (h \in Foreign /\ HostAddsHandler(h))
      PROVE  OwnershipInv'
  <2>1. UNCHANGED <<config, level, gates, detached, hostLevel>>
    BY <1>2 DEF HostRemovesHandler, HostAddsHandler
  <2>2. TypeOk'
    BY <1>2 DEF HostRemovesHandler, HostAddsHandler, OwnershipInv, TypeOk, config, Handlers
  <2>3. GatesMatch' /\ HostLevelKept'
    BY <2>1 DEF OwnershipInv, GatesMatch, HostLevelKept, Gated, Baseline, Ours, Active, Current,
                Ruled, config
  <2>4. HandlersKept'
    BY <1>2, SpecialAssumption
    DEF HostRemovesHandler, HostAddsHandler, OwnershipInv, HandlersKept, Active, config
  <2> QED
    BY <2>2, <2>3, <2>4 DEF OwnershipInv
<1> QED
  BY <1>1, <1>2 DEF HostStep, Handlers

LEMMA OwnershipNext == ASSUME OwnershipInv, [Next]_vars PROVE OwnershipInv'
<1>1. CASE FirstUse
  BY <1>1, UpdateKeeps DEF FirstUse, OwnershipInv, TypeOk
<1>2. CASE Configure
  <2>1. PICK man \in BOOLEAN, repl \in BOOLEAN, env \in Rules : Update(man, repl, env, rules, {})
    BY <1>2 DEF Configure
  <2> QED
    BY <2>1, UpdateKeeps DEF OwnershipInv, TypeOk
<1>3. CASE PackageRule
  <2>1. CASE /\ phase = "stopped" /\ rules' \in Rules
             /\ UNCHANGED <<phase, manage, replace, environ, tree, host>>
    BY <2>1 DEF OwnershipInv, TypeOk, GatesMatch, HostLevelKept, HandlersKept, Gated, Baseline,
                Ours, Active, tree, host
  <2>2. ASSUME NEW n \in Names, NEW run \in Rules,
               Update(manage, replace, environ, run, IF rules[n] # run[n] THEN {n} ELSE {})
        PROVE  OwnershipInv'
    BY <2>2, UpdateKeeps DEF OwnershipInv, TypeOk
  <2> QED
    BY <1>3, <2>1, <2>2, PackageRuleUpdates
<1>4. CASE Shutdown
  BY <1>4, ShutdownKeeps
<1>5. CASE HostStep
  BY <1>5, HostKeeps
<1>6. CASE UNCHANGED vars
  BY <1>6 DEF vars, OwnershipInv, TypeOk, GatesMatch, HostLevelKept, HandlersKept, Gated, Baseline,
              Ours, Active, Current, Ruled
<1> QED
  BY <1>1, <1>2, <1>3, <1>4, <1>5, <1>6 DEF Next

THEOREM OwnershipInvariance == Spec => []OwnershipInv
BY OwnershipInit, OwnershipNext, PTL DEF Spec

(* The runtime's and the host's variables keep their types (_reconcile and  *)
(* its callers).                                                            *)
THEOREM OwnershipTypes == Spec => []TypeOk
<1>1. OwnershipInv => TypeOk
  BY DEF OwnershipInv
<1> QED
  BY <1>1, OwnershipInvariance, PTL

(* The package's gates are exactly those of its configuration, and none is  *)
(* left when it stops (_reconcile, shutdown).                               *)
THEOREM GatesSafe == Spec => []GatesMatch
<1>1. OwnershipInv => GatesMatch
  BY DEF OwnershipInv
<1> QED
  BY <1>1, OwnershipInvariance, PTL

(* Lifting the gates always returns the host's own levels (_install_gate,   *)
(* _restore_gate).                                                          *)
THEOREM LevelsSafe == Spec => []HostLevelKept
<1>1. OwnershipInv => HostLevelKept
  BY DEF OwnershipInv
<1> QED
  BY <1>1, OwnershipInvariance, PTL

(* No handler of the host is lost (_reconcile, _restore_handlers).          *)
THEOREM HandlersSafe == Spec => []HandlersKept
<1>1. OwnershipInv => HandlersKept
  BY DEF OwnershipInv
<1> QED
  BY <1>1, OwnershipInvariance, PTL

(****************************************************************************)
(* Action properties.                                                       *)
(****************************************************************************)
LEMMA UpdateRespects ==
    ASSUME OwnershipInv, NEW man \in BOOLEAN, NEW repl \in BOOLEAN,
           NEW env \in Rules, NEW run \in Rules, NEW authorized \in SUBSET Names,
           Update(man, repl, env, run, authorized),
           NEW l \in Loggers, Gated(l), ~Ours(l), level'[l] # level[l]
    PROVE  l \in Names /\ (Current'[l] # Current[l] \/ l \in authorized)
<1> DEFINE set == Merged(env, run)
<1>1. Current' = set /\ Regate(Installs(man, set, authorized), Restores(man, set))
  BY DEF Update, Current
<1>2. l \in Installs(man, set, authorized)
  BY <1>1 DEF Regate, SetLevels, Baseline
<1>3. CASE l = Root
  <2>1. l \notin Names
    BY <1>3, LoggerAssumption
  <2>2. OldManage
    BY <1>3, <2>1 DEF OldManage, OwnershipInv, GatesMatch, Ruled
  <2> QED
    BY <1>2, <2>1, <2>2 DEF Installs, Ruled
<1>4. CASE l # Root
  <2>1. l \in Names /\ (l \in authorized \/ OldRules[l] # set[l])
    BY <1>2, <1>4 DEF Installs, Ruled
  <2>2. OldRules[l] = Current[l]
    BY <1>4, <2>1 DEF OwnershipInv, GatesMatch, OldRules
  <2> QED
    BY <1>1, <2>1, <2>2
<1> QED
  BY <1>3, <1>4

LEMMA NextRespects ==
    ASSUME OwnershipInv, [Next]_vars, NEW l \in Loggers,
           Gated(l), ~Ours(l), level'[l] # level[l]
    PROVE  \/ HostStep
           \/ l \in Names /\ (Current'[l] # Current[l] \/ rules'[l] # rules[l])
<1>1. CASE FirstUse
  BY <1>1, UpdateRespects DEF FirstUse, OwnershipInv, TypeOk
<1>2. CASE Configure
  <2>1. PICK man \in BOOLEAN, repl \in BOOLEAN, env \in Rules : Update(man, repl, env, rules, {})
    BY <1>2 DEF Configure
  <2>2. l \in Names /\ Current'[l] # Current[l]
    BY <2>1, UpdateRespects DEF OwnershipInv, TypeOk
  <2> QED
    BY <2>2
<1>3. CASE PackageRule
  <2>1. level' # level
    OBVIOUS
  <2>2. PICK n \in Names, run \in Rules :
          Update(manage, replace, environ, run, IF rules[n] # run[n] THEN {n} ELSE {})
    BY <1>3, <2>1, PackageRuleUpdates DEF tree
  <2>3. rules' = run
    BY <2>2 DEF Update
  <2>4. l \in Names /\ (Current'[l] # Current[l] \/ l \in IF rules[n] # run[n] THEN {n} ELSE {})
    BY <2>2, UpdateRespects DEF OwnershipInv, TypeOk
  <2> QED
    BY <2>3, <2>4
<1>4. CASE Shutdown
  BY <1>4 DEF Shutdown, Regate, SetLevels, Baseline
<1>5. CASE UNCHANGED vars
  BY <1>5 DEF vars
<1> QED
  BY <1>1, <1>2, <1>3, <1>4, <1>5 DEF Next

(* A level the host set over a gate survives every transition that does not *)
(* change that logger's rule (the authorized set of package_rule, the old   *)
(* rules of _reconcile).                                                    *)
THEOREM HostRespected == Spec => HostChangeRespected
<1>1. OwnershipInv /\ [Next]_vars =>
        [\A l \in Loggers : Gated(l) /\ ~Ours(l) /\ level'[l] # level[l] =>
            \/ HostStep
            \/ l \in Names /\ (Current'[l] # Current[l] \/ rules'[l] # rules[l])]_vars
  BY NextRespects
<1> QED
  BY <1>1, OwnershipInvariance, PTL DEF Spec, HostChangeRespected

(* A handler of the host that is detached was there when the replacement    *)
(* policy came into force (_reconcile).                                     *)
LEMMA NextKeepsLate ==
    ASSUME OwnershipInv, [Next]_vars, Active, replace,
           NEW h \in Foreign, h \in handlers, h \notin handlers'
    PROVE  h \notin hostAdded'
<1>1. ASSUME NEW man, NEW repl, NEW env, NEW run, NEW authorized,
             Update(man, repl, env, run, authorized)
      PROVE  FALSE
  BY <1>1, SpecialAssumption DEF Update, SwapHandlers, OldReplace
<1>2. ASSUME NEW n \in Names, NEW run \in Rules,
             Update(manage, replace, environ, run, IF rules[n] # run[n] THEN {n} ELSE {})
      PROVE  FALSE
  BY <1>2, <1>1
<1>3. CASE PackageRule
  BY <1>2, <1>3, PackageRuleUpdates DEF tree
<1>4. CASE FirstUse \/ Configure
  BY <1>1, <1>4 DEF FirstUse, Configure
<1>5. CASE Shutdown
  BY <1>5, SpecialAssumption DEF Shutdown
<1>6. CASE HostStep
  BY <1>6 DEF HostStep, HostSetsLevel, HostAddsHandler, HostRemovesHandler
<1>7. CASE UNCHANGED vars
  BY <1>7 DEF vars
<1> QED
  BY <1>3, <1>4, <1>5, <1>6, <1>7 DEF Next

THEOREM LateHandlersSafe == Spec => LateHandlersStay
<1>1. OwnershipInv /\ [Next]_vars =>
        [Active /\ replace => \A h \in Foreign :
            h \in handlers /\ h \notin handlers' => h \notin hostAdded']_vars
  BY NextKeepsLate
<1> QED
  BY <1>1, OwnershipInvariance, PTL DEF Spec, LateHandlersStay

(****************************************************************************)
(* Dispatch.                                                                *)
(****************************************************************************)
(* The list of root handlers, the calls of a transition and the records     *)
(* that pass change nothing Ownership speaks of: every step of Dispatch is  *)
(* one of Ownership or leaves its variables alone (_update, shutdown).      *)
THEOREM DispatchImplements == DispatchSpec => Spec
<1>1. DispatchInit => Init
  BY DEF DispatchInit
<1>2. [DispatchNext]_<<vars, loop>> => [Next]_vars
  <2>1. CASE Transition
    BY <2>1 DEF Transition, Begin, Next
  <2>2. CASE Call
    BY <2>2 DEF Call
  <2>3. CASE HostChange
    BY <2>3 DEF HostChange, HostStep, Next
  <2>4. ASSUME NEW t \in Emitters, Log(t) \/ Take(t) \/ Emit(t) \/ End(t)
        PROVE  UNCHANGED vars
    BY <2>4 DEF Log, Take, Emit, End, Goes
  <2> QED
    BY <2>1, <2>2, <2>3, <2>4 DEF DispatchNext
<1> QED
  BY <1>1, <1>2, PTL DEF DispatchSpec, Spec

(****************************************************************************)
(* Dispatch: the list, a transition half done, and the records on their way.*)
(****************************************************************************)
Op(op)  == {h \in Handlers : <<op, h>> \in ToSet(todo)}
Adds    == Op("add")
Removes == Op("remove")

Walks == [at : Nat, inside : BOOLEAN, captured : Nat, due : SUBSET Handlers,
          meanwhile : {"nothing", "removal", "shutdown"}]

LoopTypes ==
    /\ list \in Seq(Handlers) /\ IsInjective(list)
    /\ aside \in Seq(Foreign) /\ IsInjective(aside) /\ ToSet(aside) = detached
    /\ todo \in Seq({"remove", "add"} \X Handlers)
    /\ walk \in [Emitters -> Walks]

(* What the calls still to be made lead to, and our handler's, which comes  *)
(* last and adds what is not there.                                         *)
CallsLead ==
    /\ Adds \intersect Removes = {}
    /\ \A h \in Handlers :
          h \in handlers <=> h \in Adds \/ (h \in ToSet(list) /\ h \notin Removes)
    /\ Owned \in Adds => Owned \notin ToSet(list)
    /\ \A i \in DOMAIN todo : todo[i] = <<"add", Owned>> => i = Len(todo)

(* A walk knows of the calls under way that remove handlers.                *)
Knows(w) == w.at # 0 =>
    /\ Owned \in Removes => w.meanwhile = "shutdown"
    /\ Removes # {} => w.meanwhile # "nothing"

(* A walk that is in our handler, or has captured, has our handler behind   *)
(* it, for good unless the package is shut down.                            *)
OwnedBehind(w) == w.at # 0 /\ w.meanwhile # "shutdown" =>
    /\ w.captured \in {0, 1} /\ ~(w.inside /\ w.captured = 1)
    /\ w.inside \/ w.captured = 1 =>
          /\ Active /\ Owned \notin Adds
          /\ \A i \in DOMAIN list : list[i] = Owned => i < w.at

(* The handlers a walk has to reach are ahead of it.                        *)
DueAhead(w) == w.at # 0 /\ w.meanwhile = "nothing" =>
    \A h \in w.due : \E i \in DOMAIN list : w.at <= i /\ list[i] = h

WalkRight(w) == /\ Knows(w) /\ OwnedBehind(w) /\ DueAhead(w)
                /\ w.at = 0 => w = Quiet
WalksRight == \A t \in Emitters : WalkRight(walk[t])

DispatchInv == LoopTypes /\ CallsLead /\ WalksRight

LEMMA DispatchStart == ASSUME DispatchInit PROVE DispatchInv
<1>1. PICK set \in SUBSET Foreign : list \in SetToSeqs(set)
  BY DEF DispatchInit, SetToAllKPermutations
<1>2. Cardinality(set) \in Nat
  BY ForeignAssumption, FS_Subset, FS_CardinalityType
<1>3. /\ list \in [1..Cardinality(set) -> set]
      /\ \A i, j \in 1..Cardinality(set) : i # j => list[i] # list[j]
  BY <1>1 DEF SetToSeqs
<1>4. list \in Seq(Foreign) /\ IsInjective(list)
  BY <1>2, <1>3 DEF IsInjective
<1>5. /\ handlers = ToSet(list) /\ detached = {} /\ aside = << >> /\ todo = << >>
      /\ walk = [t \in Emitters |-> Quiet]
  BY DEF DispatchInit, Init
<1>6. Quiet \in Walks /\ Quiet.at = 0
  BY DEF Quiet, Walks
<1>7. LoopTypes
  <2>1. list \in Seq(Handlers)
    BY <1>4 DEF Handlers
  <2> QED
    BY <1>4, <1>5, <1>6, <2>1 DEF LoopTypes, ToSet, IsInjective
<1>8. CallsLead
  BY <1>5 DEF CallsLead, Adds, Removes, Op, ToSet
<1>9. WalksRight
  BY <1>5, <1>6 DEF WalksRight, WalkRight, Knows, OwnedBehind, DueAhead
<1> QED
  BY <1>7, <1>8, <1>9 DEF DispatchInv

(****************************************************************************)
(* A transition begins.                                                     *)
(****************************************************************************)
(* What transitions do to the handlers: who is put back was put aside, who  *)
(* is put aside was not there before, and only shutdown removes ours.       *)
Changes ==
    /\ handlers' \subseteq Handlers
    /\ detached' = {} => detached \subseteq handlers'
    /\ handlers' \ handlers \subseteq {Owned} \union (IF detached' = {} THEN detached ELSE {})
    /\ detached' # {} => /\ detached' = detached \union ((handlers \ handlers') \ {Owned})
                         /\ detached \intersect (handlers \ handlers') = {}
ActiveStays ==
    /\ Owned \in handlers => Owned \in handlers'
    /\ Active => Active' /\ Owned \notin handlers' \ handlers

LEMMA UpdateChanges ==
    ASSUME OwnershipInv, NEW man, NEW repl, NEW env, NEW run, NEW authorized,
           Update(man, repl, env, run, authorized)
    PROVE  Changes /\ ActiveStays
<1>1. SwapHandlers(repl) /\ Active'
  BY DEF Update, Active
<1>2. /\ handlers \subseteq Handlers /\ detached \subseteq Foreign /\ Owned \notin Foreign
      /\ Handlers = Foreign \union {Owned}
      /\ detached # {} => OldReplace
  BY SpecialAssumption DEF OwnershipInv, TypeOk, HandlersKept, OldReplace, Handlers
<1>3. Owned \in handlers => Owned \in handlers'
  BY <1>1, <1>2 DEF SwapHandlers
<1>4. Active => Owned \notin handlers' \ handlers
  BY <1>1, <1>2 DEF SwapHandlers
<1>5. handlers' \subseteq Handlers
  <2>1. handlers' \subseteq handlers \union detached \union {Owned}
    BY <1>1 DEF SwapHandlers
  <2> QED
    BY <1>2, <2>1
<1>6. detached' = {} => detached \subseteq handlers'
  BY <1>1, <1>2 DEF SwapHandlers
<1>7. handlers' \ handlers \subseteq {Owned} \union (IF detached' = {} THEN detached ELSE {})
  BY <1>1, <1>2 DEF SwapHandlers
<1>8. ASSUME detached' # {}
      PROVE  /\ detached' = detached \union ((handlers \ handlers') \ {Owned})
             /\ detached \intersect (handlers \ handlers') = {}
  <2>1. CASE repl /\ ~OldReplace
    <3>1. detached = {} /\ detached' = handlers \ {Owned} /\ handlers' \subseteq {Owned}
      <4>1. /\ detached' = detached \union (handlers \ {Owned})
            /\ handlers' = (handlers \intersect {Owned}) \union (IF Active THEN {} ELSE {Owned})
        BY <1>1, <2>1 DEF SwapHandlers
      <4>2. detached = {}
        BY <1>2, <2>1
      <4> QED
        BY <4>1, <4>2
    <3> QED
      BY <3>1
  <2>2. CASE ~(repl /\ ~OldReplace)
    <3>1. detached' = detached /\ handlers \subseteq handlers'
      BY <1>1, <1>8, <2>2 DEF SwapHandlers
    <3> QED
      BY <3>1
  <2> QED
    BY <2>1, <2>2
<1> QED
  BY <1>1, <1>3, <1>4, <1>5, <1>6, <1>7, <1>8 DEF Changes, ActiveStays

LEMMA TransitionChanges ==
    ASSUME OwnershipInv
    PROVE  /\ FirstUse \/ Configure \/ PackageRule => Changes /\ ActiveStays
           /\ Shutdown => Changes
<1>1. ASSUME FirstUse \/ Configure PROVE Changes /\ ActiveStays
  BY <1>1, UpdateChanges DEF FirstUse, Configure
<1>2. ASSUME PackageRule PROVE Changes /\ ActiveStays
  <2>1. CASE UNCHANGED <<phase, manage, replace, environ, tree, host>>
    BY <2>1 DEF tree, Changes, ActiveStays, OwnershipInv, TypeOk, Active
  <2>2. ASSUME NEW n \in Names, NEW run \in Rules,
               Update(manage, replace, environ, run, IF rules[n] # run[n] THEN {n} ELSE {})
        PROVE  Changes /\ ActiveStays
    BY <2>2, UpdateChanges
  <2> QED
    BY <1>2, <2>1, <2>2, PackageRuleUpdates
<1>3. ASSUME Shutdown PROVE Changes
  <2>1. handlers' = (handlers \ {Owned}) \union detached /\ detached' = {}
    BY <1>3 DEF Shutdown
  <2>2. handlers \subseteq Handlers /\ detached \subseteq Handlers
    BY DEF OwnershipInv, TypeOk, Handlers
  <2>3. handlers' \subseteq Handlers /\ detached \subseteq handlers'
    BY <2>1, <2>2
  <2>4. handlers' \ handlers \subseteq {Owned} \union (IF detached' = {} THEN detached ELSE {})
    BY <2>1
  <2>5. detached' = {}
    BY <2>1
  <2> QED
    BY <2>3, <2>4, <2>5 DEF Changes
<1> QED
  BY <1>1, <1>2, <1>3

LEMMA EachLen == ASSUME NEW A, NEW op, NEW s \in Seq(A) PROVE Len(Each(op, s)) = Len(s)
<1>1. Len(s) \in Nat /\ Each(op, s) = [i \in 1..Len(s) |-> <<op, s[i]>>]
  BY DEF Each
<1> QED
  BY <1>1

LEMMA EachFacts ==
    ASSUME NEW A, NEW op, NEW s \in Seq(A)
    PROVE  /\ Each(op, s) \in Seq({op} \X A)
           /\ \A o, x : <<o, x>> \in ToSet(Each(op, s)) <=> o = op /\ x \in ToSet(s)
<1>1. /\ Len(s) \in Nat /\ DOMAIN s = 1..Len(s)
      /\ Each(op, s) = [i \in 1..Len(s) |-> <<op, s[i]>>]
  BY DEF Each
<1>2. Each(op, s) \in Seq({op} \X A)
  <2>1. \A i \in 1..Len(s) : <<op, s[i]>> \in {op} \X A
    OBVIOUS
  <2> QED
    BY <1>1, <2>1
<1>3. \A o, x : <<o, x>> \in ToSet(Each(op, s)) <=> o = op /\ x \in ToSet(s)
  <2>1. ToSet(Each(op, s)) = {<<op, s[i]>> : i \in 1..Len(s)}
    BY <1>1 DEF ToSet
  <2>2. ToSet(s) = {s[i] : i \in 1..Len(s)}
    BY <1>1 DEF ToSet
  <2> QED
    BY <2>1, <2>2
<1> QED
  BY <1>2, <1>3

(* The calls on the list that a transition makes.                           *)
LEMMA CallsFacts ==
    ASSUME OwnershipInv, DispatchInv, todo = << >>, Changes
    PROVE  /\ Calls \in Seq({"remove", "add"} \X Handlers)
           /\ Removals \in Seq(Handlers) /\ IsInjective(Removals)
           /\ ToSet(list) = handlers /\ ToSet(Removals) = handlers \ handlers'
           /\ \A h \in Handlers : <<"remove", h>> \in ToSet(Calls) <=> h \in handlers \ handlers'
           /\ \A h \in Handlers : <<"add", h>> \in ToSet(Calls) <=>
                 (h \in detached /\ detached' = {}) \/ (h = Owned /\ h \in handlers' \ handlers)
           /\ \A i \in DOMAIN Calls : Calls[i] = <<"add", Owned>> => i = Len(Calls)
<1>1. /\ list \in Seq(Handlers) /\ IsInjective(list)
      /\ aside \in Seq(Foreign) /\ ToSet(aside) = detached
      /\ Handlers = Foreign \union {Owned} /\ Owned \notin Foreign
      /\ handlers \subseteq Handlers
  BY SpecialAssumption DEF DispatchInv, LoopTypes, Handlers, OwnershipInv, TypeOk
<1>2. ToSet(list) = handlers
  <2>1. Adds = {} /\ Removes = {}
    BY DEF Adds, Removes, Op, ToSet
  <2>2. ToSet(list) \subseteq Handlers
    BY <1>1 DEF ToSet
  <2>3. \A h \in Handlers : h \in handlers <=> h \in ToSet(list)
    BY <2>1 DEF DispatchInv, CallsLead
  <2> QED
    BY <1>1, <2>2, <2>3
<1>3. Removals \in Seq(Handlers) /\ IsInjective(Removals) /\ ToSet(Removals) = handlers \ handlers'
  <2> DEFINE out == Handlers \ handlers'
  <2> HIDE DEF out
  <2>1. /\ Only(list, out) \in Seq(Handlers \intersect out) /\ IsInjective(Only(list, out))
        /\ ToSet(Only(list, out)) = ToSet(list) \intersect out
    BY <1>1, OnlyFacts
  <2>2. Handlers \intersect out = out /\ handlers \intersect out = handlers \ handlers'
    BY <1>1 DEF out
  <2>3. out \subseteq Handlers
    BY DEF out
  <2>4. Only(list, out) \in Seq(Handlers)
    BY <2>1, <2>2, <2>3
  <2> QED
    BY <1>2, <2>1, <2>2, <2>4 DEF Removals, out
<1> DEFINE R == Each("remove", Removals)
<1> DEFINE X == Restored \o Attaches
<1> DEFINE E == Each("add", X)
<1>4. /\ Restored \in Seq(Foreign)
      /\ ToSet(Restored) = IF detached' = {} THEN detached ELSE {}
  BY <1>1 DEF Restored, ToSet
<1>5. /\ Attaches \in Seq({Owned}) /\ Len(Attaches) \in {0, 1}
      /\ ToSet(Attaches) = IF Owned \in handlers' \ handlers THEN {Owned} ELSE {}
  <2>1. ToSet(<<Owned>>) = {Owned} /\ ToSet(<< >>) = {}
    <3>1. DOMAIN <<Owned>> = {1} /\ DOMAIN << >> = {}
      OBVIOUS
    <3> QED
      BY <3>1 DEF ToSet
  <2>2. Attaches = IF Owned \in handlers' \ handlers THEN <<Owned>> ELSE << >>
    BY DEF Attaches
  <2>3. /\ <<Owned>> \in Seq({Owned}) /\ Len(<<Owned>>) = 1
        /\ << >> \in Seq({Owned}) /\ Len(<< >>) = 0
    OBVIOUS
  <2> QED
    BY <2>1, <2>2, <2>3
<1>6. /\ Restored \in Seq(Handlers) /\ Attaches \in Seq(Handlers)
  BY <1>1, <1>4, <1>5
<1>7. X \in Seq(Handlers) /\ ToSet(X) = ToSet(Restored) \union ToSet(Attaches)
  BY <1>6, ToSetConcat
<1>8. /\ R \in Seq({"remove"} \X Handlers) /\ Len(R) = Len(Removals)
      /\ \A o, h : <<o, h>> \in ToSet(R) <=> o = "remove" /\ h \in ToSet(Removals)
      /\ \A i \in DOMAIN Removals : R[i] = <<"remove", Removals[i]>>
  <2>1. Removals \in Seq(Handlers)
    BY <1>3
  <2>2. \A i \in DOMAIN Removals : R[i] = <<"remove", Removals[i]>>
    BY DEF Each
  <2>5. R \in Seq({"remove"} \X Handlers)
    BY <2>1, EachFacts
  <2>6. Len(R) = Len(Removals)
    BY <2>1, EachLen
  <2>3. R \in Seq({"remove"} \X Handlers) /\ Len(R) = Len(Removals)
    BY <2>5, <2>6
  <2>4. \A o, h : <<o, h>> \in ToSet(R) <=> o = "remove" /\ h \in ToSet(Removals)
    BY <2>1, EachFacts
  <2> HIDE DEF R
  <2> QED
    BY <2>2, <2>3, <2>4
<1>9. /\ E \in Seq({"add"} \X Handlers) /\ Len(E) = Len(X)
      /\ \A o, h : <<o, h>> \in ToSet(E) <=> o = "add" /\ h \in ToSet(X)
      /\ \A i \in DOMAIN X : E[i] = <<"add", X[i]>>
  <2> HIDE DEF X
  <2>1. X \in Seq(Handlers)
    BY <1>7
  <2>2. \A i \in DOMAIN X : E[i] = <<"add", X[i]>>
    BY DEF Each
  <2>5. E \in Seq({"add"} \X Handlers)
    BY <2>1, EachFacts
  <2>6. Len(E) = Len(X)
    BY <2>1, EachLen
  <2>3. E \in Seq({"add"} \X Handlers) /\ Len(E) = Len(X)
    BY <2>5, <2>6
  <2>4. \A o, h : <<o, h>> \in ToSet(E) <=> o = "add" /\ h \in ToSet(X)
    BY <2>1, EachFacts
  <2> HIDE DEF E
  <2> QED
    BY <2>2, <2>3, <2>4
<1>10. Calls = R \o E
  BY DEF Calls
<1> DEFINE Ops == {"remove", "add"} \X Handlers
<1>11. R \in Seq(Ops) /\ E \in Seq(Ops)
  <2>1. {"remove"} \X Handlers \subseteq Ops /\ {"add"} \X Handlers \subseteq Ops
    OBVIOUS
  <2> HIDE DEF Ops, R, E
  <2> QED
    BY <1>8, <1>9, <2>1
<1>12. R \o E \in Seq(Ops) /\ ToSet(R \o E) = ToSet(R) \union ToSet(E)
  <2> HIDE DEF Ops, R, E
  <2> QED
    BY <1>11, ToSetConcat
<1>13. \A h \in Handlers : <<"remove", h>> \in ToSet(Calls) <=> h \in handlers \ handlers'
  <2> HIDE DEF R, E, X, Ops
  <2>1. \A h : <<"remove", h>> \in ToSet(R) <=> h \in ToSet(Removals)
    BY <1>8
  <2>2. \A h : <<"remove", h>> \notin ToSet(E)
    BY <1>9
  <2> QED
    BY <1>3, <1>10, <1>12, <2>1, <2>2
<1>14. \A h \in Handlers : <<"add", h>> \in ToSet(Calls) <=>
          (h \in detached /\ detached' = {}) \/ (h = Owned /\ h \in handlers' \ handlers)
  <2> HIDE DEF R, E, X, Ops
  <2>1. \A h : <<"add", h>> \notin ToSet(R)
    BY <1>8
  <2>2. \A h : <<"add", h>> \in ToSet(E) <=> h \in ToSet(X)
    BY <1>9
  <2>3. ASSUME NEW h PROVE <<"add", h>> \in ToSet(Calls) <=> h \in ToSet(Restored) \union ToSet(Attaches)
    BY <1>7, <1>10, <1>12, <2>1, <2>2
  <2> QED
    BY <1>4, <1>5, <2>3
<1>15. ASSUME NEW i \in DOMAIN Calls, Calls[i] = <<"add", Owned>> PROVE i = Len(Calls)
  <2>1. /\ Len(R) \in Nat /\ Len(E) \in Nat /\ Len(Calls) = Len(R) + Len(E)
        /\ DOMAIN Calls = 1..(Len(R) + Len(E))
        /\ \A k \in 1..(Len(R) + Len(E)) : Calls[k] = IF k <= Len(R) THEN R[k] ELSE E[k - Len(R)]
    <3> HIDE DEF R, E, Ops
    <3> QED
      BY <1>10, <1>11, ConcatProperties
  <2>2. ~(i <= Len(R)) /\ i - Len(R) \in 1..Len(E)
    <3>1. i <= Len(R) => i \in DOMAIN Removals /\ R[i] = Calls[i]
      BY <1>3, <1>8, <2>1
    <3>2. ~(i <= Len(R))
      BY <1>8, <1>15, <3>1
    <3> QED
      BY <2>1, <3>2
  <2> DEFINE j == i - Len(R)
  <2>3. /\ Len(Restored) \in Nat /\ Len(X) = Len(Restored) + Len(Attaches)
        /\ \A k \in 1..Len(X) :
              X[k] = IF k <= Len(Restored) THEN Restored[k] ELSE Attaches[k - Len(Restored)]
    BY <1>6, ConcatProperties
  <2>4. j \in 1..Len(X) /\ X[j] = Owned
    <3> HIDE DEF X, R, E
    <3>1. Calls[i] = E[i - Len(R)]
      BY <2>1, <2>2
    <3>2. j \in DOMAIN X
      BY <1>7, <1>9, <2>2
    <3>3. E[j] = <<"add", X[j]>>
      BY <1>9, <3>2
    <3> QED
      BY <1>7, <1>15, <3>1, <3>2, <3>3
  <2>5. ~(j <= Len(Restored))
    <3> HIDE DEF X, j
    <3>1. j <= Len(Restored) => Restored[j] = Owned /\ j \in 1..Len(Restored)
      BY <2>3, <2>4
    <3>2. \A k \in 1..Len(Restored) : Restored[k] \in Foreign
      BY <1>4
    <3> QED
      BY <1>1, <3>1, <3>2
  <2>6. j = Len(X)
    <3> HIDE DEF X, j
    <3> QED
      BY <1>5, <2>3, <2>4, <2>5
  <2> HIDE DEF X, R, E
  <2> QED
    BY <1>9, <2>1, <2>6
<1> HIDE DEF R, E, X
<1> QED
  BY <1>2, <1>3, <1>10, <1>12, <1>13, <1>14, <1>15

LEMMA MeanwhileFacts ==
    ASSUME DispatchInv, NEW t \in Emitters, NEW what \in {"removal", "shutdown"}
    PROVE  /\ Meanwhile(t, what) \in Walks
           /\ walk[t].at = 0 => Meanwhile(t, what) = walk[t]
           /\ walk[t].at # 0 => Meanwhile(t, what).meanwhile # "nothing"
           /\ Meanwhile(t, what).meanwhile # "shutdown" =>
                 /\ walk[t].meanwhile # "shutdown"
                 /\ what = "shutdown" => walk[t].at = 0
           /\ Meanwhile(t, what).at = walk[t].at /\ Meanwhile(t, what).inside = walk[t].inside
           /\ Meanwhile(t, what).captured = walk[t].captured
<1>1. walk[t] \in Walks
  BY DEF DispatchInv, LoopTypes
<1>2. CASE walk[t].at = 0 \/ walk[t].meanwhile = "shutdown"
  BY <1>1, <1>2 DEF Meanwhile
<1>3. CASE ~(walk[t].at = 0 \/ walk[t].meanwhile = "shutdown")
  <2>1. Meanwhile(t, what) = [walk[t] EXCEPT !.meanwhile = what, !.due = {}]
    BY <1>3 DEF Meanwhile
  <2> QED
    BY <1>1, <1>3, <2>1 DEF Walks
<1> QED
  BY <1>2, <1>3

LEMMA BeginKeeps ==
    ASSUME OwnershipInv, DispatchInv, Changes, todo = << >>,
           NEW what \in {"removal", "shutdown"}, what = "removal" => ActiveStays,
           todo' = Calls, aside' = Aside, UNCHANGED list,
           walk' = [t \in Emitters |-> IF Removals # << >> \/ what = "shutdown"
                                       THEN Meanwhile(t, what) ELSE walk[t]]
    PROVE  DispatchInv'
<1>1. /\ todo' \in Seq({"remove", "add"} \X Handlers)
      /\ Removals \in Seq(Handlers) /\ IsInjective(Removals)
      /\ ToSet(list) = handlers /\ ToSet(Removals) = handlers \ handlers'
      /\ \A h \in Handlers : h \in Removes' <=> h \in handlers \ handlers'
      /\ \A h \in Handlers : h \in Adds' <=>
            (h \in detached /\ detached' = {}) \/ (h = Owned /\ h \in handlers' \ handlers)
      /\ \A i \in DOMAIN todo' : todo'[i] = <<"add", Owned>> => i = Len(todo')
  BY CallsFacts DEF Adds, Removes, Op
<1>2. /\ list \in Seq(Handlers) /\ IsInjective(list) /\ list' = list
      /\ aside \in Seq(Foreign) /\ IsInjective(aside) /\ ToSet(aside) = detached
      /\ Owned \in Handlers /\ Owned \notin Foreign /\ Handlers = Foreign \union {Owned}
      /\ detached \subseteq Handlers /\ Owned \notin detached
  BY SpecialAssumption DEF DispatchInv, LoopTypes, Handlers, OwnershipInv, TypeOk
<1>3. aside' \in Seq(Foreign) /\ IsInjective(aside') /\ ToSet(aside') = detached'
  <2>1. CASE detached' = {}
    <3>1. aside' = << >>
      BY <2>1 DEF Aside
    <3> QED
      BY <2>1, <3>1 DEF ToSet, IsInjective
  <2>2. CASE detached' # {}
    <3> DEFINE more == Only(Removals, Foreign)
    <3>1. more \in Seq(Handlers \intersect Foreign) /\ IsInjective(more)
          /\ ToSet(more) = (handlers \ handlers') \intersect Foreign
      BY <1>1, OnlyFacts
    <3>2. Handlers \intersect Foreign = Foreign
      BY <1>2
    <3>3. /\ ToSet(more) = (handlers \ handlers') \ {Owned}
          /\ detached' = detached \union ToSet(more) /\ detached \intersect ToSet(more) = {}
      <4>1. handlers \subseteq Handlers
        BY DEF OwnershipInv, TypeOk
      <4>2. ToSet(more) = (handlers \ handlers') \ {Owned}
        BY <1>2, <3>1, <4>1
      <4> QED
        BY <2>2, <4>2 DEF Changes
    <3>4. more \in Seq(Foreign)
      BY <3>1, <3>2
    <3> HIDE DEF more
    <3>5. aside' = aside \o more
      BY <2>2 DEF Aside, more
    <3> QED
      BY <1>2, <3>1, <3>3, <3>4, <3>5, ToSetConcat
  <2> QED
    BY <2>1, <2>2
<1>4. ASSUME NEW t \in Emitters
      PROVE  /\ walk'[t] \in Walks
             /\ walk'[t] = walk[t] \/ walk'[t] = Meanwhile(t, what)
             /\ Removals # << >> \/ what = "shutdown" => walk'[t] = Meanwhile(t, what)
  BY MeanwhileFacts DEF DispatchInv, LoopTypes
<1>5. LoopTypes'
  <2>1. walk' \in [Emitters -> Walks]
    BY <1>4
  <2> QED
    BY <1>1, <1>2, <1>3, <2>1 DEF LoopTypes
<1>6. CallsLead'
  <2>1. ASSUME NEW h \in Handlers
        PROVE  /\ ~(h \in Adds' /\ h \in Removes')
               /\ h \in handlers' <=> h \in Adds' \/ (h \in ToSet(list') /\ h \notin Removes')
    BY <1>1, <1>2 DEF Changes
  <2>2. Owned \in Adds' => Owned \notin ToSet(list')
    BY <1>1, <1>2
  <2>3. (Adds \intersect Removes = {})'
    BY <2>1 DEF Adds, Removes, Op
  <2> QED
    BY <1>1, <2>1, <2>2, <2>3 DEF CallsLead
<1>7. ASSUME NEW t \in Emitters PROVE WalkRight(walk[t])'
  <2>1. WalkRight(walk[t])
    BY DEF DispatchInv, WalksRight
  <2>2. /\ walk'[t].at = walk[t].at /\ walk'[t].inside = walk[t].inside
        /\ walk'[t].captured = walk[t].captured
        /\ walk'[t].meanwhile # "shutdown" => walk[t].meanwhile # "shutdown"
        /\ walk[t].at = 0 => walk'[t] = walk[t]
    BY <1>4, MeanwhileFacts
  <2>3. Removes' # {} \/ what = "shutdown" => walk'[t] = Meanwhile(t, what)
    <3>1. Removes' # {} => Removals # << >>
      <4>1. ToSet(<< >>) = {}
        BY DEF ToSet
      <4>2. Removes' \subseteq Handlers
        BY DEF Removes, Op
      <4> QED
        BY <1>1, <4>1, <4>2
    <3> QED
      BY <1>4, <3>1
  <2>4. walk'[t].at # 0 /\ walk'[t].meanwhile # "shutdown" => what = "removal" /\ ActiveStays
    BY <2>2, <2>3, MeanwhileFacts
  <2>5. Knows(walk[t])'
    <3> SUFFICES ASSUME walk'[t].at # 0
                 PROVE  /\ Owned \in Removes' => walk'[t].meanwhile = "shutdown"
                        /\ Removes' # {} => walk'[t].meanwhile # "nothing"
      BY DEF Knows
    <3>1. Owned \in Removes' => walk'[t].meanwhile = "shutdown"
      BY <1>1, <1>2, <2>4 DEF ActiveStays
    <3>2. Removes' # {} => walk'[t].meanwhile # "nothing"
      BY <2>2, <2>3, MeanwhileFacts
    <3> QED
      BY <3>1, <3>2
  <2>6. OwnedBehind(walk[t])'
    <3> SUFFICES ASSUME walk'[t].at # 0, walk'[t].meanwhile # "shutdown"
                 PROVE  /\ walk'[t].captured \in {0, 1} /\ ~(walk'[t].inside /\ walk'[t].captured = 1)
                        /\ walk'[t].inside \/ walk'[t].captured = 1 =>
                              /\ Active' /\ Owned \notin Adds'
                              /\ \A i \in DOMAIN list' : list'[i] = Owned => i < walk'[t].at
      BY DEF OwnedBehind
    <3>1. OwnedBehind(walk[t]) /\ walk[t].at # 0 /\ walk[t].meanwhile # "shutdown"
      BY <2>1, <2>2 DEF WalkRight
    <3>2. Active => Active' /\ Owned \notin Adds'
      BY <1>1, <1>2, <2>4 DEF ActiveStays
    <3> QED
      BY <1>2, <2>2, <3>1, <3>2 DEF OwnedBehind
  <2>7. DueAhead(walk[t])'
    <3>1. CASE walk'[t] = walk[t]
      BY <1>2, <2>1, <3>1 DEF WalkRight, DueAhead
    <3>2. CASE walk'[t] = Meanwhile(t, what)
      BY <2>2, <3>2, MeanwhileFacts DEF DueAhead
    <3> QED
      BY <1>4, <3>1, <3>2
  <2>8. (walk[t].at = 0 => walk[t] = Quiet)'
    BY <2>1, <2>2 DEF WalkRight, Quiet
  <2> QED
    BY <2>5, <2>6, <2>7, <2>8 DEF WalkRight
<1> QED
  BY <1>5, <1>6, <1>7 DEF DispatchInv, WalksRight

(****************************************************************************)
(* The list changes, by a call of the transition or by the host.            *)
(****************************************************************************)
LEMMA AttachedFacts ==
    ASSUME LoopTypes, NEW h \in Handlers
    PROVE  /\ Attached(h) \in Seq(Handlers) /\ IsInjective(Attached(h))
           /\ ToSet(Attached(h)) = ToSet(list) \union {h}
           /\ \A i \in DOMAIN list : i \in DOMAIN Attached(h) /\ Attached(h)[i] = list[i]
           /\ \A i \in DOMAIN Attached(h) : i \in DOMAIN list \/ Attached(h)[i] = h
<1>1. list \in Seq(Handlers) /\ IsInjective(list)
  BY DEF LoopTypes
<1>2. CASE h \in ToSet(list)
  BY <1>1, <1>2 DEF Attached
<1>3. CASE h \notin ToSet(list)
  <2>1. Attached(h) = Append(list, h)
    BY <1>3 DEF Attached
  <2>2. /\ DOMAIN list = 1..Len(list) /\ DOMAIN Append(list, h) = 1..(Len(list) + 1)
        /\ Len(list) \in Nat
        /\ \A i \in 1..(Len(list) + 1) :
              Append(list, h)[i] = IF i = Len(list) + 1 THEN h ELSE list[i]
    BY <1>1
  <2>3. /\ Append(list, h) \in Seq(Handlers) /\ IsInjective(Append(list, h))
        /\ ToSet(Append(list, h)) = ToSet(list) \union {h}
    BY <1>1, <1>3, ToSetAppend
  <2>4. \A i \in 1..Len(list) : i \in 1..(Len(list) + 1) /\ i # Len(list) + 1
    BY <2>2
  <2>5. \A i \in 1..(Len(list) + 1) : i \in 1..Len(list) \/ i = Len(list) + 1
    BY <2>2
  <2> QED
    BY <2>1, <2>2, <2>3, <2>4, <2>5
<1> QED
  BY <1>2, <1>3

(* Handlers that are added come last: no walk loses one or meets ours       *)
(* again.                                                                   *)
LEMMA AttachedWalks ==
    ASSUME LoopTypes, NEW h \in Handlers, list' = Attached(h),
           Removes' \subseteq Removes, Adds' \subseteq Adds, Active' <=> Active,
           NEW w \in Walks, WalkRight(w), h # Owned \/ Owned \in Adds
    PROVE  WalkRight(w)'
<1>1. /\ \A i \in DOMAIN list : i \in DOMAIN list' /\ list'[i] = list[i]
      /\ \A i \in DOMAIN list' : i \in DOMAIN list \/ list'[i] = h
  BY AttachedFacts
<1>2. Knows(w)'
  BY DEF WalkRight, Knows
<1>3. OwnedBehind(w)'
  BY <1>1 DEF WalkRight, OwnedBehind
<1>4. DueAhead(w)'
  BY <1>1 DEF WalkRight, DueAhead
<1> QED
  BY <1>2, <1>3, <1>4 DEF WalkRight, Quiet

(* Behind a handler that is removed the others move towards the front: a    *)
(* walk may miss one, but never meets one again.                            *)
LEMMA WithoutWalks ==
    ASSUME LoopTypes, NEW h \in Handlers, list' = Without(h),
           Removes' \subseteq Removes, Adds' \subseteq Adds, Active' <=> Active,
           NEW w \in Walks, NEW v \in Walks, WalkRight(w),
           w.at = 0 => v = w,
           v.at = w.at, v.inside = w.inside, v.captured = w.captured,
           v.meanwhile # "shutdown" => w.meanwhile # "shutdown",
           w.at # 0 => v.meanwhile # "nothing"
    PROVE  WalkRight(v)'
<1>1. \A i \in DOMAIN list' : \E j \in DOMAIN list : i <= j /\ list'[i] = list[j]
  BY RemoveFirstFacts DEF LoopTypes, Without
<1>2. Knows(v)'
  BY DEF WalkRight, Knows
<1>3. OwnedBehind(v)'
  <2> SUFFICES ASSUME w.at # 0, w.meanwhile # "shutdown"
               PROVE  /\ v.captured \in {0, 1} /\ ~(v.inside /\ v.captured = 1)
                      /\ v.inside \/ v.captured = 1 =>
                            /\ Active' /\ Owned \notin Adds'
                            /\ \A i \in DOMAIN list' : list'[i] = Owned => i < v.at
    BY DEF OwnedBehind
  <2>1. /\ v.captured \in {0, 1} /\ ~(v.inside /\ v.captured = 1)
        /\ v.inside \/ v.captured = 1 =>
              /\ Active /\ Owned \notin Adds
              /\ \A i \in DOMAIN list : list[i] = Owned => i < v.at
    BY DEF WalkRight, OwnedBehind
  <2>2. ASSUME v.inside \/ v.captured = 1, NEW i \in DOMAIN list', list'[i] = Owned PROVE i < v.at
    <3>1. PICK j \in DOMAIN list : i <= j /\ list'[i] = list[j]
      BY <1>1, <2>2
    <3>2. j < v.at
      BY <2>1, <2>2, <3>1
    <3>3. list \in Seq(Handlers) /\ list' \in Seq(Handlers)
      BY RemoveFirstFacts DEF LoopTypes, Without
    <3>4. i \in Nat /\ j \in Nat /\ v.at \in Nat
      BY <3>3 DEF Walks
    <3> QED
      BY <3>1, <3>2, <3>4
  <2> QED
    BY <2>1, <2>2
<1>4. DueAhead(v)'
  BY DEF DueAhead
<1> QED
  BY <1>2, <1>3, <1>4 DEF WalkRight, Quiet

LEMMA CallKeeps == ASSUME OwnershipInv, DispatchInv, Call PROVE DispatchInv'
<1> DEFINE Ops == {"remove", "add"} \X Handlers
<1>1. /\ todo \in Seq(Ops) /\ todo # << >> /\ todo' = Tail(todo)
      /\ UNCHANGED <<vars, aside, walk>>
      /\ list' = IF Head(todo)[1] = "add" THEN Attached(Head(todo)[2]) ELSE Without(Head(todo)[2])
  BY DEF Call, DispatchInv, LoopTypes
<1>2. PICK op \in {"remove", "add"}, h \in Handlers : Head(todo) = <<op, h>>
  <2>1. Head(todo) \in Ops
    <3> HIDE DEF Ops
    <3> QED
      BY <1>1, ToSetTail
  <2> QED
    BY <2>1
<1>3. /\ todo' \in Seq(Ops) /\ ToSet(todo) = {<<op, h>>} \union ToSet(todo')
      /\ Len(todo') = Len(todo) - 1 /\ todo[1] = <<op, h>> /\ 1 \in DOMAIN todo
      /\ \A i \in DOMAIN todo' : i + 1 \in DOMAIN todo /\ todo'[i] = todo[i + 1]
  <2> HIDE DEF Ops
  <2> QED
    BY <1>1, <1>2, ToSetTail
<1>4. /\ Adds' \subseteq Adds /\ Removes' \subseteq Removes
      /\ op = "add" => h \in Adds /\ Removes' = Removes
      /\ op = "remove" => h \in Removes /\ Adds' = Adds
      /\ \A g \in Handlers \ {h} : (g \in Adds' <=> g \in Adds) /\ (g \in Removes' <=> g \in Removes)
  BY <1>3 DEF Adds, Removes, Op
<1>5. \A i \in DOMAIN todo' : todo'[i] = <<"add", Owned>> => i = Len(todo')
  <2> SUFFICES ASSUME NEW i \in DOMAIN todo', todo'[i] = <<"add", Owned>> PROVE i = Len(todo')
    OBVIOUS
  <2>1. i + 1 = Len(todo)
    BY <1>3 DEF DispatchInv, CallsLead
  <2>2. i \in Nat /\ Len(todo) \in Nat
    <3> HIDE DEF Ops
    <3> QED
      BY <1>1, <1>3
  <2> QED
    BY <1>3, <2>1, <2>2
<1>6. LoopTypes /\ CallsLead /\ WalksRight
  BY DEF DispatchInv
<1>7. handlers' = handlers /\ detached' = detached /\ (Active' <=> Active)
  BY <1>1 DEF vars, Active
<1>8. CASE op = "add"
  <2>1. list' = Attached(h) /\ h \in Adds /\ Removes' = Removes
    BY <1>1, <1>2, <1>4, <1>8
  <2>2. /\ list' \in Seq(Handlers) /\ IsInjective(list')
        /\ ToSet(list') = ToSet(list) \union {h}
    BY <1>6, <2>1, AttachedFacts
  <2>3. LoopTypes'
    BY <1>1, <1>3, <1>6, <1>7, <2>2 DEF LoopTypes
  <2>4. \A g \in Handlers :
          g \in handlers' <=> g \in Adds' \/ (g \in ToSet(list') /\ g \notin Removes')
    <3> SUFFICES ASSUME NEW g \in Handlers
                 PROVE  g \in handlers' <=> g \in Adds' \/ (g \in ToSet(list') /\ g \notin Removes')
      OBVIOUS
    <3>1. CASE g = h
      BY <1>6, <1>7, <2>1, <2>2, <3>1 DEF CallsLead
    <3>2. CASE g # h
      BY <1>4, <1>6, <1>7, <2>1, <2>2, <3>2 DEF CallsLead
    <3> QED
      BY <3>1, <3>2
  <2>5. Owned \in Adds' => Owned \notin ToSet(list')
    <3> SUFFICES ASSUME Owned \in Adds' PROVE Owned \notin ToSet(list')
      OBVIOUS
    <3>1. PICK i \in DOMAIN todo' : todo'[i] = <<"add", Owned>>
      BY DEF Adds, Op, ToSet
    <3>2. i + 1 = Len(todo) /\ i \in 1..Len(todo')
      <4>1. DOMAIN todo' = 1..Len(todo')
        <5> HIDE DEF Ops
        <5> QED
          BY <1>3
      <4> QED
        BY <1>3, <1>6, <3>1, <4>1 DEF CallsLead
    <3>3. h # Owned
      <4>1. 1 # Len(todo)
        BY <3>2
      <4> QED
        BY <1>3, <1>6, <1>8, <4>1 DEF CallsLead
    <3> QED
      BY <1>4, <1>6, <2>2, <3>3 DEF CallsLead
  <2>6. CallsLead'
    <3>1. Adds' \intersect Removes' = {}
      BY <1>4, <1>6 DEF CallsLead
    <3> QED
      BY <1>5, <2>4, <2>5, <3>1 DEF CallsLead
  <2>7. ASSUME NEW t \in Emitters PROVE WalkRight(walk[t])'
    <3>1. PICK w \in Walks : w = walk[t]
      BY <1>6 DEF LoopTypes
    <3>2. WalkRight(w) /\ walk'[t] = w
      BY <1>1, <1>6, <3>1 DEF WalksRight
    <3>3. WalkRight(w)'
      BY <1>4, <1>6, <1>7, <2>1, <3>2, AttachedWalks
    <3> QED
      BY <3>2, <3>3
  <2> QED
    BY <2>3, <2>6, <2>7 DEF DispatchInv, WalksRight
<1>9. CASE op = "remove"
  <2>1. list' = Without(h) /\ h \in Removes /\ Adds' = Adds
    BY <1>1, <1>2, <1>4, <1>9
  <2>2. /\ list' \in Seq(Handlers) /\ IsInjective(list')
        /\ ToSet(list') = ToSet(list) \ {h}
    BY <1>6, <2>1, RemoveFirstFacts DEF LoopTypes, Without
  <2>3. LoopTypes'
    BY <1>1, <1>3, <1>6, <1>7, <2>2 DEF LoopTypes
  <2>4. \A g \in Handlers :
          g \in handlers' <=> g \in Adds' \/ (g \in ToSet(list') /\ g \notin Removes')
    <3> SUFFICES ASSUME NEW g \in Handlers
                 PROVE  g \in handlers' <=> g \in Adds' \/ (g \in ToSet(list') /\ g \notin Removes')
      OBVIOUS
    <3>1. CASE g = h
      BY <1>6, <1>7, <2>1, <2>2, <3>1 DEF CallsLead
    <3>2. CASE g # h
      BY <1>4, <1>6, <1>7, <2>1, <2>2, <3>2 DEF CallsLead
    <3> QED
      BY <3>1, <3>2
  <2>5. CallsLead'
    <3>1. Adds' \intersect Removes' = {}
      BY <1>4, <1>6 DEF CallsLead
    <3>2. Owned \in Adds' => Owned \notin ToSet(list')
      BY <1>6, <2>1, <2>2 DEF CallsLead
    <3> QED
      BY <1>5, <2>4, <3>1, <3>2 DEF CallsLead
  <2>6. ASSUME NEW t \in Emitters PROVE WalkRight(walk[t])'
    <3>1. PICK w \in Walks : w = walk[t]
      BY <1>6 DEF LoopTypes
    <3>2. WalkRight(w) /\ walk'[t] = w
      BY <1>1, <1>6, <3>1 DEF WalksRight
    <3>3. w.at # 0 => w.meanwhile # "nothing"
      BY <2>1, <3>2 DEF WalkRight, Knows
    <3>4. WalkRight(w)'
      BY <1>4, <1>6, <1>7, <2>1, <3>2, <3>3, WithoutWalks
    <3> QED
      BY <3>2, <3>4
  <2> QED
    BY <2>3, <2>5, <2>6 DEF DispatchInv, WalksRight
<1> QED
  BY <1>2, <1>8, <1>9

LEMMA HostChangeKeeps == ASSUME OwnershipInv, DispatchInv, HostChange PROVE DispatchInv'
<1>1. /\ LoopTypes /\ CallsLead /\ WalksRight
      /\ todo = << >> /\ todo' = todo /\ aside' = aside
  BY DEF DispatchInv, HostChange
<1>2. /\ Adds = {} /\ Removes = {} /\ Adds' = {} /\ Removes' = {}
  BY <1>1 DEF Adds, Removes, Op, ToSet
<1>3. ASSUME NEW l \in Loggers, NEW v \in Levels, HostSetsLevel(l, v), UNCHANGED <<list, walk>>
      PROVE  DispatchInv'
  <2>1. handlers' = handlers /\ detached' = detached /\ (Active' <=> Active)
    BY <1>3 DEF HostSetsLevel, config, Active
  <2>2. LoopTypes' /\ CallsLead'
    BY <1>1, <1>2, <1>3, <2>1 DEF LoopTypes, CallsLead
  <2>3. WalksRight'
    BY <1>1, <1>2, <1>3, <2>1 DEF WalksRight, WalkRight, Knows, OwnedBehind, DueAhead, Quiet
  <2> QED
    BY <2>2, <2>3 DEF DispatchInv
<1>4. ASSUME NEW h \in Foreign, HostAddsHandler(h), list' = Attached(h), UNCHANGED walk
      PROVE  DispatchInv'
  <2>1. /\ handlers' = handlers \union {h} /\ detached' = detached /\ (Active' <=> Active)
        /\ h \in Handlers /\ h # Owned
    BY <1>4, SpecialAssumption DEF HostAddsHandler, config, Active, Handlers
  <2>2. /\ list' \in Seq(Handlers) /\ IsInjective(list')
        /\ ToSet(list') = ToSet(list) \union {h}
    BY <1>1, <1>4, <2>1, AttachedFacts
  <2>3. LoopTypes'
    BY <1>1, <1>4, <2>1, <2>2 DEF LoopTypes
  <2>4. CallsLead'
    BY <1>1, <1>2, <2>1, <2>2 DEF CallsLead
  <2>5. ASSUME NEW t \in Emitters PROVE WalkRight(walk[t])'
    <3>1. PICK w \in Walks : w = walk[t]
      BY <1>1 DEF LoopTypes
    <3>2. WalkRight(w) /\ walk'[t] = w
      BY <1>1, <1>4, <3>1 DEF WalksRight
    <3>3. WalkRight(w)'
      BY <1>1, <1>2, <1>4, <2>1, <3>2, AttachedWalks
    <3> QED
      BY <3>2, <3>3
  <2> QED
    BY <2>3, <2>4, <2>5 DEF DispatchInv, WalksRight
<1>5. ASSUME NEW h \in Handlers, HostRemovesHandler(h), list' = Without(h),
             walk' = [t \in Emitters |-> Meanwhile(t, "removal")]
      PROVE  DispatchInv'
  <2>1. handlers' = handlers \ {h} /\ detached' = detached /\ (Active' <=> Active)
    BY <1>5 DEF HostRemovesHandler, config, Active
  <2>2. /\ list' \in Seq(Handlers) /\ IsInjective(list')
        /\ ToSet(list') = ToSet(list) \ {h}
    BY <1>1, <1>5, RemoveFirstFacts DEF LoopTypes, Without
  <2>3. walk' \in [Emitters -> Walks]
    BY <1>5, MeanwhileFacts
  <2>4. LoopTypes'
    BY <1>1, <2>1, <2>2, <2>3 DEF LoopTypes
  <2>5. CallsLead'
    BY <1>1, <1>2, <2>1, <2>2 DEF CallsLead
  <2>6. ASSUME NEW t \in Emitters PROVE WalkRight(walk[t])'
    <3>1. PICK w \in Walks : w = walk[t]
      BY <1>1 DEF LoopTypes
    <3>2. PICK v \in Walks : v = walk'[t] /\ v = Meanwhile(t, "removal")
      BY <1>5, <2>3
    <3>3. WalkRight(w)
      BY <1>1, <3>1 DEF WalksRight
    <3>4. /\ w.at = 0 => v = w
          /\ v.at = w.at /\ v.inside = w.inside /\ v.captured = w.captured
          /\ v.meanwhile # "shutdown" => w.meanwhile # "shutdown"
          /\ w.at # 0 => v.meanwhile # "nothing"
      BY <3>1, <3>2, MeanwhileFacts
    <3>5. WalkRight(v)'
      BY <1>1, <1>2, <1>5, <2>1, <3>3, <3>4, WithoutWalks
    <3> QED
      BY <3>2, <3>5
  <2> QED
    BY <2>4, <2>5, <2>6 DEF DispatchInv, WalksRight
<1> QED
  BY <1>3, <1>4, <1>5 DEF HostChange

(****************************************************************************)
(* A record goes on.                                                        *)
(****************************************************************************)
LEMMA GoesKeeps ==
    ASSUME DispatchInv, NEW t \in Emitters, NEW w \in Walks, Goes(t, w), WalkRight(w)
    PROVE  DispatchInv'
<1>1. /\ walk' = [walk EXCEPT ![t] = w] /\ UNCHANGED <<vars, list, aside, todo>>
      /\ walk \in [Emitters -> Walks]
  BY DEF Goes, DispatchInv, LoopTypes
<1>2. /\ handlers' = handlers /\ detached' = detached /\ (Active' <=> Active)
      /\ Adds' = Adds /\ Removes' = Removes
  BY <1>1 DEF vars, Active, Adds, Removes, Op
<1>3. LoopTypes' /\ CallsLead'
  BY <1>1, <1>2 DEF DispatchInv, LoopTypes, CallsLead
<1>4. ASSUME NEW u \in Emitters PROVE WalkRight(walk[u])'
  <2>1. PICK v \in Walks : v = walk'[u]
    BY <1>1
  <2>2. WalkRight(v)
    BY <1>1, <2>1 DEF DispatchInv, WalksRight
  <2>3. WalkRight(v)'
    BY <1>1, <1>2, <2>2 DEF WalkRight, Knows, OwnedBehind, DueAhead, Quiet
  <2> QED
    BY <2>1, <2>3
<1> QED
  BY <1>3, <1>4 DEF DispatchInv, WalksRight

LEMMA RecordKeeps ==
    ASSUME OwnershipInv, DispatchInv, NEW t \in Emitters, Log(t) \/ Take(t) \/ Emit(t) \/ End(t)
    PROVE  DispatchInv'
<1>1. /\ LoopTypes /\ CallsLead /\ WalkRight(walk[t]) /\ walk[t] \in Walks
      /\ list \in Seq(Handlers) /\ IsInjective(list) /\ DOMAIN list = 1..Len(list)
      /\ Owned \in Handlers
  BY DEF DispatchInv, LoopTypes, WalksRight, Handlers
<1>2. CASE Log(t)
  <2> DEFINE what == IF <<"remove", Owned>> \in ToSet(todo) THEN "shutdown"
                     ELSE IF \E h \in Foreign : <<"remove", h>> \in ToSet(todo)
                     THEN "removal" ELSE "nothing"
  <2> DEFINE w == [Quiet EXCEPT !.at = 1, !.due = ToSet(list), !.meanwhile = what]
  <2>1. Goes(t, w)
    BY <1>2 DEF Log
  <2>2. /\ w \in Walks /\ w.at = 1 /\ ~w.inside /\ w.captured = 0
        /\ w.due = ToSet(list) /\ w.meanwhile = what
    <3> DEFINE Sets == SUBSET Handlers
    <3> DEFINE set == ToSet(list)
    <3>1. set \in Sets
      BY <1>1 DEF ToSet
    <3>2. /\ Quiet \in [at : Nat, inside : BOOLEAN, captured : Nat, due : Sets,
                        meanwhile : {"nothing", "removal", "shutdown"}]
          /\ ~Quiet.inside /\ Quiet.captured = 0
      BY DEF Quiet
    <3>3. what \in {"nothing", "removal", "shutdown"}
      OBVIOUS
    <3>4. w = [Quiet EXCEPT !.at = 1, !.due = set, !.meanwhile = what]
      OBVIOUS
    <3> HIDE DEF Sets, set, what, w
    <3>5. w \in [at : Nat, inside : BOOLEAN, captured : Nat, due : Sets,
                meanwhile : {"nothing", "removal", "shutdown"}]
      BY <3>1, <3>2, <3>3, <3>4
    <3>6. /\ w.at = 1 /\ w.inside = Quiet.inside /\ w.captured = 0
          /\ w.due = set /\ w.meanwhile = what
      BY <3>2, <3>4
    <3> QED
      BY <3>2, <3>5, <3>6 DEF Walks, Sets, set
  <2> HIDE DEF w
  <2>3. Knows(w)
    BY <2>2 DEF Knows, Removes, Op, Handlers
  <2>4. OwnedBehind(w)
    BY <2>2 DEF OwnedBehind
  <2>5. DueAhead(w)
    BY <1>1, <2>2 DEF DueAhead, ToSet
  <2>6. WalkRight(w)
    BY <2>2, <2>3, <2>4, <2>5 DEF WalkRight
  <2> QED
    BY <2>1, <2>2, <2>6, GoesKeeps
<1>3. CASE Take(t)
  <2>1. PICK h \in Handlers : h = list[walk[t].at]
    BY <1>1, <1>3 DEF Take, Walking, Walks
  <2> DEFINE w == [walk[t] EXCEPT !.at = @ + 1, !.inside = h = Owned, !.due = @ \ {h}]
  <2>2. /\ Goes(t, w) /\ walk[t].at \in 1..Len(list) /\ ~walk[t].inside
    BY <1>1, <1>3, <2>1 DEF Take, Walking, Walks
  <2>3. /\ w \in Walks /\ w.at = walk[t].at + 1 /\ w.at # 0 /\ (w.inside <=> h = Owned)
        /\ w.captured = walk[t].captured /\ w.due = walk[t].due \ {h}
        /\ w.meanwhile = walk[t].meanwhile /\ walk[t].at # 0 /\ walk[t].at \in Nat
    <3> DEFINE old == walk[t]
    <3> DEFINE ours == h = Owned
    <3>1. /\ old \in [at : Nat, inside : BOOLEAN, captured : Nat, due : SUBSET Handlers,
                      meanwhile : {"nothing", "removal", "shutdown"}]
      BY <1>1 DEF Walks
    <3>2. ours \in BOOLEAN
      OBVIOUS
    <3>3. w = [old EXCEPT !.at = old.at + 1, !.inside = ours, !.due = old.due \ {h}]
      OBVIOUS
    <3>4. old.at # 0 /\ old.at \in Nat
      BY <2>2
    <3> DEFINE at == old.at + 1
    <3> DEFINE due == old.due \ {h}
    <3> DEFINE Sets == SUBSET Handlers
    <3>7. at \in Nat /\ due \in Sets
      BY <3>1
    <3>8. w = [at |-> at, inside |-> ours, captured |-> old.captured, due |-> due,
               meanwhile |-> old.meanwhile]
      <4> HIDE DEF old, ours, at, due
      <4>1. w = [old EXCEPT !.at = at, !.inside = ours, !.due = due]
        BY DEF at, due, old, ours
      <4> HIDE DEF w
      <4> QED
        BY <3>1, <4>1
    <3>5. w \in Walks
      <4> HIDE DEF old, ours, w, at, due
      <4>1. old.captured \in Nat /\ old.meanwhile \in {"nothing", "removal", "shutdown"}
        BY <3>1
      <4>2. w \in [at : Nat, inside : BOOLEAN, captured : Nat, due : Sets,
                  meanwhile : {"nothing", "removal", "shutdown"}]
        <5> HIDE DEF Sets
        <5> QED
          BY <3>2, <3>7, <3>8, <4>1
      <4> QED
        BY <4>2 DEF Walks
    <3> HIDE DEF old, ours, w
    <3>6. /\ w.at = old.at + 1 /\ w.inside = ours /\ w.due = old.due \ {h}
          /\ w.captured = old.captured /\ w.meanwhile = old.meanwhile
      BY <3>1, <3>3
    <3>9. w.inside <=> h = Owned
      BY <3>6 DEF ours
    <3> QED
      BY <3>4, <3>5, <3>6, <3>9 DEF old
  <2> HIDE DEF w
  <2>4. Knows(w)
    BY <1>1, <2>3 DEF WalkRight, Knows
  <2>5. OwnedBehind(w)
    <3> SUFFICES ASSUME w.meanwhile # "shutdown"
                 PROVE  /\ w.captured \in {0, 1} /\ ~(w.inside /\ w.captured = 1)
                        /\ w.inside \/ w.captured = 1 =>
                              /\ Active /\ Owned \notin Adds
                              /\ \A i \in DOMAIN list : list[i] = Owned => i < w.at
      BY DEF OwnedBehind
    <3>1. /\ walk[t].captured \in {0, 1}
          /\ walk[t].captured = 1 =>
                /\ Active /\ Owned \notin Adds
                /\ \A i \in DOMAIN list : list[i] = Owned => i < walk[t].at
      BY <1>1, <2>3 DEF WalkRight, OwnedBehind
    <3>2. CASE h = Owned
      <4>1. Owned \in ToSet(list) /\ list[walk[t].at] = Owned /\ walk[t].at \in DOMAIN list
        BY <1>1, <2>1, <2>2, <3>2 DEF ToSet
      <4>2. w.captured # 1
        BY <2>3, <3>1, <4>1
      <4>3. Owned \notin Removes
        BY <1>1, <2>3 DEF WalkRight, Knows
      <4>4. Owned \in handlers /\ Owned \notin Adds
        BY <1>1, <4>1, <4>3 DEF CallsLead
      <4>5. Active
        BY <4>4 DEF OwnershipInv, HandlersKept
      <4>6. \A i \in DOMAIN list : list[i] = Owned => i < w.at
        <5>1. \A i \in DOMAIN list : list[i] = Owned => i = walk[t].at
          BY <1>1, <4>1 DEF IsInjective
        <5> QED
          BY <2>3, <5>1
      <4> QED
        BY <2>3, <3>1, <4>2, <4>4, <4>5, <4>6
    <3>3. CASE h # Owned
      <4>1. \A i \in DOMAIN list : i < walk[t].at => i < w.at
        BY <1>1, <2>3
      <4> QED
        BY <2>3, <3>1, <3>3, <4>1
    <3> QED
      BY <3>2, <3>3
  <2>6. DueAhead(w)
    <3> SUFFICES ASSUME w.meanwhile = "nothing", NEW g \in w.due
                 PROVE  \E i \in DOMAIN list : w.at <= i /\ list[i] = g
      BY DEF DueAhead
    <3>1. PICK i \in DOMAIN list : walk[t].at <= i /\ list[i] = g
      BY <1>1, <2>3 DEF WalkRight, DueAhead
    <3>2. i # walk[t].at
      BY <2>1, <2>3, <3>1
    <3>3. w.at <= i
      BY <1>1, <2>3, <3>1, <3>2
    <3> QED
      BY <3>1, <3>3
  <2>7. WalkRight(w)
    BY <2>3, <2>4, <2>5, <2>6 DEF WalkRight
  <2> QED
    BY <2>2, <2>3, <2>7, GoesKeeps
<1>4. CASE Emit(t)
  <2> DEFINE w == [walk[t] EXCEPT !.inside = FALSE, !.captured = IF Active THEN @ + 1 ELSE @]
  <2>1. Goes(t, w) /\ walk[t].inside
    BY <1>4 DEF Emit
  <2>2. /\ w \in Walks /\ w.at = walk[t].at /\ ~w.inside /\ w.due = walk[t].due
        /\ w.captured = IF Active THEN walk[t].captured + 1 ELSE walk[t].captured
        /\ w.meanwhile = walk[t].meanwhile
    <3> DEFINE old == walk[t]
    <3> DEFINE more == IF Active THEN old.captured + 1 ELSE old.captured
    <3>1. /\ old \in [at : Nat, inside : BOOLEAN, captured : Nat, due : SUBSET Handlers,
                      meanwhile : {"nothing", "removal", "shutdown"}]
      BY <1>1 DEF Walks
    <3>2. more \in Nat
      BY <3>1
    <3>3. w = [old EXCEPT !.inside = FALSE, !.captured = more]
      OBVIOUS
    <3> HIDE DEF old, more, w
    <3>4. w \in Walks
      BY <3>1, <3>2, <3>3 DEF Walks
    <3>5. /\ w.at = old.at /\ w.inside = FALSE /\ w.due = old.due /\ w.captured = more
          /\ w.meanwhile = old.meanwhile
      BY <3>1, <3>3
    <3> QED
      BY <3>4, <3>5 DEF old, more
  <2>3. walk[t].at # 0
    BY <1>1, <2>1 DEF WalkRight, Quiet
  <2> HIDE DEF w
  <2>4. Knows(w) /\ DueAhead(w)
    BY <1>1, <2>2 DEF WalkRight, Knows, DueAhead
  <2>5. OwnedBehind(w)
    BY <1>1, <2>1, <2>2 DEF WalkRight, OwnedBehind
  <2>6. WalkRight(w)
    BY <2>2, <2>3, <2>4, <2>5 DEF WalkRight
  <2> QED
    BY <2>1, <2>2, <2>6, GoesKeeps
<1>5. CASE End(t)
  <2>1. Goes(t, Quiet)
    BY <1>5 DEF End
  <2>2. Quiet \in Walks /\ Quiet.at = 0
    BY DEF Quiet, Walks
  <2>3. WalkRight(Quiet)
    BY <2>2 DEF WalkRight, Knows, OwnedBehind, DueAhead
  <2> QED
    BY <2>1, <2>2, <2>3, GoesKeeps
<1> QED
  BY <1>2, <1>3, <1>4, <1>5

LEMMA DispatchStep ==
    ASSUME OwnershipInv, DispatchInv, [DispatchNext]_<<vars, loop>> PROVE DispatchInv'
<1>1. CASE Transition
  <2>1. PICK what \in {"removal", "shutdown"} :
          /\ todo = << >> /\ todo' = Calls /\ aside' = Aside /\ UNCHANGED list
          /\ walk' = [t \in Emitters |-> IF Removals # << >> \/ what = "shutdown"
                                         THEN Meanwhile(t, what) ELSE walk[t]]
          /\ Changes /\ (what = "removal" => ActiveStays)
    BY <1>1, TransitionChanges DEF Transition, Begin
  <2> QED
    BY <2>1, BeginKeeps
<1>2. CASE Call
  BY <1>2, CallKeeps
<1>3. CASE HostChange
  BY <1>3, HostChangeKeeps
<1>4. ASSUME NEW t \in Emitters, Log(t) \/ Take(t) \/ Emit(t) \/ End(t) PROVE DispatchInv'
  BY <1>4, RecordKeeps
<1>5. CASE UNCHANGED <<vars, loop>>
  <2>1. /\ handlers' = handlers /\ detached' = detached /\ (Active' <=> Active)
        /\ list' = list /\ todo' = todo /\ aside' = aside /\ walk' = walk
        /\ Adds' = Adds /\ Removes' = Removes
    BY <1>5 DEF vars, loop, Active, Adds, Removes, Op
  <2> QED
    BY <2>1 DEF DispatchInv, LoopTypes, CallsLead, WalksRight, WalkRight, Knows, OwnedBehind,
                DueAhead, Quiet
<1> QED
  BY <1>1, <1>2, <1>3, <1>4, <1>5 DEF DispatchNext

LEMMA DispatchShows ==
    ASSUME OwnershipInv, DispatchInv PROVE ListMatches /\ UndisturbedReachAll /\ CapturedOnce
<1>1. LoopTypes /\ CallsLead /\ WalksRight
  BY DEF DispatchInv
<1>2. ListMatches
  <2> SUFFICES ASSUME todo = << >> PROVE ToSet(list) = handlers
    BY <1>1 DEF ListMatches, LoopTypes
  <2>1. Adds = {} /\ Removes = {}
    BY DEF Adds, Removes, Op, ToSet
  <2>2. ToSet(list) \subseteq Handlers
    BY <1>1 DEF LoopTypes, ToSet
  <2>3. \A h \in Handlers : h \in handlers <=> h \in ToSet(list)
    BY <1>1, <2>1 DEF CallsLead
  <2> QED
    BY <2>2, <2>3 DEF OwnershipInv, TypeOk
<1>3. UndisturbedReachAll
  <2> SUFFICES ASSUME NEW t \in Emitters, Ended(t), walk[t].meanwhile = "nothing",
                      NEW h \in walk[t].due
               PROVE  FALSE
    BY DEF UndisturbedReachAll
  <2>1. walk[t].at # 0 /\ walk[t].at > Len(list) /\ walk[t].at \in Nat
    BY <1>1 DEF Ended, Walking, LoopTypes, Walks
  <2>2. PICK i \in DOMAIN list : walk[t].at <= i
    BY <1>1, <2>1 DEF WalksRight, WalkRight, DueAhead
  <2>3. i \in 1..Len(list) /\ Len(list) \in Nat
    BY <1>1 DEF LoopTypes
  <2> QED
    BY <2>1, <2>2, <2>3
<1>4. CapturedOnce
  <2> SUFFICES ASSUME NEW t \in Emitters, walk[t].meanwhile # "shutdown"
               PROVE  walk[t].captured <= 1
    BY DEF CapturedOnce
  <2>1. WalkRight(walk[t])
    BY <1>1 DEF WalksRight
  <2>2. CASE walk[t].at = 0
    BY <2>1, <2>2 DEF WalkRight, Quiet
  <2>3. CASE walk[t].at # 0
    BY <2>1, <2>3 DEF WalkRight, OwnedBehind
  <2> QED
    BY <2>2, <2>3
<1> QED
  BY <1>2, <1>3, <1>4

THEOREM DispatchInvariance == DispatchSpec => [](OwnershipInv /\ DispatchInv)
<1>1. DispatchSpec => []OwnershipInv
  BY DispatchImplements, OwnershipInvariance, PTL
<1>2. DispatchInit => DispatchInv
  BY DispatchStart
<1>3. OwnershipInv /\ DispatchInv /\ [DispatchNext]_<<vars, loop>> => DispatchInv'
  BY DispatchStep
<1> QED
  BY <1>1, <1>2, <1>3, PTL DEF DispatchSpec

(* Between transitions the live list holds what the runtime's bookkeeping   *)
(* and the host say, each handler once, and _detached holds the detached    *)
(* ones (_reconcile, shutdown; addHandler and removeHandler one by one).    *)
THEOREM ListSafe == DispatchSpec => []ListMatches
<1>1. OwnershipInv /\ DispatchInv => ListMatches
  BY DispatchShows
<1> QED
  BY <1>1, DispatchInvariance, PTL

(* A record that meets nothing but reconfiguration reaches every handler    *)
(* that was there when its walk began (callHandlers over a live list).      *)
THEOREM ReachSafe == DispatchSpec => []UndisturbedReachAll
<1>1. OwnershipInv /\ DispatchInv => UndisturbedReachAll
  BY DispatchShows
<1> QED
  BY <1>1, DispatchInvariance, PTL

(* The dispatch handler captures a record at most once, however the list is *)
(* changed under the walk, except across a shutdown and a restart.          *)
THEOREM CaptureSafe == DispatchSpec => []CapturedOnce
<1>1. OwnershipInv /\ DispatchInv => CapturedOnce
  BY DispatchShows
<1> QED
  BY <1>1, DispatchInvariance, PTL

(* What holds of whole transitions holds while records pass and the list is *)
(* changed call by call: gates, the host's levels and its handlers.         *)
THEOREM DispatchKeepsStates == DispatchSpec => [](GatesMatch /\ HostLevelKept /\ HandlersKept)
BY DispatchImplements, GatesSafe, LevelsSafe, HandlersSafe, PTL

(* And so does what a step may not do to the host's handlers and levels.    *)
THEOREM DispatchKeepsSteps == DispatchSpec => LateHandlersStay /\ HostChangeRespected
BY DispatchImplements, LateHandlersSafe, HostRespected

(* Before the first use and after a shutdown, once its calls on the list    *)
(* are made, nothing of the package is left in the host's logging tree: its *)
(* handler is gone, the host's handlers are all on the root again, and each *)
(* logger has the level the host chose for it (shutdown, _restore_gate,     *)
(* _restore_handlers).                                                      *)
AsTheHostHadIt ==
    /\ Owned \notin ToSet(list) /\ hostAdded \subseteq ToSet(list)
    /\ aside = << >>
    /\ \A l \in Loggers : ~Gated(l) /\ (hostLevel[l] # Unknown => level[l] = hostLevel[l])
GivenBack == ~Active /\ todo = << >> => AsTheHostHadIt

THEOREM ShutdownGivesBack == DispatchSpec => []GivenBack
<1>1. ASSUME OwnershipInv, DispatchInv PROVE GivenBack
  <2> SUFFICES ASSUME ~Active, todo = << >> PROVE AsTheHostHadIt
    BY DEF GivenBack
  <2>1. /\ Owned \notin handlers /\ detached = {} /\ hostAdded \subseteq handlers
        /\ \A l \in Loggers : ~Gated(l) /\ (hostLevel[l] # Unknown => Baseline(l) = hostLevel[l])
    BY <1>1 DEF OwnershipInv, GatesMatch, HandlersKept, HostLevelKept
  <2>2. ToSet(list) = handlers /\ ToSet(aside) = detached
    BY <1>1, DispatchShows DEF ListMatches
  <2>3. aside = << >>
    <3>1. aside \in Seq(Foreign)
      BY <1>1 DEF DispatchInv, LoopTypes
    <3>2. ToSet(aside) = {}
      BY <2>1, <2>2
    <3>3. \A i \in DOMAIN aside : aside[i] \in ToSet(aside)
      BY DEF ToSet
    <3>4. Len(aside) \in Nat /\ DOMAIN aside = 1..Len(aside)
      BY <3>1
    <3>5. Len(aside) = 0
      BY <3>2, <3>3, <3>4
    <3> QED
      BY <3>1, <3>5
  <2> QED
    BY <2>1, <2>2, <2>3 DEF AsTheHostHadIt, Baseline, Ours
<1> QED
  BY <1>1, DispatchInvariance, PTL
==============================================================================
