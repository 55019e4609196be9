------------------------- MODULE ConfigurationProofs -------------------------
(****************************************************************************)
(* The configuration in force is the one asked for, and a logger gets the   *)
(* threshold its nearest rule gives, for any threads, names, environments   *)
(* and requests.                                                            *)
(****************************************************************************)
EXTENDS Configuration, ListLemmas

(* What a request makes of the overrides and of the rules. *)
OverridesOf(q, set) == IF q.kind = "configure" THEN Applied(q.changes, set) ELSE set
RulesOf(q, set)     == IF q.kind = "rule" THEN WithRule(set, q.name, q.level) ELSE set

(* A candidate belongs to the holder of the lock and still fits what is     *)
(* stored: nobody else has stored anything since it was built.              *)
CandidateFits == \A t \in Threads : candidate[t] # NoConfig =>
    /\ lock = t /\ call[t] # Omitted
    /\ candidate[t].environment # Unread
    /\ Reads(call[t]) \/ candidate[t].environment = environment
    /\ candidate[t].overrides = OverridesOf(call[t], overrides)
    /\ candidate[t].rules = RulesOf(call[t], rules)
    /\ candidate[t].config =
          Build(candidate[t].environment, candidate[t].overrides, candidate[t].rules)

(* What is stopped has no snapshot, so that a rule it remembers is not in   *)
(* force before it restarts.                                                *)
StoppedDown == stopped => snapshot = NoConfig

ConfigurationInv == TypeOk /\ InForce /\ CandidateFits /\ StoppedDown

LEMMA ConfigurationInit == ASSUME Init PROVE ConfigurationInv
<1>1. Nothing \in Settings /\ NoRules \in Rules
  BY DEF Nothing, NoRules, Settings, SettingsOr, Rules, Keys
<1>2. TypeOk
  BY <1>1 DEF Init, TypeOk
<1>3. InForce /\ CandidateFits /\ StoppedDown
  BY DEF Init, InForce, CandidateFits, StoppedDown
<1> QED
  BY <1>2, <1>3 DEF ConfigurationInv

(****************************************************************************)
(* What resolution returns.                                                 *)
(****************************************************************************)
LEMMA AppliedType ==
    ASSUME NEW set \in Settings, NEW changes \in SettingsOr({Omitted, Reset, Bad}),
           \A key \in Keys : changes[key] # Bad
    PROVE  Applied(changes, set) \in Settings
<1>1. /\ changes.level \in Levels \union {Omitted, Reset}
      /\ changes.debugging \in BOOLEAN \union {Omitted, Reset}
      /\ set.level \in Levels \union {Omitted} /\ set.debugging \in BOOLEAN \union {Omitted}
  BY DEF Settings, SettingsOr, Keys
<1>2. Applied(changes, set) =
        [level     |-> CASE changes.level = Omitted -> set.level
                         [] changes.level = Reset -> Omitted
                         [] OTHER -> changes.level,
         debugging |-> CASE changes.debugging = Omitted -> set.debugging
                         [] changes.debugging = Reset -> Omitted
                         [] OTHER -> changes.debugging]
  BY DEF Applied, Keys
<1> QED
  BY <1>1, <1>2 DEF Settings, SettingsOr

LEMMA WithRuleType ==
    ASSUME NEW set \in Rules, NEW name \in Names, NEW level \in Levels \union {Reset}
    PROVE  WithRule(set, name, level) \in Rules
BY DEF WithRule, Rules

LEMMA OverType ==
    /\ \A top, bottom \in Settings : Over(top, bottom) \in Settings
    /\ \A top, bottom \in Rules : Over(top, bottom) \in Rules
<1>1. ASSUME NEW top \in Settings, NEW bottom \in Settings PROVE Over(top, bottom) \in Settings
  <2>1. DOMAIN top = {"level", "debugging"}
    BY DEF Settings, SettingsOr
  <2> QED
    BY <2>1 DEF Over, Settings, SettingsOr
<1>2. ASSUME NEW top \in Rules, NEW bottom \in Rules PROVE Over(top, bottom) \in Rules
  BY DEF Over, Rules
<1> QED
  BY <1>1, <1>2

LEMMA BuildType ==
    ASSUME NEW env \in Environments, NEW over \in Settings, NEW run \in Rules
    PROVE  Build(env, over, run) \in Configs
<1>1. env.settings \in Settings /\ env.rules \in Rules
  BY DEF Environments
<1>2. ASSUME NEW set \in Settings PROVE GlobalLevel(set) \in 0..50
  <2>1. set.level # Omitted => set.level \in 0..50
    BY ValueAssumption DEF Settings, SettingsOr
  <2> QED
    BY <2>1 DEF GlobalLevel
<1> QED
  BY <1>1, <1>2, OverType DEF Build, Configs

LEMMA BuiltType ==
    ASSUME TypeOk, NEW q \in Requests, Acceptable(q), Updates(q)
    PROVE  /\ Built(q) \in Candidates
           /\ Built(q).environment # Unread
           /\ Reads(q) \/ Built(q).environment = environment
           /\ Built(q).overrides = OverridesOf(q, overrides)
           /\ Built(q).rules = RulesOf(q, rules)
           /\ Built(q).config =
                 Build(Built(q).environment, Built(q).overrides, Built(q).rules)
<1> DEFINE env == IF Reads(q) THEN environ ELSE environment
<1>1. env \in Environments /\ env # Unread
  <2>1. CASE Reads(q)
    <3>1. environ \in [settings : SettingsOr({Omitted, Bad}), rules : Rules \union {Bad}]
      BY EnvironAssumption DEF TypeOk
    <3>2. /\ environ.rules # Bad
          /\ environ.settings["level"] # Bad /\ environ.settings["debugging"] # Bad
      BY <2>1 DEF Acceptable, Readable, Keys
    <3>3. environ.settings \in Settings /\ environ.rules \in Rules
      BY <3>1, <3>2 DEF SettingsOr, Settings
    <3> QED
      BY <2>1, <3>1, <3>3, EnvironAssumption DEF Environments, TypeOk
  <2>2. CASE ~Reads(q)
    BY <2>2 DEF Reads, TypeOk
  <2> QED
    BY <2>1, <2>2
<1>2. OverridesOf(q, overrides) \in Settings
  <2>1. CASE q.kind = "configure"
    <3>1. q.changes \in SettingsOr({Omitted, Reset, Bad})
      BY <2>1, RequestAssumption
    <3> QED
      BY <2>1, <3>1, AppliedType DEF OverridesOf, Acceptable, TypeOk
  <2> QED
    BY <2>1 DEF OverridesOf, TypeOk
<1>3. RulesOf(q, rules) \in Rules
  BY RequestAssumption, WithRuleType DEF RulesOf, TypeOk
<1>4. Build(env, OverridesOf(q, overrides), RulesOf(q, rules)) \in Configs
  BY <1>1, <1>2, <1>3, BuildType
<1>5. Built(q) = [environment |-> env, overrides |-> OverridesOf(q, overrides),
                  rules |-> RulesOf(q, rules),
                  config |-> Build(env, OverridesOf(q, overrides), RulesOf(q, rules))]
  BY DEF Built, OverridesOf, RulesOf
<1>6. Reads(q) \/ env = environment
  OBVIOUS
<1> HIDE DEF env
<1> QED
  BY <1>1, <1>2, <1>3, <1>4, <1>5, <1>6 DEF Candidates

(****************************************************************************)
(* The steps.                                                               *)
(****************************************************************************)
LEMMA EnterKeeps == ASSUME ConfigurationInv, NEW t \in Threads, Enter(t) PROVE ConfigurationInv'
<1>1. PICK q \in Requests : call' = [call EXCEPT ![t] = q]
  BY DEF Enter
<1>2. call[t] = Omitted /\ UNCHANGED <<environ, store, lock, candidate>>
  BY DEF Enter
<1>3. TypeOk' /\ InForce' /\ StoppedDown'
  BY <1>1, <1>2 DEF ConfigurationInv, TypeOk, InForce, StoppedDown, store
<1>4. CandidateFits'
  BY <1>1, <1>2 DEF ConfigurationInv, TypeOk, CandidateFits, Reads, store
<1> QED
  BY <1>3, <1>4 DEF ConfigurationInv

LEMMA PrepareKeeps ==
    ASSUME ConfigurationInv, NEW t \in Threads, Prepare(t) PROVE ConfigurationInv'
<1>1. call[t] \in Requests /\ call[t] # Omitted /\ lock = Nobody
  BY DEF Prepare, Asking, LockFree, ConfigurationInv, TypeOk
<1>2. /\ Built(call[t]) \in Candidates
      /\ Built(call[t]).environment # Unread
      /\ Reads(call[t]) \/ Built(call[t]).environment = environment
      /\ Built(call[t]).overrides = OverridesOf(call[t], overrides)
      /\ Built(call[t]).rules = RulesOf(call[t], rules)
      /\ Built(call[t]).config = Build(Built(call[t]).environment, Built(call[t]).overrides,
                                       Built(call[t]).rules)
  BY <1>1, BuiltType DEF Prepare, ConfigurationInv
<1>3. /\ lock' = t /\ candidate' = [candidate EXCEPT ![t] = Built(call[t])]
      /\ UNCHANGED <<environ, store, call>>
  BY DEF Prepare
<1>4. TypeOk' /\ InForce' /\ StoppedDown'
  BY <1>2, <1>3 DEF ConfigurationInv, TypeOk, InForce, StoppedDown, store
<1>5. \A u \in Threads \ {t} : candidate[u] = NoConfig
  BY <1>1, ThreadAssumption DEF ConfigurationInv, CandidateFits
<1>6. CandidateFits'
  BY <1>1, <1>2, <1>3, <1>5 DEF ConfigurationInv, TypeOk, CandidateFits, Reads, store
<1> QED
  BY <1>4, <1>6 DEF ConfigurationInv

LEMMA PublishKeeps ==
    ASSUME ConfigurationInv, NEW t \in Threads, Publish(t) PROVE ConfigurationInv'
<1>1. /\ lock = t /\ call[t] \in Requests
      /\ candidate[t] \in Candidates /\ candidate[t].environment # Unread
      /\ candidate[t].overrides = OverridesOf(call[t], asked.settings)
      /\ candidate[t].rules = RulesOf(call[t], asked.rules)
      /\ candidate[t].config = Build(candidate[t].environment, candidate[t].overrides,
                                     candidate[t].rules)
  BY DEF Publish, ConfigurationInv, TypeOk, CandidateFits, InForce
<1>2. /\ environment' = candidate[t].environment /\ overrides' = candidate[t].overrides
      /\ rules' = candidate[t].rules /\ snapshot' = candidate[t].config
      /\ stopped' = FALSE /\ lock' = Nobody /\ environ' = environ
      /\ call' = [call EXCEPT ![t] = Omitted] /\ candidate' = [candidate EXCEPT ![t] = NoConfig]
  BY DEF Publish, Store, Return
<1>3. asked' = [settings |-> candidate[t].overrides, rules |-> candidate[t].rules]
  BY <1>1 DEF Publish, Asked, OverridesOf, RulesOf
<1>4. TypeOk'
  BY <1>1, <1>2, <1>3 DEF ConfigurationInv, TypeOk, Candidates
<1>5. InForce' /\ StoppedDown'
  BY <1>1, <1>2, <1>3 DEF InForce, StoppedDown
<1>6. CandidateFits'
  BY <1>1, <1>2 DEF ConfigurationInv, TypeOk, CandidateFits
<1> QED
  BY <1>4, <1>5, <1>6 DEF ConfigurationInv

(* A call that ends without having built anything, or that drops what it    *)
(* built, leaves everything stored alone.                                   *)
LEMMA RefuseKeeps ==
    ASSUME ConfigurationInv, NEW t \in Threads, Refuse(t) \/ FailToConstruct(t)
    PROVE  ConfigurationInv'
<1>1. /\ UNCHANGED <<environ, store>> /\ call' = [call EXCEPT ![t] = Omitted]
      /\ candidate' = [candidate EXCEPT ![t] = NoConfig]
      /\ lock' = Nobody
      /\ \A u \in Threads \ {t} : candidate[u] = NoConfig
  <2>1. CASE Refuse(t)
    BY <2>1, ThreadAssumption DEF Refuse, Return, Asking, LockFree, ConfigurationInv, TypeOk,
       CandidateFits
  <2>2. CASE FailToConstruct(t)
    BY <2>2 DEF FailToConstruct, Return, ConfigurationInv, TypeOk, CandidateFits
  <2> QED
    BY <2>1, <2>2
<1>2. TypeOk' /\ InForce' /\ CandidateFits' /\ StoppedDown'
  BY <1>1 DEF ConfigurationInv, TypeOk, InForce, CandidateFits, StoppedDown, store
<1> QED
  BY <1>2 DEF ConfigurationInv

LEMMA ReturnKeeps ==
    ASSUME ConfigurationInv, NEW t \in Threads, ReturnEarly(t) \/ Shutdown(t)
    PROVE  ConfigurationInv'
<1>1. /\ lock = Nobody /\ lock' = lock /\ candidate' = candidate /\ environ' = environ
      /\ environment' = environment /\ overrides' = overrides
      /\ call[t] \in Requests /\ call' = [call EXCEPT ![t] = Omitted]
  BY DEF ReturnEarly, Shutdown, Return, Asking, LockFree, ConfigurationInv, TypeOk
<1>2. \A u \in Threads : candidate[u] = NoConfig
  BY <1>1, ThreadAssumption DEF ConfigurationInv, CandidateFits
<1>3. CandidateFits'
  BY <1>1, <1>2 DEF CandidateFits
<1>4. CASE ReturnEarly(t)
  <2>1. rules' = RulesOf(call[t], rules) /\ UNCHANGED <<snapshot, stopped>>
    BY <1>4 DEF ReturnEarly, RulesOf
  <2>2. asked' = [settings |-> asked.settings, rules |-> RulesOf(call[t], asked.rules)]
    BY <1>4 DEF ReturnEarly, Asked, Updates, RulesOf
  <2>3. rules' \in Rules
    BY <1>1, <2>1, RequestAssumption, WithRuleType DEF RulesOf, ConfigurationInv, TypeOk
  <2>4. TypeOk'
    BY <1>1, <2>1, <2>2, <2>3 DEF ConfigurationInv, TypeOk, InForce
  <2>5. InForce' /\ StoppedDown'
    BY <1>1, <1>4, <2>1, <2>2
    DEF ConfigurationInv, InForce, StoppedDown, ReturnEarly, Updates, RulesOf
  <2> QED
    BY <1>3, <2>4, <2>5 DEF ConfigurationInv
<1>5. CASE Shutdown(t)
  BY <1>1, <1>3, <1>5 DEF ConfigurationInv, TypeOk, InForce, StoppedDown, Shutdown
<1> QED
  BY <1>4, <1>5

LEMMA ConfigurationNext == ASSUME ConfigurationInv, [Next]_vars PROVE ConfigurationInv'
<1>1. ASSUME NEW t \in Threads, Enter(t) \/ Prepare(t) \/ Publish(t) PROVE ConfigurationInv'
  BY <1>1, EnterKeeps, PrepareKeeps, PublishKeeps
<1>2. ASSUME NEW t \in Threads,
             Refuse(t) \/ FailToConstruct(t) \/ ReturnEarly(t) \/ Shutdown(t)
      PROVE  ConfigurationInv'
  BY <1>2, RefuseKeeps, ReturnKeeps
<1>3. CASE HostSetsEnviron
  BY <1>3 DEF HostSetsEnviron, ConfigurationInv, TypeOk, InForce, CandidateFits, StoppedDown, Reads,
              store
<1>4. CASE UNCHANGED vars
  BY <1>4 DEF vars, ConfigurationInv, TypeOk, InForce, CandidateFits, StoppedDown,
              Reads
<1> QED
  BY <1>1, <1>2, <1>3, <1>4 DEF Next

THEOREM ConfigurationInvariance == Spec => []ConfigurationInv
BY ConfigurationInit, ConfigurationNext, PTL DEF Spec

(* What is captured, stored, built and published has passed validation      *)
(* (read_environment, build_config, _update).                               *)
THEOREM ConfigurationTypes == Spec => []TypeOk
<1>1. ConfigurationInv => TypeOk
  BY DEF ConfigurationInv
<1> QED
  BY <1>1, ConfigurationInvariance, PTL

(* The configuration in force is what the accepted calls asked for: no lost *)
(* update, no trace of a refused call (_update, package_rule).              *)
THEOREM InForceSafe == Spec => []InForce
<1>1. ConfigurationInv => InForce
  BY DEF ConfigurationInv
<1> QED
  BY <1>1, ConfigurationInvariance, PTL

(****************************************************************************)
(* Thresholds.                                                              *)
(****************************************************************************)
(* The prefixes of a name whose rule decides: it is there and not zero.     *)
Decides(config, n, k) == Rule(config, SubSeq(n, 1, k)) \notin {Omitted, 0}
Deciding(config, n)   == {k \in 1..Len(n) : Decides(config, n, k)}

LEMMA NameType == ASSUME NEW n \in Names PROVE n \in Seq(Segments) /\ Len(n) \in Nat
BY NameAssumption

LEMMA RuleType ==
    ASSUME NEW config \in Configs, NEW path
    PROVE  /\ Rule(config, path) \in 0..50 \union {Omitted}
           /\ Rule(config, path) \notin {Omitted, 0} <=> Rule(config, path) \in Nat \ {0}
           /\ Rule(config, path) # Omitted => Rule(config, path) = config.rules[path]
<1>1. config.rules \in [Names -> Levels \union {Omitted}]
  BY DEF Configs, Rules
<1>2. Rule(config, path) \in Levels \union {Omitted}
  BY <1>1 DEF Rule
<1>3. Rule(config, path) # Omitted => Rule(config, path) \in 0..50
  BY <1>2, ValueAssumption
<1>4. Rule(config, path) = Omitted => Rule(config, path) \notin Nat \ {0}
  BY ValueAssumption
<1>5. Rule(config, path) # Omitted => Rule(config, path) = config.rules[path]
  BY DEF Rule
<1> HIDE DEF Rule
<1> QED
  BY <1>2, <1>3, <1>4, <1>5

LEMMA ThresholdDef ==
    ASSUME NEW config \in Configs, NEW n \in Names
    PROVE  \E at \in [0..Len(n) -> 0..50] :
              /\ at[0] = config.global /\ Threshold(config, n) = at[Len(n)]
              /\ \A k \in 1..Len(n) :
                    at[k] = IF Decides(config, n, k) THEN Rule(config, SubSeq(n, 1, k))
                            ELSE at[k - 1]
<1> DEFINE E(f) == [k \in 0..Len(n) |->
                      IF k = 0 THEN config.global
                      ELSE IF Decides(config, n, k) THEN Rule(config, SubSeq(n, 1, k))
                      ELSE f[k - 1]]
<1>1. Threshold(config, n) = (CHOOSE f : f = E(f))[Len(n)]
  BY DEF Threshold, Decides
<1> DEFINE step == [p \in (1..Len(n)) \X (0..50) |->
                      IF Decides(config, n, p[1]) THEN Rule(config, SubSeq(n, 1, p[1]))
                      ELSE p[2]]
<1>2. step \in [(1..Len(n)) \X (0..50) -> 0..50]
  BY RuleType DEF Decides
<1>3. ASSUME NEW k \in 1..Len(n), NEW v \in 0..50
      PROVE  step[<<k, v>>] = IF Decides(config, n, k) THEN Rule(config, SubSeq(n, 1, k)) ELSE v
  OBVIOUS
<1> HIDE DEF step
<1>4. PICK g \in [0..Len(n) -> 0..50] : Solves(g, Len(n), config.global, step)
  <2>1. Len(n) \in Nat /\ config.global \in 0..50
    BY NameType DEF Configs
  <2> QED
    BY <1>2, <2>1, Recursion
<1>5. g = E(g)
  <2> SUFFICES ASSUME NEW k \in 0..Len(n) PROVE g[k] = E(g)[k]
    OBVIOUS
  <2>1. g[k] = IF k = 0 THEN config.global ELSE step[<<k, g[k - 1]>>]
    BY <1>4 DEF Solves
  <2>2. CASE k = 0
    BY <2>1, <2>2
  <2>3. CASE k # 0
    <3>3. k \in 1..Len(n) /\ k - 1 \in 0..Len(n)
      BY <2>3, NameType
    <3>1. k \in 1..Len(n) /\ g[k - 1] \in 0..50
      BY <3>3
    <3>2. g[k] = IF Decides(config, n, k) THEN Rule(config, SubSeq(n, 1, k)) ELSE g[k - 1]
      BY <1>3, <2>1, <2>3, <3>1
    <3> QED
      BY <2>3, <3>2
  <2> QED
    BY <2>2, <2>3
<1> DEFINE h == CHOOSE f : f = E(f)
<1>6. h = E(h)
  BY <1>5
<1> HIDE DEF h
<1>7. /\ h[0] = config.global
      /\ \A k \in 1..Len(n) :
            h[k] = IF Decides(config, n, k) THEN Rule(config, SubSeq(n, 1, k)) ELSE h[k - 1]
  <2>1. \A k \in 0..Len(n) : h[k] = E(h)[k]
    BY <1>6
  <2> QED
    BY <2>1, NameType
<1>8. h \in [0..Len(n) -> 0..50]
  <2> DEFINE T == {k \in 0..Len(n) : h[k] \in 0..50}
  <2>1. 0 \in T
    BY <1>7, NameType DEF Configs
  <2>2. ASSUME NEW k \in 1..Len(n), k - 1 \in T PROVE k \in T
    <3>1. h[k - 1] \in 0..50
      BY <2>2
    <3>2. Decides(config, n, k) => Rule(config, SubSeq(n, 1, k)) \in 0..50
      BY RuleType DEF Decides
    <3>3. h[k] \in 0..50
      BY <1>7, <3>1, <3>2
    <3> QED
      BY <3>3
  <2> HIDE DEF T
  <2>3. 0..Len(n) \subseteq T
    BY <2>1, <2>2, NameType, IntervalInduction
  <2>4. \A k \in 0..Len(n) : h[k] \in 0..50
    BY <2>3 DEF T
  <2>5. h = [k \in 0..Len(n) |-> h[k]]
    BY <1>6
  <2> QED
    BY <2>4, <2>5
<1> QED
  BY <1>1, <1>7, <1>8 DEF h

(* What the walk from a name to its ancestors returns.                      *)
LEMMA ThresholdFacts ==
    ASSUME NEW config \in Configs, NEW n \in Names
    PROVE  Threshold(config, n) =
              IF Deciding(config, n) = {} THEN config.global
              ELSE Rule(config, SubSeq(n, 1, Max(Deciding(config, n))))
<1>1. PICK at \in [0..Len(n) -> 0..50] :
        /\ at[0] = config.global /\ Threshold(config, n) = at[Len(n)]
        /\ \A k \in 1..Len(n) :
              at[k] = IF Decides(config, n, k) THEN Rule(config, SubSeq(n, 1, k)) ELSE at[k - 1]
  BY ThresholdDef
<1> DEFINE D(m) == {k \in 1..m : Decides(config, n, k)}
<1> DEFINE Right(m) == at[m] = IF D(m) = {} THEN config.global
                               ELSE Rule(config, SubSeq(n, 1, Max(D(m))))
<1> DEFINE T == {m \in 0..Len(n) : Right(m)}
<1>2. 0 \in T
  BY <1>1, NameType
<1>3. ASSUME NEW k \in 1..Len(n), k - 1 \in T PROVE k \in T
  <2>1. Right(k - 1)
    <3> HIDE DEF Right
    <3> QED
      BY <1>3
  <2>2. 1..k = (1..(k - 1)) \union {k}
    OBVIOUS
  <2>3. CASE Decides(config, n, k)
    <3>1. k \in D(k) /\ D(k) \in SUBSET (0..k) /\ k \in Nat
      BY <2>3
    <3>2. Max(D(k)) \in D(k) /\ Max(D(k)) >= k
      <4> HIDE DEF D
      <4> QED
        BY <3>1, MaxFacts
    <3>3. Max(D(k)) = k
      <4>1. Max(D(k)) \in 1..k
        BY <3>2
      <4> QED
        BY <3>2, <4>1
    <3>4. at[k] = Rule(config, SubSeq(n, 1, k))
      BY <1>1, <2>3
    <3>5. Right(k)
      <4>1. D(k) # {}
        BY <3>1
      <4> QED
        BY <3>3, <3>4, <4>1
    <3> HIDE DEF Right
    <3> QED
      BY <3>5
  <2>4. CASE ~Decides(config, n, k)
    <3>1. D(k) = D(k - 1)
      BY <2>2, <2>4
    <3>2. at[k] = at[k - 1]
      BY <1>1, <2>4
    <3>3. Right(k)
      <4> HIDE DEF D
      <4> QED
        BY <2>1, <3>1, <3>2
    <3> HIDE DEF Right
    <3> QED
      BY <3>3
  <2> QED
    BY <2>3, <2>4
<1> HIDE DEF T
<1>4. 0..Len(n) \subseteq T
  BY <1>2, <1>3, NameType, IntervalInduction
<1>5. Len(n) \in T
  BY <1>4, NameType
<1>6. Right(Len(n))
  <2> HIDE DEF Right
  <2> QED
    BY <1>5 DEF T
<1> QED
  BY <1>1, <1>6 DEF Deciding

(* Only the global level and the rules of a logger's prefixes count.        *)
LEMMA ThresholdSame ==
    ASSUME NEW one \in Configs, NEW other \in Configs, NEW n \in Names,
           one.global = other.global,
           \A k \in 1..Len(n) : Rule(one, SubSeq(n, 1, k)) = Rule(other, SubSeq(n, 1, k))
    PROVE  Threshold(one, n) = Threshold(other, n)
<1>1. Deciding(one, n) = Deciding(other, n)
  BY DEF Deciding, Decides
<1>2. CASE Deciding(one, n) = {}
  BY <1>1, <1>2, ThresholdFacts
<1>3. CASE Deciding(one, n) # {}
  <2>1. Len(n) \in Nat /\ Deciding(one, n) \in SUBSET (0..Len(n))
    BY NameType DEF Deciding
  <2>2. Max(Deciding(one, n)) \in Deciding(one, n)
    BY <1>3, <2>1, MaxFacts
  <2>3. Max(Deciding(one, n)) \in 1..Len(n)
    BY <2>2 DEF Deciding
  <2> QED
    BY <1>1, <1>3, <2>3, ThresholdFacts
<1> QED
  BY <1>2, <1>3

LEMMA InvDecides == ASSUME ConfigurationInv PROVE NearestRuleDecides
<1> SUFFICES ASSUME snapshot # NoConfig, NEW n \in Names
             PROVE  LET deciding == {k \in 1..Len(n) :
                                        Rule(snapshot, SubSeq(n, 1, k)) \in Nat \ {0}}
                    IN  Threshold(snapshot, n) =
                          IF deciding = {} THEN snapshot.global
                          ELSE snapshot.rules[SubSeq(n, 1, Max(deciding))]
  BY DEF NearestRuleDecides
<1>1. snapshot \in Configs
  BY DEF ConfigurationInv, TypeOk
<1>2. {k \in 1..Len(n) : Rule(snapshot, SubSeq(n, 1, k)) \in Nat \ {0}} = Deciding(snapshot, n)
  BY <1>1, RuleType DEF Deciding, Decides
<1>3. CASE Deciding(snapshot, n) = {}
  BY <1>1, <1>2, <1>3, ThresholdFacts
<1>4. CASE Deciding(snapshot, n) # {}
  <2>1. Len(n) \in Nat /\ Deciding(snapshot, n) \in SUBSET (0..Len(n))
    BY NameType DEF Deciding
  <2>2. Max(Deciding(snapshot, n)) \in Deciding(snapshot, n)
    BY <1>4, <2>1, MaxFacts
  <2>3. Rule(snapshot, SubSeq(n, 1, Max(Deciding(snapshot, n)))) # Omitted
    BY <2>2 DEF Deciding, Decides
  <2>4. Threshold(snapshot, n) = Rule(snapshot, SubSeq(n, 1, Max(Deciding(snapshot, n))))
    BY <1>1, <1>4, ThresholdFacts
  <2> QED
    BY <1>1, <1>2, <1>4, <2>3, <2>4, RuleType
<1> QED
  BY <1>3, <1>4

(* The threshold of a logger is the nonzero rule of its nearest ancestor or *)
(* itself, else the global level (_resolve_threshold).                      *)
THEOREM NearestSafe == Spec => []NearestRuleDecides
BY InvDecides, ConfigurationInvariance, PTL

(****************************************************************************)
(* Whom a call concerns.                                                    *)
(****************************************************************************)
LEMMA NextNamesOnly ==
    ASSUME ConfigurationInv, [Next]_vars, NEW t \in Threads,
           candidate[t] # NoConfig, snapshot # NoConfig, snapshot' # snapshot
    PROVE  /\ call[t].kind = "rule" => \A n \in Names :
                 Under(n, call[t].name) \/ Threshold(snapshot', n) = Threshold(snapshot, n)
           /\ call[t].kind = "configure" /\ ~call[t].reload => snapshot'.rules = snapshot.rules
<1>1. lock = t /\ lock # Nobody
  BY ThreadAssumption DEF ConfigurationInv, CandidateFits
<1>2. Publish(t)
  <2>1. PICK u \in Threads : Publish(u) \/ Shutdown(u)
    BY DEF Next, vars, store, Enter, Prepare, Refuse, FailToConstruct, ReturnEarly, HostSetsEnviron
  <2>2. ~Shutdown(u)
    BY <1>1 DEF Shutdown, LockFree
  <2>3. u = t
    BY <1>1, <2>1, <2>2 DEF Publish, ConfigurationInv, CandidateFits
  <2> QED
    BY <2>1, <2>2, <2>3
<1>3. /\ snapshot' = Build(candidate[t].environment, OverridesOf(call[t], overrides),
                           RulesOf(call[t], rules))
      /\ Reads(call[t]) \/ candidate[t].environment = environment
  BY <1>2 DEF Publish, Store, ConfigurationInv, CandidateFits
<1>4. environment # Unread /\ snapshot = Build(environment, overrides, rules)
  BY DEF ConfigurationInv, InForce
<1>5. call[t] \in Requests
  BY DEF ConfigurationInv, TypeOk, CandidateFits
<1>6. ASSUME call[t].kind = "rule", NEW n \in Names, ~Under(n, call[t].name)
      PROVE  Threshold(snapshot', n) = Threshold(snapshot, n)
  <2> DEFINE name == call[t].name
  <2>1. snapshot' = Build(environment, overrides, WithRule(rules, name, call[t].level))
    BY <1>3, <1>4, <1>6 DEF Reads, OverridesOf, RulesOf
  <2>2. snapshot \in Configs /\ snapshot' \in Configs
    <3>1. candidate[t] \in Candidates /\ snapshot' = candidate[t].config
      BY <1>2 DEF Publish, Store, ConfigurationInv, TypeOk
    <3> QED
      BY <3>1 DEF Candidates, ConfigurationInv, TypeOk
  <2>3. snapshot'.global = snapshot.global
    BY <1>4, <2>1 DEF Build
  <2>4. ASSUME NEW k \in 1..Len(n)
        PROVE  Rule(snapshot', SubSeq(n, 1, k)) = Rule(snapshot, SubSeq(n, 1, k))
    <3> DEFINE path == SubSeq(n, 1, k)
    <3>1. Len(path) = k /\ k <= Len(n)
      BY NameType
    <3>2. path # name
      BY <1>6, <3>1 DEF Under
    <3>3. rules \in Rules
      BY DEF ConfigurationInv, TypeOk
    <3> HIDE DEF path
    <3>4. path \in Names => snapshot'.rules[path] = snapshot.rules[path]
      BY <1>4, <2>1, <3>2, <3>3 DEF Build, Over, WithRule, Rules
    <3> QED
      BY <3>4 DEF Rule, path
  <2> QED
    BY <2>2, <2>3, <2>4, ThresholdSame
<1>7. ASSUME call[t].kind = "configure", ~call[t].reload PROVE snapshot'.rules = snapshot.rules
  <2>1. candidate[t].environment = environment /\ RulesOf(call[t], rules) = rules
    BY <1>3, <1>4, <1>7 DEF Reads, RulesOf
  <2> QED
    BY <1>3, <1>4, <2>1 DEF Build
<1> QED
  BY <1>6, <1>7

(* A rule concerns its logger and those below it; a configure call without  *)
(* a reload concerns no rule, although os.environ may have changed since it *)
(* was captured (_update, package_rule, read_environment).                  *)
THEOREM NamedOnlySafe == Spec => NamedOnly
<1>1. ConfigurationInv /\ [Next]_vars =>
        [\A t \in Threads :
            candidate[t] # NoConfig /\ snapshot # NoConfig /\ snapshot' # snapshot =>
              /\ call[t].kind = "rule" => \A n \in Names :
                    Under(n, call[t].name) \/ Threshold(snapshot', n) = Threshold(snapshot, n)
              /\ call[t].kind = "configure" /\ ~call[t].reload =>
                    snapshot'.rules = snapshot.rules]_vars
  BY NextNamesOnly
<1> QED
  BY <1>1, ConfigurationInvariance, PTL DEF Spec, NamedOnly
==============================================================================
