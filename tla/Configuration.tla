----------------------------- MODULE Configuration -----------------------------
(****************************************************************************)
(* How configuration is resolved and published: the environment as captured *)
(* once, the runtime overrides and package rules kept beside it, the        *)
(* candidate a transition builds from them, and the threshold of a logger.  *)
(* core/service/configuration.py, and _update and package_rule of           *)
(* core/service/runtime.py.                                                 *)
(*                                                                          *)
(* Two settings stand for all: "level" and "debugging", the two that        *)
(* interact; every other key is merged the same way and has a default.  A   *)
(* setting's text is a value or Bad, one its normalizer rejects.  Logger    *)
(* names are sequences of segments.                                         *)
(****************************************************************************)
EXTENDS Naturals, Sequences, FiniteSetsExt

CONSTANTS Threads,
          Segments,  \* what stands between the dots of a logger's name
          Names,     \* the loggers, as sequences of segments
          Levels,    \* the thresholds the inputs use
          Omitted,   \* nothing: no variable, no override, no rule
          Reset,     \* None: back to the environment's value
          Bad,       \* a value that normalization rejects
          Unread,    \* the environment before the first transition
          NoConfig,  \* no snapshot, no candidate
          Nobody,    \* the transition lock is free
          Environs,  \* what os.environ may hold
          Requests   \* the calls that threads make

Keys == {"level", "debugging"}

(* Settings that passed normalization, and rules by exact name. *)
SettingsOr(marks) == [level : Levels \union marks, debugging : BOOLEAN \union marks]
Settings == SettingsOr({Omitted})
Rules    == [Names -> Levels \union {Omitted}]
Environments == [settings : Settings, rules : Rules]
Configs  == [global : 0..50, rules : Rules]
Candidates == [environment : Environments, overrides : Settings, rules : Rules,
               config : Configs]

ASSUME NameAssumption == Names \subseteq Seq(Segments) \ {<< >>}
ASSUME ThreadAssumption == Nobody \notin Threads
ASSUME ValueAssumption == Levels \subseteq 0..50 /\ Omitted \notin Nat
ASSUME EnvironAssumption ==
    /\ Environs \subseteq [settings : SettingsOr({Omitted, Bad}), rules : Rules \union {Bad}]
    /\ Unread \notin Environs
ASSUME RequestAssumption == \A q \in Requests :
    \/ q.kind = "configure" /\ q.changes \in SettingsOr({Omitted, Reset, Bad}) /\ q.reload \in BOOLEAN
    \/ q.kind = "rule" /\ q.name \in Names /\ q.level \in Levels \union {Reset}
    \/ q.kind \in {"ensure", "shutdown"}

VARIABLES
    environ,      \* os.environ, the host's
    environment,  \* _environment: the validated copy in use, or Unread
    overrides,    \* _overrides
    rules,        \* _rules
    snapshot,     \* _snapshot's config, or NoConfig
    stopped,      \* _stopped
    lock,         \* the holder of the transition lock
    call,         \* what each thread asks for, Omitted between calls
    candidate,    \* what each thread has built and not published
    asked         \* history: the settings and rules that accepted calls ask for

store == <<environment, overrides, rules, snapshot, stopped, asked>>
vars  == <<environ, environment, overrides, rules, snapshot, stopped, lock,
           call, candidate, asked>>

Nothing  == [key \in Keys |-> Omitted]
NoRules  == [n \in Names |-> Omitted]

TypeOk ==
    /\ environ \in Environs
    /\ environment \in Environments \union {Unread}
    /\ overrides \in Settings /\ rules \in Rules
    /\ snapshot \in Configs \union {NoConfig}
    /\ stopped \in BOOLEAN
    /\ lock \in Threads \union {Nobody}
    /\ call \in [Threads -> Requests \union {Omitted}]
    /\ candidate \in [Threads -> Candidates \union {NoConfig}]
    /\ asked \in [settings : Settings, rules : Rules]

Init ==
    /\ environ \in Environs
    /\ environment = Unread
    /\ overrides = Nothing /\ rules = NoRules
    /\ snapshot = NoConfig /\ stopped = FALSE
    /\ lock = Nobody
    /\ call = [t \in Threads |-> Omitted]
    /\ candidate = [t \in Threads |-> NoConfig]
    /\ asked = [settings |-> Nothing, rules |-> NoRules]

(****************************************************************************)
(* Resolution.                                                              *)
(****************************************************************************)
Over(top, bottom) == [k \in DOMAIN top |-> IF top[k] # Omitted THEN top[k] ELSE bottom[k]]

(* DEBUG when debugging, else the level, else ERROR when not debugging.     *)
GlobalLevel(settings) ==
    IF settings.debugging = TRUE THEN 10
    ELSE IF settings.level # Omitted THEN settings.level
    ELSE IF settings.debugging = FALSE THEN 40 ELSE 20

(* build_config: the runtime's value hides the environment's, per key and   *)
(* per exact logger name.                                                   *)
Build(env, over, run) == [global |-> GlobalLevel(Over(over, env.settings)),
                          rules  |-> Over(run, env.rules)]

(* _resolve_threshold: the walk from the name to its ancestors, where zero  *)
(* is passed over like no rule.                                             *)
Rule(config, path) == IF path \in Names THEN config.rules[path] ELSE Omitted
ThresholdZeroStops(config, name) ==
    LET at[k \in 0..Len(name)] ==
            IF k = 0 THEN config.global
            ELSE LET level == Rule(config, SubSeq(name, 1, k)) IN
                 IF level # Omitted THEN level ELSE at[k - 1]
    IN  at[Len(name)]
Threshold(config, name) ==
    LET at[k \in 0..Len(name)] ==
            IF k = 0 THEN config.global
            ELSE LET level == Rule(config, SubSeq(name, 1, k)) IN
                 IF level \notin {Omitted, 0} THEN level ELSE at[k - 1]
    IN  at[Len(name)]

(* read_environment: one bad text refuses the whole environment. *)
Readable(env) == env.rules # Bad /\ \A key \in Keys : env.settings[key] # Bad

(* The changes of a configure call, applied to a copy of the overrides. *)
Applied(changes, settings) ==
    [key \in Keys |-> CASE changes[key] = Omitted -> settings[key]
                        [] changes[key] = Reset -> Omitted
                        [] OTHER -> changes[key]]
WithReset(set, name, level) == [set EXCEPT ![name] = level]
WithRule(set, name, level) ==
    [set EXCEPT ![name] = IF level = Reset THEN Omitted ELSE level]

(****************************************************************************)
(* A call, from its entry to its return.                                    *)
(****************************************************************************)
(* Serialised transitions; and the slip of building without the lock. *)
Unlocked == TRUE
LockFree == lock = Nobody

ReadsAgain(q) == environment = Unread \/ q.kind # "shutdown"
Reads(q) == environment = Unread \/ (q.kind = "configure" /\ q.reload)

Enter(t) ==
    /\ call[t] = Omitted
    /\ \E q \in Requests : call' = [call EXCEPT ![t] = q]
    /\ UNCHANGED <<environ, store, lock, candidate>>

Return(t) == call' = [call EXCEPT ![t] = Omitted]

(* The outcome of _update up to its publication, from the state under the   *)
(* lock: none when the environment or a value is refused.                   *)
Acceptable(q) ==
    /\ Reads(q) => Readable(environ)
    /\ q.kind = "configure" => \A key \in Keys : q.changes[key] # Bad
Built(q) ==
    LET env  == IF Reads(q) THEN environ ELSE environment
        over == IF q.kind = "configure" THEN Applied(q.changes, overrides) ELSE overrides
        run  == IF q.kind = "rule" THEN WithRule(rules, q.name, q.level) ELSE rules
    IN  [environment |-> env, overrides |-> over, rules |-> run,
         config |-> Build(env, over, run)]

(* ensure has nothing to do once configured or stopped; a stopped runtime   *)
(* only remembers a rule.                                                   *)
Updates(q) == /\ q.kind # "shutdown"
              /\ q.kind = "ensure" => snapshot = NoConfig /\ ~stopped
              /\ q.kind = "rule" => ~stopped

(* t is in a call that has built nothing yet. *)
Asking(t) == call[t] # Omitted /\ candidate[t] = NoConfig

Prepare(t) ==
    /\ Asking(t) /\ LockFree
    /\ Updates(call[t]) /\ Acceptable(call[t])
    /\ lock' = t
    /\ candidate' = [candidate EXCEPT ![t] = Built(call[t])]
    /\ UNCHANGED <<environ, store, call>>

(* The configuration error leaves with nothing changed. *)
Refuse(t) ==
    /\ Asking(t) /\ LockFree
    /\ Updates(call[t]) /\ ~Acceptable(call[t])
    /\ Return(t)
    /\ UNCHANGED <<environ, store, lock, candidate>>

(* A provider that cannot be constructed raises before the publication. *)
FailToConstruct(t) ==
    /\ candidate[t] # NoConfig
    /\ lock' = Nobody
    /\ candidate' = [candidate EXCEPT ![t] = NoConfig]
    /\ Return(t)
    /\ UNCHANGED <<environ, store>>

(* History: what an accepted call asks for. *)
Asked(q) ==
    [settings |-> IF q.kind = "configure" THEN Applied(q.changes, asked.settings)
                  ELSE asked.settings,
     rules    |-> IF q.kind = "rule" THEN WithRule(asked.rules, q.name, q.level)
                  ELSE asked.rules]

(* The four assignments that publish, under the state lock. *)
Store(c) ==
    /\ environment' = c.environment /\ overrides' = c.overrides /\ rules' = c.rules
    /\ snapshot' = c.config

Publish(t) ==
    /\ candidate[t] # NoConfig
    /\ Store(candidate[t])
    /\ stopped' = FALSE
    /\ asked' = Asked(call[t])
    /\ lock' = Nobody
    /\ candidate' = [candidate EXCEPT ![t] = NoConfig]
    /\ Return(t)
    /\ UNCHANGED environ

(* ensure that finds a snapshot, or a rule for a stopped runtime. *)
ReturnEarly(t) ==
    /\ Asking(t) /\ LockFree
    /\ call[t].kind # "shutdown" /\ ~Updates(call[t])
    /\ rules' = IF call[t].kind = "rule" THEN WithRule(rules, call[t].name, call[t].level)
                ELSE rules
    /\ asked' = Asked(call[t])
    /\ Return(t)
    /\ UNCHANGED <<environ, environment, overrides, snapshot, stopped, lock, candidate>>

(* shutdown takes the snapshot down and keeps everything configured. *)
Shutdown(t) ==
    /\ Asking(t) /\ LockFree
    /\ call[t].kind = "shutdown"
    /\ snapshot' = NoConfig /\ stopped' = TRUE
    /\ Return(t)
    /\ UNCHANGED <<environ, environment, overrides, rules, lock, candidate, asked>>

HostSetsEnviron ==
    /\ environ' \in Environs
    /\ UNCHANGED <<store, lock, call, candidate>>

Next == \/ \E t \in Threads :
              \/ Enter(t) \/ Prepare(t) \/ Refuse(t) \/ FailToConstruct(t)
              \/ Publish(t) \/ ReturnEarly(t) \/ Shutdown(t)
        \/ HostSetsEnviron

Spec == Init /\ [][Next]_vars

(****************************************************************************)
(* Properties.                                                              *)
(****************************************************************************)
(* The configuration in force is what the accepted calls ask for, last one  *)
(* first, over the captured environment: no update of two threads is lost,  *)
(* a refused or failed call leaves no trace, and a rule given to a stopped  *)
(* runtime counts when it restarts.                                         *)
InForce ==
    /\ overrides = asked.settings /\ rules = asked.rules
    /\ snapshot # NoConfig =>
          /\ environment # Unread
          /\ snapshot = Build(environment, asked.settings, asked.rules)

(* The threshold of a logger is the nonzero rule of the longest prefix of   *)
(* its name that has one, or the global level when none has.                *)
NearestRuleDecides == snapshot # NoConfig => \A n \in Names :
    LET deciding == {k \in 1..Len(n) :
                        Rule(snapshot, SubSeq(n, 1, k)) \in Nat \ {0}}
    IN  Threshold(snapshot, n) =
            IF deciding = {} THEN snapshot.global ELSE snapshot.rules[SubSeq(n, 1, Max(deciding))]

(* A call on one rule moves the thresholds of that logger and of loggers    *)
(* below it, never of another; and, unless it reloads the environment, a    *)
(* configure call moves no rule, whatever the host did to os.environ.       *)
Under(n, name) == Len(name) <= Len(n) /\ SubSeq(n, 1, Len(name)) = name
NamedOnly == [][\A t \in Threads :
    candidate[t] # NoConfig /\ snapshot # NoConfig /\ snapshot' # snapshot =>
        /\ call[t].kind = "rule" => \A n \in Names :
              Under(n, call[t].name) \/ Threshold(snapshot', n) = Threshold(snapshot, n)
        /\ call[t].kind = "configure" /\ ~call[t].reload => snapshot'.rules = snapshot.rules]_vars
==============================================================================
