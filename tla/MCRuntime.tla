------------------------------ MODULE MCRuntime ------------------------------
(* Small instances of Runtime for TLC. *)
EXTENDS RuntimeInvariants, TLC

CONSTANTS t1, t2, c1, c2, s1, s2, k1, k2

MCSlotOf == [r \in Resources |-> IF r \in {s1, s2} THEN "sentry" ELSE "console"]

(* Who calls what. *)
FlatCalls   == [t \in Threads |-> Calls \ {"nested", "host", "interrupt"}]
NestedCalls == [t \in Threads |-> IF t = t1 THEN {"record", "nested", "configure", "flush", "shutdown"}
                                  ELSE {"host", "configure", "shutdown"}]
LogAndManage == [t \in Threads |-> IF t = t1 THEN {"record", "flush"}
                                   ELSE {"configure", "rule"}]

(* What configure may ask for. *)
ConsoleOnly(k) == [s \in Slots |-> IF s = "console" THEN k ELSE NoKey]
Both(k)        == [s \in Slots |-> IF s = "console" THEN k1 ELSE k]
Neither        == [s \in Slots |-> NoKey]
SwitchConsole  == {Neither, ConsoleOnly(k1)}
SwitchSentry   == {ConsoleOnly(k1)} \union {Both(k) : k \in Keys}

(* Threads that make the same calls, and resources of one kind, are alike. *)
Alike     == Permutations(Resources \cap {c1, c2}) \union Permutations(Resources \cap {s1, s2})
AllAlike  == Alike \union Permutations(Threads)
==============================================================================
