--------------------------- MODULE MCRuntimeSignals ---------------------------
(* A thread that configures and a handler that shuts down inside it. *)
EXTENDS RuntimeSignals, TLC

CONSTANTS t1, c1, k1

MCSlotOf == [r \in Resources |-> "console"]
Handles  == [t \in Threads |-> IF t = t1 THEN {"configure", "interrupt"} ELSE {"host"}]
Console  == {[s \in Slots |-> IF s = "console" THEN k1 ELSE NoKey]}
==============================================================================
