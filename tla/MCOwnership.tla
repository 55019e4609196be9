----------------------------- MODULE MCOwnership -----------------------------
(* Small instances of Ownership, with the records of Dispatch, for TLC. *)
EXTENDS Dispatch, TLC

CONSTANTS a, h1, h2, t1

(* The foreign handlers are alike. *)
MCForeign == Permutations(Foreign)

(* Records are followed only while the levels and rules are at rest: they   *)
(* do not touch the list that a record walks.                               *)
LevelsAtRest == /\ manage /\ environ = [n \in Names |-> Omitted] /\ rules = environ
                /\ hostLevel = [l \in Loggers |-> 0]
RecordsApart == (\E t \in Emitters : walk'[t].at # 0) => LevelsAtRest'
==============================================================================
