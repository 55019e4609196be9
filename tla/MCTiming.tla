------------------------------- MODULE MCTiming -------------------------------
(* Small instances of Timing for TLC. *)
EXTENDS Timing, TLC

CONSTANTS main, task, other, work

(* The contexts made later are alike. *)
Alike == Permutations(Contexts \ {main})
==============================================================================
