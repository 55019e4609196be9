------------------------------ MODULE MCDelivery ------------------------------
(* Small instances of Delivery for TLC. *)
EXTENDS Delivery, TLC

CONSTANTS p1, p2, f1, f2, e1, e2, e3

(* Threads of one kind are alike, and so are the events. *)
Alike == Permutations(Emitters) \union Permutations(Flushers) \union Permutations(Events)
==============================================================================
