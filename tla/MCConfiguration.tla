--------------------------- MODULE MCConfiguration ---------------------------
(* Small instances of Configuration for TLC. *)
EXTENDS Configuration, TLC

CONSTANTS t1, t2

a == <<"a">>
c == <<"a", "b", "c">>

MCNames == {a, c, <<"x">>}

Variables(level, debugging, set) ==
    [settings |-> [key \in Keys |-> IF key = "level" THEN level ELSE debugging],
     rules |-> set]
RuleFor(name, level) == [n \in Names |-> IF n = name THEN level ELSE Omitted]

(* An empty environment, one with a setting and a rule, one with a rule and *)
(* a debugging flag, and two that cannot be read.                           *)
MCEnvirons == {Variables(Omitted, Omitted, NoRules), Variables(30, Omitted, RuleFor(a, 10)),
               Variables(Omitted, FALSE, RuleFor(c, 0)),
               Variables(Bad, Omitted, NoRules), Variables(Omitted, Omitted, Bad)}

Change(level, debugging, again) ==
    [kind |-> "configure", reload |-> again,
     changes |-> [key \in Keys |-> IF key = "level" THEN level ELSE debugging]]
MCRequests ==
    {Change(30, Omitted, FALSE), Change(Reset, TRUE, FALSE), Change(Omitted, Reset, TRUE),
     Change(0, Bad, FALSE)}
    \union [kind : {"rule"}, name : {a}, level : {10, Reset}]
    \union [kind : {"rule"}, name : {c}, level : {0, 30, Reset}]
    \union [kind : {"ensure", "shutdown"}]

(* The threads are alike. *)
Alike == Permutations(Threads)
==============================================================================
