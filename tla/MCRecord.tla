------------------------------- MODULE MCRecord -------------------------------
(* Small instances of Record, and of EventSnapshot in it, for TLC. *)
EXTENDS Record, TLC

CONSTANTS c1, c2, e1, e2, e3, e4, p, q, r, m, s, i, o, long

(* p and q are long and begin alike, r is the name q gets beside p, and m   *)
(* is the marker's own.                                                     *)
MCKindOf == [k \in {p, q, r, m} |-> "plain"] @@ s :> "standard" @@ i :> "internal" @@ o :> "odd"
MCTextOf == p :> <<long, 1>> @@ q :> <<long, 1>> @@ r :> <<long, 2>> @@ m :> <<Marker, 1>>
               @@ s :> <<s, 1>> @@ i :> <<i, 1>> @@ o :> <<o, 1>>

(* Nothing tells the containers apart.                                      *)
Alike == Permutations(Containers)

(* The parts of a call do not interact: each state is interesting in one of *)
(* them.                                                                    *)
NoMetadata  == contents = [c \in Nodes |-> [j \in 1..(IF c = Root THEN Len(order) ELSE 0) |-> Leaf]]
NoArguments == given = [extra |-> {}, keywords |-> {}, stacklevel |-> 1] /\ host = {} /\ order = << >>
OneFrame    == frames = Facade \o <<"user">>
Calm == chain = [cause |-> [e \in Exceptions |-> NoException],
                 context |-> [e \in Exceptions |-> NoException],
                 suppress |-> [e \in Exceptions |-> FALSE], raised |-> NoException]

AnyMetadata  == /\ \E len \in [Nodes -> 0..MaxLength] :
                      /\ Bounded([c \in Nodes |-> [j \in 1..len[c] |-> Leaf]])
                      /\ \E root \in [1..len[Root] -> Values], one \in [1..len[c1] -> Values],
                            two \in [1..len[c2] -> Values] :
                            contents = Root :> root @@ c1 :> one @@ c2 :> two
                /\ order = SubSeq(<<p, q, r, m>>, 1, Len(contents[Root]))
                /\ given = [extra |-> ToSet(order), keywords |-> {}, stacklevel |-> 1] /\ host = {}
AnyArguments == /\ given \in [extra : SUBSET {p, q, m, s, o}, keywords : SUBSET {q, r, i},
                              stacklevel : 0..1]
                /\ host \in SUBSET {p, r, i}
                /\ Cardinality(DOMAIN Attributes) <= MaxLength
                /\ order \in SetToSeqs(DOMAIN Attributes)
AnyFrames == /\ given \in [extra : {{}}, keywords : {{}}, stacklevel : 1..(MaxOuter + 1)]
             /\ host = {} /\ order = << >>
             /\ frames \in {Facade \o outer : outer \in BoundedSeq(Modules, MaxOuter)}

(* e1 is raised; it and the others have a cause (and a context beside it),  *)
(* a context, or a suppressed context.                                      *)
AnyChain == \E next \in [Exceptions -> Exceptions \union {NoException}],
               first, others \in {"cause", "context", "suppressed"} :
    LET kind == [e \in Exceptions |-> IF e = e1 THEN first ELSE others] IN
    chain = [cause |-> [e \in Exceptions |-> IF kind[e] = "cause" THEN next[e] ELSE NoException],
             context |-> [e \in Exceptions |-> IF kind[e] = "cause" THEN e2 ELSE next[e]],
             suppress |-> [e \in Exceptions |-> kind[e] = "suppressed"],
             raised |-> e1]

MCInit == /\ \/ AnyMetadata /\ OneFrame /\ Calm
             \/ AnyArguments /\ NoMetadata /\ OneFrame /\ Calm
             \/ AnyFrames /\ NoMetadata /\ Calm
             \/ NoArguments /\ NoMetadata /\ OneFrame /\ AnyChain
          /\ RecordInit

(* The application disturbs the copy where the metadata is the interest.    *)
ChangesApart == contents' # contents =>
    /\ order = SubSeq(<<p, q, r, m>>, 1, Len(order)) /\ given.extra = ToSet(order)
    /\ given.keywords = {} /\ host = {} /\ OneFrame /\ Calm

MCSpec == MCInit /\ [][RecordNext]_recordVars
==============================================================================
