----------------------------- MODULE EventSnapshot -----------------------------
(****************************************************************************)
(* The copy of a record's metadata into bounded immutable containers:       *)
(* core/helper/event.py, class _Snapshot.  The recursion of convert is a    *)
(* stack of open containers; the application may change a container while   *)
(* it is being copied.                                                      *)
(*                                                                          *)
(* A scalar, a string or an unsupported object is Leaf.  What is abstracted *)
(* is the copy itself: what is kept is which values are visited.            *)
(****************************************************************************)
EXTENDS Naturals, Sequences, SequencesExt

CONSTANTS Root,        \* the mapping of the record's attributes, make_event's own
          Containers,  \* the application's mappings, lists and tuples
          Leaf,        \* any other value
          MaxLength,   \* bound: the items of a container
          MaxTotal,    \* bound: the items of all the containers
          MaxChanges,  \* bound: the application's changes
          MaxDepth,    \* METADATA_MAX_DEPTH_INT
          MaxItems,    \* METADATA_MAX_ITEMS_INT
          MaxNodes     \* METADATA_MAX_NODES_INT

Nodes    == Containers \union {Root}
Values   == Containers \union {Leaf}
Contents == BoundedSeq(Values, MaxLength)
Bounded(graph) == SumFunction([c \in Nodes |-> Len(graph[c])]) <= MaxTotal
Frames   == [node : Nodes, next : 1..(MaxLength + 1)]

ASSUME LimitAssumption == {MaxDepth, MaxNodes} \subseteq Nat \ {0} /\ MaxItems \in Nat
ASSUME RootAssumption  == Root \notin Containers /\ Leaf \notin Containers
ASSUME BoundAssumption == {MaxLength, MaxTotal, MaxChanges} \subseteq Nat

VARIABLES
    contents,  \* the items of each container, in order
    changes,   \* how often the application has changed one
    open,      \* the calls of convert under way, the innermost last
    ancestors, \* _ancestors
    remaining, \* _remaining
    visited    \* history: the calls of convert

work == <<open, ancestors, remaining, visited>>
vars == <<contents, changes, open, ancestors, remaining, visited>>

TypeOk ==
    /\ contents \in [Nodes -> Contents]
    /\ changes \in 0..MaxChanges
    /\ open \in Seq(Frames)
    /\ ancestors \subseteq Nodes
    /\ remaining \in 0..MaxNodes
    /\ visited \in Nat

(* convert is called with the attributes, which no other container holds.   *)
Frame(c) == [node |-> c, next |-> 1]
Init ==
    /\ contents \in [Nodes -> Contents] /\ Bounded(contents)
    /\ changes = 0
    /\ open = <<Frame(Root)>> /\ ancestors = {Root}
    /\ remaining = MaxNodes - 1
    /\ visited = 1

Top   == Last(open)
Items == contents[Top.node]

(****************************************************************************)
(* One turn of the loop over the items of the innermost container.          *)
(****************************************************************************)
(* The item comes out as a scalar or a marker: a leaf, a container that is  *)
(* being copied already, or one too deep.                                   *)
SettledLater(v) == v = Leaf \/ v \in ancestors \/ Len(open) > MaxDepth
Settled(v) == v = Leaf \/ v \in ancestors \/ Len(open) >= MaxDepth

ItemsOnly == Top.next - 1 >= MaxItems
Exhausted == Top.next - 1 >= MaxItems \/ remaining = 0

Advanced == [open EXCEPT ![Len(open)].next = @ + 1]

ConvertItem ==
    /\ open # << >> /\ Top.next <= Len(Items) /\ ~Exhausted
    /\ LET v == Items[Top.next] IN
          IF Settled(v)
          THEN open' = Advanced /\ UNCHANGED ancestors
          ELSE /\ open' = Append(Advanced, Frame(v))
               /\ ancestors' = ancestors \union {v}
    /\ remaining' = remaining - 1
    /\ visited' = visited + 1
    /\ UNCHANGED <<contents, changes>>

(* The innermost call returns, and its finally forgets the container. *)
ForgottenNever == ancestors
Forgotten == ancestors \ {Top.node}
Return ==
    /\ ancestors' = Forgotten
    /\ open' = Front(open)
    /\ UNCHANGED <<contents, changes, remaining, visited>>

(* All the items are done. *)
Finish ==
    /\ open # << >> /\ Top.next > Len(Items)
    /\ Return

(* Too many items, or too many nodes in all: a marker stands for the rest.  *)
Truncate ==
    /\ open # << >> /\ Top.next <= Len(Items) /\ Exhausted
    /\ Return

(* A key that is not a string, or an iteration that raises (a mapping that  *)
(* has changed size does): the text of the object replaces its copy.        *)
Abandon ==
    /\ open # << >>
    /\ Return

(* The application changes one of its containers, from another thread.      *)
Change(c) ==
    /\ open # << >> /\ changes < MaxChanges
    /\ \E items \in Contents :
          items # contents[c] /\ contents' = [contents EXCEPT ![c] = items]
    /\ Bounded(contents')
    /\ changes' = changes + 1
    /\ UNCHANGED work

Done == open = << >> /\ UNCHANGED vars

Convert == ConvertItem \/ Finish \/ Truncate \/ Abandon
Next == Convert \/ (\E c \in Containers : Change(c)) \/ Done

Spec == Init /\ [][Next]_vars

(****************************************************************************)
(* Properties.                                                              *)
(****************************************************************************)
(* The ancestors are the containers being copied, each once, whatever was   *)
(* abandoned on the way and however the application rewires them: a cycle   *)
(* is never entered, and a container shared by two others is not one.       *)
AncestorsAreOpen ==
    /\ ancestors = {open[i].node : i \in DOMAIN open}
    /\ Cardinality(ancestors) = Len(open)

(* At most MaxDepth containers are nested, at most MaxItems items of each   *)
(* are copied, and at most MaxNodes values are visited in all, whatever     *)
(* grows meanwhile (README, "within these bounds").                         *)
LimitsHold == /\ Len(open) <= MaxDepth /\ visited <= MaxNodes
              /\ \A i \in DOMAIN open : open[i].next - 1 <= MaxItems
==============================================================================
