----------------------------- MODULE RecordProofs -----------------------------
(****************************************************************************)
(* The copy of a record's metadata (EventSnapshot), for any containers and  *)
(* limits, and what an event carries and tells (Record), for any keys and   *)
(* exceptions.                                                              *)
(****************************************************************************)
EXTENDS Record, ListLemmas, FiniteSetTheorems

(* The containers being copied, each once, are the ancestors; and each call *)
(* of convert has used up one node.                                         *)
NodesDiffer == \A i, j \in DOMAIN open : open[i].node = open[j].node => i = j
NodesCounted == visited + remaining = MaxNodes
ItemsCounted == \A i \in DOMAIN open : open[i].next - 1 <= MaxItems

CopyInv == /\ TypeOk
           /\ NodesDiffer
           /\ AncestorsAreOpen
           /\ IsFiniteSet(ancestors)
           /\ NodesCounted
           /\ ItemsCounted
           /\ Len(open) <= MaxDepth

LEMMA CopyInit == ASSUME Init PROVE CopyInv
<1> DEFINE c == Root
<1>1. open = <<Frame(c)>> /\ ancestors = {c}
  BY DEF Init
<1>2. Frame(c) \in Frames /\ Frame(c).node = c /\ Frame(c).next = 1
  BY BoundAssumption DEF Frame, Frames, Nodes
<1>3. /\ open \in Seq(Frames) /\ Len(open) = 1 /\ DOMAIN open = {1} /\ open[1].node = c
      /\ open[1].next = 1
  BY <1>1, <1>2
<1>4. TypeOk
  BY <1>1, <1>3, LimitAssumption, BoundAssumption DEF Init, TypeOk, Nodes
<1>5. Cardinality(ancestors) = 1 /\ IsFiniteSet(ancestors)
  BY <1>1, FS_Singleton
<1>6. AncestorsAreOpen /\ NodesDiffer
  BY <1>1, <1>3, <1>5 DEF AncestorsAreOpen, NodesDiffer
<1>7. NodesCounted /\ ItemsCounted /\ Len(open) <= MaxDepth
  BY <1>3, LimitAssumption DEF Init, NodesCounted, ItemsCounted
<1> QED
  BY <1>4, <1>5, <1>6, <1>7 DEF CopyInv

(****************************************************************************)
(* The stack of open containers.                                            *)
(****************************************************************************)
LEMMA OpenFacts ==
    ASSUME CopyInv, open # << >>
    PROVE  /\ Len(open) \in Nat \ {0} /\ DOMAIN open = 1..Len(open)
           /\ \A i \in 1..Len(open) : open[i] \in Frames
           /\ Top = open[Len(open)] /\ Top.node \in ancestors
           /\ IsFiniteSet(ancestors)
<1>1. Len(open) \in Nat \ {0} /\ DOMAIN open = 1..Len(open)
  BY DEF CopyInv, TypeOk
<1>2. Top = open[Len(open)]
  BY DEF Top, Last
<1>3. \A i \in 1..Len(open) : open[i] \in Frames
  BY <1>1 DEF CopyInv, TypeOk
<1>4. Top.node \in ancestors
  <2>1. Len(open) \in DOMAIN open
    BY <1>1
  <2>2. ancestors = {open[i].node : i \in DOMAIN open}
    BY DEF CopyInv, AncestorsAreOpen
  <2>3. open[Len(open)].node \in ancestors
    BY <2>1, <2>2
  <2> QED
    BY <1>2, <2>3
<1> QED
  BY <1>1, <1>2, <1>3, <1>4 DEF CopyInv

LEMMA SeqExcept ==
    ASSUME NEW S, NEW seq \in Seq(S), NEW n \in 1..Len(seq), NEW x \in S
    PROVE  /\ [seq EXCEPT ![n] = x] \in Seq(S)
           /\ Len([seq EXCEPT ![n] = x]) = Len(seq)
OBVIOUS

LEMMA AdvancedKeeps ==
    ASSUME CopyInv, open # << >>, Top.next <= MaxLength
    PROVE  /\ Advanced \in Seq(Frames) /\ Len(Advanced) = Len(open)
           /\ \A i \in 1..Len(open) :
                 /\ Advanced[i].node = open[i].node
                 /\ Advanced[i].next = IF i = Len(open) THEN Top.next + 1 ELSE open[i].next
<1>1. /\ Len(open) \in Nat \ {0} /\ Top = open[Len(open)]
      /\ \A i \in 1..Len(open) : open[i] \in Frames
  BY OpenFacts
<1>2. open \in Seq(Frames) /\ MaxLength \in Nat
  BY BoundAssumption DEF CopyInv, TypeOk
<1>3. Advanced = [open EXCEPT ![Len(open)] = [open[Len(open)] EXCEPT !.next = @ + 1]]
  BY DEF Advanced
<1>4. /\ [open[Len(open)] EXCEPT !.next = @ + 1] \in Frames
      /\ [open[Len(open)] EXCEPT !.next = @ + 1].node = open[Len(open)].node
      /\ [open[Len(open)] EXCEPT !.next = @ + 1].next = Top.next + 1
  <2> DEFINE f == open[Len(open)]
  <2>1. f \in Frames /\ f.next <= MaxLength
    BY <1>1
  <2> HIDE DEF f
  <2>2. /\ f \in [node : Nodes, next : 1..MaxLength + 1] /\ f.next \in Nat
        /\ f.next + 1 \in 1..MaxLength + 1
    BY <1>2, <2>1 DEF Frames
  <2>3. /\ [f EXCEPT !.next = f.next + 1] \in [node : Nodes, next : 1..MaxLength + 1]
        /\ [f EXCEPT !.next = f.next + 1].node = f.node
        /\ [f EXCEPT !.next = f.next + 1].next = f.next + 1
    BY <2>2
  <2> QED
    BY <1>1, <2>3 DEF f, Frames
<1>5. Advanced \in Seq(Frames) /\ Len(Advanced) = Len(open)
  <2>1. Len(open) \in 1..Len(open)
    BY <1>1
  <2> QED
    BY <1>2, <1>3, <1>4, <2>1, SeqExcept
<1> QED
  BY <1>1, <1>2, <1>3, <1>4, <1>5

LEMMA ReturnKeeps == ASSUME CopyInv, open # << >>, Return PROVE CopyInv'
<1>1. /\ Len(open) \in Nat \ {0} /\ DOMAIN open = 1..Len(open)
      /\ Top = open[Len(open)] /\ Top.node \in ancestors
      /\ IsFiniteSet(ancestors) /\ \A i \in 1..Len(open) : open[i] \in Frames
  BY OpenFacts
<1>2. /\ open' = SubSeq(open, 1, Len(open) - 1) /\ ancestors' = ancestors \ {Top.node}
      /\ UNCHANGED <<contents, changes, remaining, visited>>
  BY DEF Return, Forgotten, Front
<1>3. /\ open' \in Seq(Frames) /\ Len(open') = Len(open) - 1
      /\ DOMAIN open' = 1..(Len(open) - 1)
      /\ \A i \in 1..(Len(open) - 1) : open'[i] = open[i]
  BY <1>1, <1>2 DEF CopyInv, TypeOk
<1>4. TypeOk'
  BY <1>2, <1>3 DEF CopyInv, TypeOk
<1>5. NodesDiffer'
  BY <1>1, <1>3 DEF CopyInv, NodesDiffer
<1>6. ancestors' = {open'[i].node : i \in DOMAIN open'}
  <2>1. ancestors = {open[i].node : i \in 1..Len(open)}
    BY <1>1 DEF CopyInv, AncestorsAreOpen
  <2>2. \A i \in 1..(Len(open) - 1) : open[i].node # Top.node
    BY <1>1 DEF CopyInv, NodesDiffer
  <2>3. ancestors' = {open[i].node : i \in 1..(Len(open) - 1)}
    BY <1>1, <1>2, <2>1, <2>2
  <2> QED
    BY <1>3, <2>3
<1>7. Cardinality(ancestors') = Len(open')
  <2>1. Cardinality(ancestors') = Cardinality(ancestors) - 1
    BY <1>1, <1>2, FS_RemoveElement
  <2> QED
    BY <1>3, <2>1 DEF CopyInv, AncestorsAreOpen
<1>8. IsFiniteSet(ancestors')
  BY <1>1, <1>2, FS_RemoveElement
<1>9. NodesCounted' /\ ItemsCounted' /\ Len(open') <= MaxDepth
  BY <1>1, <1>2, <1>3, LimitAssumption DEF CopyInv, NodesCounted, ItemsCounted
<1> QED
  BY <1>4, <1>5, <1>6, <1>7, <1>8, <1>9 DEF CopyInv, AncestorsAreOpen

LEMMA ItemFacts ==
    ASSUME CopyInv, ConvertItem
    PROVE  Top.next <= MaxLength /\ Items[Top.next] \in Values
<1>1. open # << >> /\ Top.next <= Len(Items)
  BY DEF ConvertItem
<1>2. Top \in Frames
  BY <1>1, OpenFacts
<1>3. Top.node \in Nodes /\ Top.next \in 1..(MaxLength + 1) /\ Items \in Contents
  BY <1>2 DEF Frames, Items, CopyInv, TypeOk
<1>4. PICK k \in 0..MaxLength : Items \in [1..k -> Values]
  BY <1>3 DEF Contents, BoundedSeq, SeqOf
<1>5. Len(Items) = k /\ k \in Nat
  BY <1>4, BoundAssumption
<1> QED
  BY <1>1, <1>3, <1>4, <1>5, BoundAssumption

LEMMA ConvertItemKeeps == ASSUME CopyInv, ConvertItem PROVE CopyInv'
<1> DEFINE v == Items[Top.next]
<1>1. /\ open # << >> /\ Top.next <= Len(Items) /\ remaining # 0
      /\ ~(Top.next - 1 >= MaxItems)
      /\ remaining' = remaining - 1 /\ visited' = visited + 1
      /\ UNCHANGED <<contents, changes>>
  BY DEF ConvertItem, Exhausted
<1>2. /\ Len(open) \in Nat \ {0} /\ DOMAIN open = 1..Len(open)
      /\ Top = open[Len(open)] /\ Top \in Frames
      /\ IsFiniteSet(ancestors) /\ \A i \in 1..Len(open) : open[i] \in Frames
  BY <1>1, OpenFacts
<1>3. Top.next <= MaxLength /\ v \in Values
  BY ItemFacts
<1>4. /\ Advanced \in Seq(Frames) /\ Len(Advanced) = Len(open)
      /\ \A i \in 1..Len(open) :
            /\ Advanced[i].node = open[i].node
            /\ Advanced[i].next - 1 <= MaxItems
  <2>1. /\ Advanced \in Seq(Frames) /\ Len(Advanced) = Len(open)
        /\ \A i \in 1..Len(open) :
              /\ Advanced[i].node = open[i].node
              /\ Advanced[i].next = IF i = Len(open) THEN Top.next + 1 ELSE open[i].next
    BY <1>1, <1>3, AdvancedKeeps
  <2>2. Top.next \in Nat /\ Top.next + 1 - 1 <= MaxItems
    BY <1>1, <1>2, LimitAssumption, BoundAssumption DEF Frames
  <2>3. \A i \in 1..Len(open) : open[i].next - 1 <= MaxItems
    BY <1>2 DEF CopyInv, ItemsCounted
  <2> QED
    BY <2>1, <2>2, <2>3
<1>5. remaining' \in 0..MaxNodes /\ visited' \in Nat /\ NodesCounted'
  BY <1>1, LimitAssumption DEF CopyInv, TypeOk, NodesCounted
<1>6. ancestors = {open[i].node : i \in 1..Len(open)}
  BY <1>2 DEF CopyInv, AncestorsAreOpen
<1>7. CASE Settled(v)
  <2>1. open' = Advanced /\ ancestors' = ancestors
    BY <1>7 DEF ConvertItem
  <2>2. DOMAIN open' = 1..Len(open)
    BY <1>2, <1>4, <2>1
  <2>3. TypeOk'
    BY <1>1, <1>4, <1>5, <2>1 DEF CopyInv, TypeOk
  <2>4. NodesDiffer'
    BY <1>2, <1>4, <2>1, <2>2 DEF CopyInv, NodesDiffer
  <2>5. ancestors' = {open'[i].node : i \in DOMAIN open'}
    BY <1>4, <1>6, <2>1, <2>2
  <2>6. Len(open') <= MaxDepth /\ ItemsCounted'
    BY <1>4, <2>1, <2>2 DEF CopyInv, ItemsCounted
  <2> QED
    BY <1>4, <1>5, <2>1, <2>3, <2>4, <2>5, <2>6 DEF CopyInv, AncestorsAreOpen
<1>8. CASE ~Settled(v)
  <2>1. v \in Nodes /\ v \notin ancestors /\ Len(open) < MaxDepth
    BY <1>2, <1>3, <1>8, LimitAssumption DEF Settled, Values, Nodes
  <2>2. open' = Append(Advanced, Frame(v)) /\ ancestors' = ancestors \union {v}
    BY <1>8 DEF ConvertItem
  <2>3. Frame(v) \in Frames /\ Frame(v).node = v /\ Frame(v).next = 1
    BY <2>1, BoundAssumption DEF Frame, Frames
  <2>4. /\ open' \in Seq(Frames) /\ Len(open') = Len(open) + 1
        /\ DOMAIN open' = 1..(Len(open) + 1)
        /\ \A i \in 1..Len(open) : open'[i].node = open[i].node
        /\ open'[Len(open) + 1].node = v /\ open'[Len(open) + 1].next = 1
        /\ \A i \in 1..Len(open) : open'[i].next - 1 <= MaxItems
    BY <1>2, <1>4, <2>2, <2>3
  <2>5. TypeOk'
    BY <1>1, <1>5, <2>1, <2>2, <2>4 DEF CopyInv, TypeOk
  <2>6. \A i \in 1..Len(open) : open[i].node # v
    BY <1>6, <2>1
  <2>7. NodesDiffer'
    BY <1>2, <2>4, <2>6 DEF CopyInv, NodesDiffer
  <2>8. ancestors' = {open'[i].node : i \in DOMAIN open'}
    <3>1. {open'[i].node : i \in 1..Len(open)} = {open[i].node : i \in 1..Len(open)}
      BY <2>4
    <3>2. 1..(Len(open) + 1) = 1..Len(open) \union {Len(open) + 1}
      BY <1>2
    <3>3. {open'[i].node : i \in DOMAIN open'}
            = {open'[i].node : i \in 1..Len(open)} \union {v}
      BY <2>4, <3>2
    <3> QED
      BY <1>6, <2>2, <3>1, <3>3
  <2>9. Cardinality(ancestors') = Len(open')
    <3>1. Cardinality(ancestors') = Cardinality(ancestors) + 1
      BY <1>2, <2>1, <2>2, FS_AddElement
    <3> QED
      BY <2>4, <3>1 DEF CopyInv, AncestorsAreOpen
  <2>10. IsFiniteSet(ancestors')
    BY <1>2, <2>2, FS_AddElement
  <2>11. Len(open') <= MaxDepth /\ ItemsCounted'
    BY <1>2, <2>1, <2>4, LimitAssumption DEF ItemsCounted
  <2> QED
    BY <1>5, <2>5, <2>7, <2>8, <2>9, <2>10, <2>11 DEF CopyInv, AncestorsAreOpen
<1> QED
  BY <1>7, <1>8

(* The application's changes touch nothing but the contents. *)
LEMMA ChangeKeeps == ASSUME CopyInv, NEW c \in Containers, Change(c) PROVE CopyInv'
<1>1. PICK items \in Contents : contents' = [contents EXCEPT ![c] = items]
  BY DEF Change
<1>2. contents' \in [Nodes -> Contents]
  BY <1>1 DEF CopyInv, TypeOk, Nodes
<1>3. changes' \in 0..MaxChanges
  BY BoundAssumption DEF Change, CopyInv, TypeOk
<1>4. UNCHANGED <<open, ancestors, remaining, visited>>
  BY DEF Change, work
<1> QED
  BY <1>2, <1>3, <1>4
  DEF CopyInv, TypeOk, NodesDiffer, AncestorsAreOpen, NodesCounted, ItemsCounted

LEMMA StutterKeeps == ASSUME CopyInv, UNCHANGED vars PROVE CopyInv'
BY DEF vars, CopyInv, TypeOk, NodesDiffer, AncestorsAreOpen, NodesCounted, ItemsCounted

LEMMA CopyNext == ASSUME CopyInv, [Next]_vars PROVE CopyInv'
<1>1. CASE ConvertItem
  BY <1>1, ConvertItemKeeps
<1>2. CASE Finish \/ Truncate \/ Abandon
  <2>1. open # << >> /\ Return
    BY <1>2 DEF Finish, Truncate, Abandon
  <2> QED
    BY <2>1, ReturnKeeps
<1>3. ASSUME NEW c \in Containers, Change(c) PROVE CopyInv'
  BY <1>3, ChangeKeeps
<1>4. CASE Done \/ UNCHANGED vars
  <2>1. UNCHANGED vars
    BY <1>4 DEF Done
  <2> QED
    BY <2>1, StutterKeeps
<1> QED
  BY <1>1, <1>2, <1>3, <1>4 DEF Next, Convert

LEMMA CopyInvariance == Spec => []CopyInv
<1>1. Init => CopyInv
  BY CopyInit
<1>2. CopyInv /\ [Next]_vars => CopyInv'
  BY CopyNext
<1> QED
  BY <1>1, <1>2, PTL DEF Spec

(* Whatever the containers hold and the application changes, the types of   *)
(* the copy's variables hold.                                               *)
THEOREM CopyTypes == Spec => []TypeOk
<1>1. CopyInv => TypeOk
  BY DEF CopyInv
<1> QED
  BY <1>1, CopyInvariance, PTL

(* The ancestors are the containers being copied, each once.                *)
THEOREM AncestorsSafe == Spec => []AncestorsAreOpen
<1>1. CopyInv => AncestorsAreOpen
  BY DEF CopyInv
<1> QED
  BY <1>1, CopyInvariance, PTL

(* The limits on depth, on items and on the visited nodes hold.             *)
THEOREM LimitsSafe == Spec => []LimitsHold
<1>1. ASSUME CopyInv PROVE LimitsHold
  <2>1. visited + remaining = MaxNodes /\ remaining \in 0..MaxNodes /\ visited \in Nat
    BY <1>1 DEF CopyInv, TypeOk, NodesCounted
  <2>2. visited <= MaxNodes
    BY <2>1, LimitAssumption
  <2> QED
    BY <1>1, <2>2 DEF CopyInv, LimitsHold, ItemsCounted
<1> QED
  BY <1>1, CopyInvariance, PTL

(****************************************************************************)
(* Record.                                                                  *)
(****************************************************************************)
LEMMA RecordStep == ASSUME [RecordNext]_recordVars PROVE [Next]_vars
<1>1. CASE Copy
  BY <1>1 DEF Copy, CopyItem, CopyCut, CopyText, CopyRest, Next, Convert
<1>2. CASE Emit \/ Describe \/ Made \/ Ended \/ UNCHANGED recordVars
  BY <1>2 DEF Emit, Describe, Made, Ended, recordVars
<1> QED
  BY <1>1, <1>2 DEF RecordNext

(* The copy in a record's way to its event is the copy of EventSnapshot.    *)
THEOREM RecordImplements == RecordSpec => Spec
<1>1. RecordInit => Init
  BY DEF RecordInit
<1> QED
  BY <1>1, RecordStep, PTL DEF RecordSpec, Spec

(****************************************************************************)
(* The metadata an event carries.                                           *)
(****************************************************************************)
(* Among so many numbers one is free: the loop over the suffixes ends.      *)
LEMMA NamedIsNew ==
    ASSUME NEW text, NEW taken, IsFiniteSet(taken)
    PROVE  Named(text, taken) \notin taken
<1> SUFFICES ASSUME text \in taken PROVE Named(text, taken) \notin taken
  BY DEF Named
<1> DEFINE c == Cardinality(taken)
<1> DEFINE free == {n \in 2..(c + 2) : <<text[1], n>> \notin taken}
<1>1. c \in Nat
  BY FS_CardinalityType
<1>2. free # {}
  <2> SUFFICES ASSUME free = {} PROVE FALSE
    OBVIOUS
  <2> DEFINE f == [n \in 2..(c + 2) |-> <<text[1], n>>]
  <2>1. f \in [2..(c + 2) -> taken]
    OBVIOUS
  <2>2. IsFiniteSet(2..(c + 2)) /\ Cardinality(2..(c + 2)) = c + 1
    <3>1. 2 \in Int /\ c + 2 \in Int /\ ~(2 > c + 2) /\ (c + 2) - 2 + 1 = c + 1
      BY <1>1
    <3> HIDE DEF c
    <3> QED
      BY <3>1, FS_Interval
  <2>3. Cardinality(taken) < Cardinality(2..(c + 2))
    BY <1>1, <2>2
  <2> DEFINE numbers == 2..(c + 2)
  <2>4. f \in [numbers -> taken] /\ IsFiniteSet(numbers) /\ Cardinality(taken) < Cardinality(numbers)
    BY <2>1, <2>2, <2>3
  <2> HIDE DEF f, numbers
  <2>5. \E x, y \in numbers : x # y /\ f[x] = f[y]
    BY <2>4, FS_PigeonHole
  <2> QED
    BY <2>5 DEF f, numbers
<1>3. free \in SUBSET Nat
  BY <1>1
<1>4. Named(text, taken) = <<text[1], Min(free)>>
  BY DEF Named
<1> HIDE DEF free
<1>5. Min(free) \in free
  BY <1>2, <1>3, MinFacts
<1> QED
  BY <1>4, <1>5 DEF free

(* An entry that is put replaces none.                                      *)
LEMMA PutAdds ==
    ASSUME NEW text, NEW value, Put(text, value),
           IsFiniteSet(DOMAIN carried), IsInjective(carried), value \notin Range(carried)
    PROVE  /\ IsFiniteSet(DOMAIN carried') /\ IsInjective(carried')
           /\ Range(carried') = Range(carried) \union {value}
<1> DEFINE name == Named(text, DOMAIN carried)
<1>1. name \notin DOMAIN carried
  BY NamedIsNew
<1>2. carried' = [n \in DOMAIN carried \union {name} |-> IF n = name THEN value ELSE carried[n]]
  BY DEF Put
<1> HIDE DEF name
<1>3. /\ DOMAIN carried' = DOMAIN carried \union {name} /\ carried'[name] = value
      /\ \A n \in DOMAIN carried : carried'[n] = carried[n]
  BY <1>1, <1>2
<1>4. IsFiniteSet(DOMAIN carried')
  BY <1>3, FS_AddElement
<1>5. Range(carried') = Range(carried) \union {value}
  BY <1>3 DEF Range
<1>6. IsInjective(carried')
  BY <1>3 DEF IsInjective, Range
<1> QED
  BY <1>4, <1>5, <1>6

(* What is copied: the first n attributes, and then perhaps the marker.     *)
First(n) == {Entry(order[i]) : i \in 1..n}
Holds(n) == /\ n \in 0..Len(order)
            /\ IsFiniteSet(DOMAIN carried) /\ IsInjective(carried)
            /\ Range(carried) = First(n)
HoldsCut(n) == /\ n \in 0..Len(order) /\ n # Len(order)
               /\ n = MaxItems \/ visited = MaxNodes
               /\ IsInjective(carried)
               /\ Range(carried) = First(n) \union {Cut}

ListedOnce == /\ order \in Seq(Keys) /\ IsInjective(order)
              /\ ToSet(order) = DOMAIN Attributes

(* An accepted call was a valid one, without a key the host's record has.   *)
Accepted == stage \in {"copying", "exception", "made"}
Undisputed == /\ Valid
              /\ (given.extra \union given.keywords) \intersect host = {}

MetadataInv ==
    /\ CopyInv
    /\ ListedOnce
    /\ Len(contents[Root]) = Len(order)
    /\ open # << >> => open[1].node = Root
    /\ Accepted => Undisputed
    /\ stage = "call" => carried = << >> /\ open = <<Frame(Root)>>
    /\ stage = "copying" => open # << >> /\ Holds(open[1].next - 1)
    /\ stage \in {"exception", "made"} =>
          \/ carried = Unreadable
          \/ Holds(Len(order))
          \/ \E n \in 0..Len(order) : HoldsCut(n)

(* The values of the entries differ. *)
LEMMA EntriesDiffer ==
    ASSUME ListedOnce, NEW n \in 0..Len(order), n # Len(order)
    PROVE  /\ n + 1 \in 1..Len(order) /\ Entry(order[n + 1]) \notin First(n)
           /\ First(n + 1) = First(n) \union {Entry(order[n + 1])}
           /\ Cut \notin First(n)
<1>1. /\ Len(order) \in Nat /\ DOMAIN order = 1..Len(order)
      /\ n \in Nat /\ n + 1 \in 1..Len(order) /\ 1..(n + 1) = 1..n \union {n + 1}
      /\ \A i \in 1..n : i \in 1..Len(order) /\ i # n + 1
  <2>1. Len(order) \in Nat /\ DOMAIN order = 1..Len(order)
    BY DEF ListedOnce
  <2> DEFINE len == Len(order)
  <2>2. n \in 0..len /\ n # len /\ len \in Nat
    BY <2>1
  <2> HIDE DEF len
  <2>3. /\ n \in Nat /\ n + 1 \in 1..len /\ 1..(n + 1) = 1..n \union {n + 1}
        /\ \A i \in 1..n : i \in 1..len /\ i # n + 1
    BY <2>2
  <2> QED
    BY <2>1, <2>3 DEF len
<1>2. Entry(order[n + 1]) \notin First(n)
  <2>1. \A i \in 1..n : order[i] # order[n + 1]
    BY <1>1 DEF ListedOnce, IsInjective
  <2> QED
    BY <2>1 DEF First, Entry
<1>3. First(n + 1) = First(n) \union {Entry(order[n + 1])}
  BY <1>1 DEF First
<1>4. Cut \notin First(n)
  <2>1. \A i \in 1..n : order[i] \in DOMAIN Attributes
    BY <1>1 DEF ListedOnce, ToSet
  <2>2. \A k \in DOMAIN Attributes : Attributes[k] \in {"host", "extra", "keyword"}
    BY DEF Attributes, Merged
  <2>3. \A i \in 1..n : Entry(order[i]) # Cut
    BY <2>1, <2>2 DEF Entry, Cut
  <2> QED
    BY <2>3 DEF First
<1> QED
  BY <1>1, <1>2, <1>3, <1>4

LEMMA MetadataStart == ASSUME RecordInit PROVE MetadataInv
<1>1. CopyInv
  BY CopyInit DEF RecordInit
<1>2. ListedOnce /\ Len(contents[Root]) = Len(order)
  BY DEF RecordInit, Listed, ListedOnce
<1>3. open = <<Frame(Root)>> /\ stage = "call" /\ carried = << >>
  BY DEF RecordInit, Init
<1>4. open[1].node = Root
  BY <1>3 DEF Frame
<1> QED
  BY <1>1, <1>2, <1>3, <1>4 DEF MetadataInv, Accepted

(* The attributes, and what Root holds, stay as they are. *)
LEMMA AttributesStay ==
    ASSUME MetadataInv, [RecordNext]_recordVars
    PROVE  /\ CopyInv' /\ ListedOnce' /\ Undisputed' = Undisputed
           /\ contents'[Root] = contents[Root] /\ order' = order
           /\ \A k : Entry(k)' = Entry(k)
<1>1. given' = given /\ host' = host /\ order' = order
  BY DEF RecordNext, Emit, Copy, Describe, Made, Ended, recordVars, inputs
<1>2. [Next]_vars
  BY RecordStep
<1>3. Valid' = Valid /\ Attributes' = Attributes
  BY <1>1 DEF Valid, Attributes, Merged
<1>4. CopyInv'
  BY <1>2, CopyNext DEF MetadataInv
<1>5. contents'[Root] = contents[Root]
  <2>1. ASSUME NEW c \in Containers, Change(c) PROVE contents'[Root] = contents[Root]
    <3>1. PICK items \in Contents : contents' = [contents EXCEPT ![c] = items]
      BY <2>1 DEF Change
    <3>2. contents \in [Nodes -> Contents] /\ Root # c /\ Root \in Nodes
      BY RootAssumption DEF MetadataInv, CopyInv, TypeOk, Nodes
    <3> QED
      BY <3>1, <3>2
  <2>2. CASE ConvertItem \/ Finish \/ Truncate \/ Abandon \/ Done \/ UNCHANGED vars
    BY <2>2 DEF ConvertItem, Finish, Truncate, Abandon, Return, Done, vars
  <2> QED
    BY <1>2, <2>1, <2>2 DEF Next, Convert
<1> QED
  BY <1>1, <1>3, <1>4, <1>5 DEF ListedOnce, Undisputed, Entry, MetadataInv

(* What a turn of the copy does to the frame of the attributes.             *)
LEMMA ItemAtRoot ==
    ASSUME CopyInv, ConvertItem
    PROVE  /\ open' # << >> /\ open'[1].node = open[1].node
           /\ open'[1].next = IF AtTop THEN open[1].next + 1 ELSE open[1].next
<1>1. /\ Len(open) \in Nat \ {0} /\ Top = open[Len(open)] /\ 1 \in 1..Len(open)
  BY OpenFacts DEF ConvertItem
<1>2. /\ Advanced \in Seq(Frames) /\ Len(Advanced) = Len(open)
      /\ \A i \in 1..Len(open) :
            /\ Advanced[i].node = open[i].node
            /\ Advanced[i].next = IF i = Len(open) THEN Top.next + 1 ELSE open[i].next
  BY ItemFacts, AdvancedKeeps DEF ConvertItem
<1>3. open' = Advanced \/ \E f \in Frames : open' = Append(Advanced, f)
  <2>1. CASE Settled(Items[Top.next])
    BY <2>1 DEF ConvertItem
  <2>2. CASE ~Settled(Items[Top.next])
    <3>1. Frame(Items[Top.next]) \in Frames
      <4>1. Items[Top.next] \in Nodes
        BY <2>2, ItemFacts DEF Settled, Values, Nodes
      <4> QED
        BY <4>1, BoundAssumption DEF Frame, Frames
    <3> QED
      BY <2>2, <3>1 DEF ConvertItem
  <2> QED
    BY <2>1, <2>2
<1>4. open' # << >> /\ open'[1] = Advanced[1]
  <2>1. Advanced # << >> /\ 1 \in 1..Len(Advanced)
    BY <1>1, <1>2
  <2>2. ASSUME NEW f \in Frames, open' = Append(Advanced, f)
        PROVE  open' # << >> /\ open'[1] = Advanced[1]
    BY <1>2, <2>1, <2>2
  <2> QED
    BY <1>3, <2>1, <2>2
<1> QED
  BY <1>1, <1>2, <1>4 DEF AtTop

LEMMA ReturnAtRoot ==
    ASSUME CopyInv, open # << >>, Return
    PROVE  IF AtTop THEN open' = << >> ELSE open' # << >> /\ open'[1] = open[1]
<1>1. /\ Len(open) \in Nat \ {0} /\ DOMAIN open = 1..Len(open) /\ open \in Seq(Frames)
      /\ \A i \in 1..Len(open) : open[i] \in Frames
  BY OpenFacts DEF CopyInv, TypeOk
<1>2. open' = SubSeq(open, 1, Len(open) - 1)
  BY DEF Return, Front
<1>3. /\ open' \in Seq(Frames) /\ Len(open') = Len(open) - 1
      /\ DOMAIN open' = 1..(Len(open) - 1)
      /\ \A i \in 1..(Len(open) - 1) : open'[i] = open[i]
  BY <1>1, <1>2 DEF CopyInv, TypeOk
<1>4. CASE AtTop
  BY <1>3, <1>4 DEF AtTop
<1>5. CASE ~AtTop
  <2>1. 1 \in 1..(Len(open) - 1) /\ Len(open') # 0
    BY <1>1, <1>3, <1>5 DEF AtTop
  <2> QED
    BY <1>3, <1>5, <2>1
<1> QED
  BY <1>4, <1>5

(* One step of the copy. *)
LEMMA CopyCarries ==
    ASSUME MetadataInv, Copy, [RecordNext]_recordVars PROVE MetadataInv'
<1> PICK n : n = open[1].next - 1
  OBVIOUS
<1>1. /\ CopyInv' /\ ListedOnce' /\ Undisputed' = Undisputed
      /\ contents'[Root] = contents[Root] /\ order' = order
      /\ \A k : Entry(k)' = Entry(k)
  BY AttributesStay
<1>2. /\ stage = "copying" /\ open # << >> /\ Holds(n) /\ Undisputed
      /\ open[1].node = Root /\ ListedOnce /\ CopyInv
      /\ Len(contents[Root]) = Len(order) /\ Len(order) \in Nat
  BY DEF Copy, MetadataInv, Accepted, ListedOnce
<1>3. /\ Len(contents'[Root]) = Len(order')
      /\ stage' = IF open' = << >> THEN "exception" ELSE "copying"
  BY <1>1, <1>2 DEF Copy
<1>4. \A k : First(k)' = First(k)
  BY <1>1 DEF First
<1>5. Len(open) \in Nat \ {0} /\ Top = open[Len(open)] /\ open[1] \in Frames
  BY <1>2, OpenFacts
<1>6. open[1].next \in Nat \ {0} /\ n \in 0..Len(order) /\ n + 1 = open[1].next
  BY <1>2, <1>5, BoundAssumption DEF Frames, Holds
<1>7. AtTop => Top = open[1] /\ Items = contents[Root]
  BY <1>2, <1>5 DEF AtTop, Items
<1> DEFINE Goal ==
      /\ open' # << >> => open'[1].node = Root /\ Holds(open[1].next - 1)'
      /\ open' = << >> => \/ carried' = Unreadable
                          \/ Holds(Len(order))'
                          \/ \E k \in 0..Len(order) : HoldsCut(k)'
<1>8. ASSUME Goal PROVE MetadataInv'
  <2>1. CASE open' = << >>
    <3>1. stage' = "exception"
      BY <1>3, <2>1
    <3> QED
      BY <1>1, <1>2, <1>3, <1>8, <2>1, <3>1 DEF MetadataInv, Accepted
  <2>2. CASE open' # << >>
    <3>1. stage' = "copying"
      BY <1>3, <2>2
    <3> QED
      <4>1. open'[1].node = Root /\ Holds(open[1].next - 1)'
        BY <1>8, <2>2
      <4> HIDE DEF Goal
      <4> QED
        BY <1>1, <1>2, <1>3, <2>2, <3>1, <4>1 DEF MetadataInv, Accepted
  <2> QED
    BY <2>1, <2>2
<1> SUFFICES Goal
  BY <1>8
<1>9. CASE CopyItem
  <2>1. /\ open' # << >> /\ open'[1].node = Root
        /\ open'[1].next = IF AtTop THEN open[1].next + 1 ELSE open[1].next
    BY <1>2, <1>9, ItemAtRoot DEF CopyItem
  <2>2. CASE AtTop
    <3>1. n # Len(order) /\ open[1].next <= Len(order) /\ Top.next = n + 1
      BY <1>2, <1>6, <1>7, <1>9, <2>2 DEF CopyItem, ConvertItem
    <3>2. /\ n + 1 \in 1..Len(order) /\ Entry(order[n + 1]) \notin First(n)
          /\ First(n + 1) = First(n) \union {Entry(order[n + 1])}
      BY <1>2, <1>6, <3>1, EntriesDiffer
    <3>3. Put(TextOf[order[n + 1]], Entry(order[n + 1]))
      BY <1>9, <2>2, <3>1 DEF CopyItem
    <3>4. /\ IsFiniteSet(DOMAIN carried') /\ IsInjective(carried')
          /\ Range(carried') = First(n + 1)
      <4>1. /\ IsFiniteSet(DOMAIN carried) /\ IsInjective(carried)
            /\ Range(carried) = First(n)
        BY <1>2 DEF Holds
      <4>2. Entry(order[n + 1]) \notin Range(carried)
        BY <3>2, <4>1
      <4>3. /\ IsFiniteSet(DOMAIN carried') /\ IsInjective(carried')
            /\ Range(carried') = Range(carried) \union {Entry(order[n + 1])}
        BY <3>3, <4>1, <4>2, PutAdds
      <4> QED
        BY <3>2, <4>1, <4>3
    <3>5. open'[1].next - 1 = n + 1 /\ n + 1 \in 0..Len(order)
      BY <1>2, <1>6, <2>1, <2>2, <3>2
    <3>6. Holds(n + 1)'
      BY <1>1, <1>4, <3>4, <3>5 DEF Holds
    <3> QED
      BY <2>1, <3>5, <3>6
  <2>3. CASE ~AtTop
    <3>1. carried' = carried /\ open'[1].next - 1 = n
      BY <1>6, <1>9, <2>1, <2>3 DEF CopyItem
    <3>2. Holds(n)'
      BY <1>1, <1>2, <1>4, <3>1 DEF Holds
    <3> QED
      BY <2>1, <3>1, <3>2
  <2> QED
    BY <2>2, <2>3
<1>10. CASE CopyCut \/ CopyText \/ (Finish /\ carried' = carried)
  <2>1. Return /\ visited' = visited
    BY <1>10 DEF CopyCut, CopyText, Truncate, Abandon, Finish, Return
  <2>2. IF AtTop THEN open' = << >> ELSE open' # << >> /\ open'[1] = open[1]
    BY <1>2, <2>1, ReturnAtRoot
  <2>3. CASE ~AtTop
    <3>1. carried' = carried
      BY <1>10, <2>3 DEF CopyCut, CopyText
    <3>2. Holds(n)' /\ open'[1].next - 1 = n
      BY <1>1, <1>2, <1>4, <1>6, <2>2, <2>3, <3>1 DEF Holds
    <3> QED
      BY <1>2, <2>2, <2>3, <3>2
  <2>4. CASE AtTop /\ CopyCut
    <3>1. /\ n # Len(order) /\ Put(<<Marker, 1>>, Cut)
          /\ Top.next - 1 >= MaxItems \/ remaining = 0
      BY <1>2, <1>6, <1>7, <2>4 DEF CopyCut, Truncate, Exhausted
    <3>2. Cut \notin First(n)
      BY <1>2, <1>6, <3>1, EntriesDiffer
    <3>3. IsInjective(carried') /\ Range(carried') = First(n) \union {Cut}
      BY <1>2, <3>1, <3>2, PutAdds DEF Holds
    <3>4. n = MaxItems \/ visited = MaxNodes
      <4>1. Top.next = n + 1 /\ open[1].next - 1 <= MaxItems
        <5>1. 1 \in DOMAIN open
          BY <1>5, OpenFacts
        <5> QED
          BY <1>2, <1>6, <1>7, <2>4, <5>1 DEF CopyInv, ItemsCounted
      <4>2. remaining = 0 => visited = MaxNodes
        BY <1>2, LimitAssumption DEF CopyInv, TypeOk, NodesCounted
      <4> QED
        BY <1>6, <3>1, <4>1, <4>2, LimitAssumption
    <3>5. HoldsCut(n)'
      BY <1>1, <1>4, <1>6, <2>1, <3>1, <3>3, <3>4 DEF HoldsCut
    <3> QED
      BY <1>6, <2>2, <2>4, <3>5
  <2>5. CASE AtTop /\ CopyText
    BY <2>2, <2>5 DEF CopyText
  <2>6. CASE AtTop /\ Finish /\ carried' = carried
    <3>1. n = Len(order)
      BY <1>2, <1>6, <1>7, <2>6 DEF Finish
    <3>2. Holds(n)'
      BY <1>1, <1>2, <1>4, <2>6 DEF Holds
    <3> QED
      BY <1>1, <2>2, <2>6, <3>1, <3>2
  <2> QED
    BY <1>10, <2>3, <2>4, <2>5, <2>6
<1>11. ASSUME NEW c \in Containers, Change(c), carried' = carried
       PROVE  Goal
  <2>1. open' = open
    BY <1>11 DEF Change, work
  <2>2. Holds(n)' /\ open'[1].next - 1 = n
    BY <1>1, <1>2, <1>4, <1>6, <1>11, <2>1 DEF Holds
  <2> QED
    BY <1>2, <2>1, <2>2
<1> QED
  BY <1>9, <1>10, <1>11 DEF Copy, CopyRest

LEMMA MetadataNext ==
    ASSUME MetadataInv, [RecordNext]_recordVars PROVE MetadataInv'
<1>1. /\ CopyInv' /\ ListedOnce' /\ Undisputed' = Undisputed
      /\ contents'[Root] = contents[Root] /\ order' = order
      /\ \A k : Entry(k)' = Entry(k)
  BY AttributesStay
<1>2. CASE Copy
  BY <1>2, CopyCarries
<1>3. CASE Emit
  <2>1. /\ stage = "call" /\ carried = << >> /\ open = <<Frame(Root)>>
        /\ carried' = carried /\ open' = open
    BY <1>3 DEF Emit, MetadataInv, Refuse, Drop, Clash, Accept, outputs, vars
  <2>2. CASE stage' \in {"refused", "dropped", "clash"}
    BY <1>1, <2>1, <2>2 DEF MetadataInv, Accepted
  <2>3. CASE stage' \notin {"refused", "dropped", "clash"}
    <3>1. stage' = "copying" /\ Undisputed
      BY <1>3, <2>3 DEF Emit, Refuse, Drop, Clash, Accept, Undisputed
    <3>2. open'[1].node = Root /\ open'[1].next - 1 = 0 /\ open' # << >>
      BY <2>1 DEF Frame
    <3>3. Holds(0)'
      <4>1. /\ DOMAIN carried' = {} /\ Range(carried') = {} /\ IsInjective(carried')
            /\ First(0)' = {}
        BY <2>1 DEF Range, IsInjective, First
      <4>2. 0 \in 0..Len(order')
        BY <1>1 DEF ListedOnce
      <4> QED
        BY <4>1, <4>2, FS_EmptySet DEF Holds
    <3> QED
      BY <1>1, <3>1, <3>2, <3>3 DEF MetadataInv, Accepted
  <2> QED
    BY <2>2, <2>3
<1>4. CASE Describe \/ Made \/ Ended \/ UNCHANGED recordVars
  <2>1. /\ carried' = carried /\ open' = open /\ visited' = visited
        /\ stage' = stage \/ (stage = "exception" /\ stage' = "made")
    BY <1>4 DEF Describe, Made, Ended, recordVars, outputs, vars
  <2>2. \A k : First(k)' = First(k)
    BY <1>1 DEF First
  <2>3. \A k : Holds(k)' = Holds(k) /\ HoldsCut(k)' = HoldsCut(k)
    BY <1>1, <2>1, <2>2 DEF Holds, HoldsCut
  <2> QED
    BY <1>1, <2>1, <2>3 DEF MetadataInv, Accepted
<1> QED
  BY <1>2, <1>3, <1>4 DEF RecordNext

(* Undisputed, what the host and the caller have given is the attributes.   *)
LEMMA GivenListed ==
    ASSUME ListedOnce, Undisputed, NEW n \in 0..Len(order)
    PROVE  LET first == {order[i] : i \in 1..n} IN
           /\ {e \in Given : e[1] \in first} = First(n)
           /\ n = Len(order) => Given = First(n)
           /\ \A k \in first : ~Reserved(k)
<1> DEFINE first == {order[i] : i \in 1..n}
<1> DEFINE own == {h \in host : ~Reserved(h)}
<1>1. /\ \A k \in given.extra \union given.keywords : ~Reserved(k)
      /\ given.extra \intersect given.keywords = {}
      /\ (given.extra \union given.keywords) \intersect host = {}
  BY DEF Undisputed, Valid
<1>2. DOMAIN Attributes = own \union given.extra \union given.keywords
  BY DEF Attributes, Merged
<1>3. /\ \A k \in own : Entry(k) = <<k, "host">>
      /\ \A k \in given.extra : Entry(k) = <<k, "extra">>
      /\ \A k \in given.keywords : Entry(k) = <<k, "keyword">>
  BY <1>1, <1>2 DEF Attributes, Merged, Entry
<1>4. Given = {Entry(k) : k \in DOMAIN Attributes}
  <2>1. /\ {<<k, "extra">> : k \in given.extra} = {Entry(k) : k \in given.extra}
        /\ {<<k, "keyword">> : k \in given.keywords} = {Entry(k) : k \in given.keywords}
        /\ {<<k, "host">> : k \in own} = {Entry(k) : k \in own}
    BY <1>3
  <2>2. Given = {<<k, "extra">> : k \in given.extra}
                  \union {<<k, "keyword">> : k \in given.keywords}
                  \union {<<k, "host">> : k \in own}
    BY DEF Given
  <2> HIDE DEF own
  <2> QED
    BY <1>2, <2>1, <2>2
<1>5. Len(order) \in Nat /\ DOMAIN order = 1..Len(order) /\ n \in Nat
      /\ \A i \in 1..n : i \in 1..Len(order)
  BY DEF ListedOnce
<1>6. first \subseteq DOMAIN Attributes /\ (n = Len(order) => first = DOMAIN Attributes)
  BY <1>5 DEF ListedOnce, ToSet
<1>7. First(n) = {Entry(k) : k \in first}
  BY DEF First
<1>8. \A k : Entry(k)[1] = k
  BY DEF Entry
<1>9. \A k \in first : ~Reserved(k)
  BY <1>1, <1>2, <1>6
<1> HIDE DEF first
<1>10. {e \in Given : e[1] \in first} = {Entry(k) : k \in first}
  BY <1>4, <1>6, <1>8
<1> QED
  BY <1>4, <1>6, <1>7, <1>9, <1>10 DEF first

(* An event carries the first of the attributes it was given, each with its *)
(* own value and under a name of its own, and a marker where a limit cuts   *)
(* them, for any keys, bounded texts, limits and host attributes            *)
(* (validate_metadata, _Snapshot.convert, _bounded_mapping_key).            *)
THEOREM MetadataSafe == RecordSpec => []MetadataKept
<1>1. RecordInit => MetadataInv
  BY MetadataStart
<1>2. ASSUME MetadataInv PROVE MetadataKept
  <2> SUFFICES ASSUME stage \in {"exception", "made"}, carried # Unreadable
               PROVE  MetadataKept
    BY DEF MetadataKept
  <2>1. ListedOnce /\ Undisputed /\ Len(order) \in Nat
    BY <1>2 DEF MetadataInv, Accepted, ListedOnce
  <2>2. CASE Holds(Len(order))
    <3> DEFINE n == Len(order)
    <3>1. n \in 0..n
      BY <2>1
    <3>2. Given = First(n) /\ \A k \in {order[i] : i \in 1..n} : ~Reserved(k)
      BY <2>1, <3>1, GivenListed
    <3>3. IsInjective(carried) /\ Range(carried) = Given /\ ~(n < n)
      BY <2>1, <2>2, <3>2 DEF Holds
    <3> QED
      BY <3>1, <3>2, <3>3 DEF MetadataKept
  <2>3. ASSUME NEW n \in 0..Len(order), HoldsCut(n) PROVE MetadataKept
    <3>1. /\ {e \in Given : e[1] \in {order[i] : i \in 1..n}} = First(n)
          /\ \A k \in {order[i] : i \in 1..n} : ~Reserved(k)
      BY <2>1, GivenListed
    <3>2. /\ n < Len(order) /\ (n = MaxItems \/ visited = MaxNodes)
          /\ IsInjective(carried) /\ Range(carried) = First(n) \union {Cut}
      BY <2>1, <2>3 DEF HoldsCut
    <3> QED
      BY <3>1, <3>2 DEF MetadataKept
  <2> QED
    BY <1>2, <2>2, <2>3 DEF MetadataInv
<1> QED
  BY <1>1, <1>2, MetadataNext, PTL DEF RecordSpec

(****************************************************************************)
(* The chain of exceptions.                                                 *)
(****************************************************************************)
(* Each exception told leads to the one before it, and the next one is      *)
(* where the latest leads.                                                  *)
ChainInv ==
    /\ chain \in Chains
    /\ told \in Seq(Exceptions)
    /\ current \in Exceptions \union {NoException}
    /\ \A i, j \in 1..Len(told) : told[i] = told[j] => i = j
    /\ \A i \in 1..Len(told) : i + 1 <= Len(told) => told[i] = Link(told[i + 1])
    /\ IF told = << >> THEN current = chain.raised
       ELSE told[Len(told)] = chain.raised /\ current = Link(told[1])
    /\ Len(told) <= MaxChain
    /\ stage = "made" => ~Untold

LEMMA DescribeKeeps == ASSUME ChainInv, Describe PROVE ChainInv'
<1>1. /\ current \in Exceptions /\ current \notin ToSet(told) /\ Len(told) < MaxChain
      /\ told' = <<current>> \o told /\ current' = Link(current)
      /\ chain' = chain /\ stage' = "exception"
  BY DEF Describe, Untold, inputs, ChainInv
<1>2. /\ told' \in Seq(Exceptions) /\ Len(told') = Len(told) + 1
      /\ told'[1] = current
      /\ \A i \in 1..Len(told) : told'[i + 1] = told[i]
  BY <1>1 DEF ChainInv
<1>3. Len(told) \in Nat /\ DOMAIN told = 1..Len(told)
  BY DEF ChainInv
<1>4. \A i \in 2..Len(told') : i - 1 \in 1..Len(told) /\ told'[i] = told[i - 1]
  BY <1>2, <1>3
<1>5. \A i \in 1..Len(told) : told[i] # current
  BY <1>1, <1>3 DEF ToSet
<1>6. current' \in Exceptions \union {NoException}
  <2>1. chain \in Chains
    BY DEF ChainInv
  <2>2. /\ chain.cause[current] \in Exceptions \union {NoException}
        /\ chain.context[current] \in Exceptions \union {NoException}
    BY <1>1, <2>1 DEF Chains
  <2> QED
    BY <1>1, <2>2 DEF Link
<1>7. \A i, j \in 1..Len(told') : told'[i] = told'[j] => i = j
  <2> SUFFICES ASSUME NEW i \in 1..Len(told'), NEW j \in 1..Len(told'), told'[i] = told'[j]
               PROVE  i = j
    OBVIOUS
  <2>1. CASE i = 1 \/ j = 1
    <3>1. \A k \in 1..Len(told') : k # 1 => told'[k] # told'[1]
      <4> SUFFICES ASSUME NEW k \in 1..Len(told'), k # 1 PROVE told'[k] # told'[1]
        OBVIOUS
      <4>1. k \in 2..Len(told')
        BY <1>2, <1>3
      <4> QED
        BY <1>2, <1>4, <1>5, <4>1
    <3> QED
      BY <2>1, <3>1
  <2>2. CASE i # 1 /\ j # 1
    <3>1. i \in 2..Len(told') /\ j \in 2..Len(told')
      BY <1>2, <1>3, <2>2
    <3>2. i - 1 = j - 1
      BY <1>4, <3>1 DEF ChainInv
    <3> QED
      BY <3>1, <3>2
  <2> QED
    BY <2>1, <2>2
<1>8. \A i \in 1..Len(told') : i + 1 <= Len(told') => told'[i] = Link(told'[i + 1])
  <2> SUFFICES ASSUME NEW i \in 1..Len(told'), i + 1 <= Len(told')
               PROVE  told'[i] = Link(told'[i + 1])
    OBVIOUS
  <2>1. i \in 1..Len(told) /\ told'[i + 1] = told[i]
    BY <1>2, <1>3
  <2>2. CASE i = 1
    BY <1>1, <1>2, <1>3, <2>1, <2>2 DEF ChainInv
  <2>3. CASE i # 1
    <3>1. i - 1 \in 1..Len(told) /\ (i - 1) + 1 = i /\ told'[i] = told[i - 1]
      BY <1>2, <1>3, <1>4, <2>1, <2>3
    <3>2. told[i - 1] = Link(told[(i - 1) + 1])
      BY <2>1, <3>1 DEF ChainInv
    <3> QED
      BY <2>1, <3>1, <3>2
  <2> QED
    BY <2>2, <2>3
<1>9. told' # << >> /\ told'[Len(told')] = chain'.raised /\ current' = Link(told'[1])
  <2>1. told' # << >>
    BY <1>2, <1>3
  <2>2. CASE told = << >>
    BY <1>1, <1>2, <2>1, <2>2 DEF ChainInv
  <2>3. CASE told # << >>
    <3>1. Len(told) \in 1..Len(told)
      BY <2>3 DEF ChainInv
    <3>2. told'[Len(told) + 1] = told[Len(told)] /\ told[Len(told)] = chain.raised
      BY <1>2, <2>3, <3>1 DEF ChainInv
    <3> QED
      BY <1>1, <1>2, <2>1, <3>2
  <2> QED
    BY <2>2, <2>3
<1>10. Len(told') <= MaxChain
  BY <1>1, <1>2, <1>3, ChainAssumption
<1> QED
  BY <1>1, <1>2, <1>6, <1>7, <1>8, <1>9, <1>10 DEF ChainInv, Link

LEMMA ChainNext == ASSUME ChainInv, [RecordNext]_recordVars PROVE ChainInv'
<1>1. CASE Describe
  BY <1>1, DescribeKeeps
<1>2. CASE Emit \/ Copy \/ Made \/ Ended \/ UNCHANGED recordVars
  <2>1. UNCHANGED <<chain, current, told>>
    BY <1>2 DEF Emit, Copy, Made, Ended, recordVars, inputs
  <2>2. stage' = "made" => ~Untold
    <3>1. CASE Made
      BY <3>1 DEF Made
    <3>2. CASE Emit
      BY <3>2 DEF Emit, Refuse, Drop, Clash, Accept
    <3>3. CASE Copy
      BY <3>3 DEF Copy
    <3>4. CASE Ended \/ UNCHANGED recordVars
      BY <3>4 DEF Ended, recordVars, ChainInv
    <3> QED
      BY <1>2, <3>1, <3>2, <3>3, <3>4
  <2>3. Untold' = Untold /\ \A e : Link(e)' = Link(e)
    BY <2>1 DEF Untold, Link
  <2> QED
    BY <2>1, <2>2, <2>3 DEF ChainInv, Link
<1> QED
  BY <1>1, <1>2 DEF RecordNext

(* The chain an event tells, for any exceptions however they are linked.    *)
THEOREM ChainSafe == RecordSpec => []ChainTold
<1>1. ASSUME RecordInit PROVE ChainInv
  <2>1. chain \in Chains /\ current = chain.raised /\ told = << >> /\ stage = "call"
    BY <1>1 DEF RecordInit
  <2>2. chain.raised \in Exceptions \union {NoException}
    BY <2>1 DEF Chains
  <2> QED
    BY <2>1, <2>2, ChainAssumption DEF ChainInv
<1>2. ASSUME ChainInv PROVE ChainTold
  <2> SUFFICES ASSUME stage = "made", chain.raised # NoException PROVE ChainTold
    BY DEF ChainTold
  <2>1. current = NoException \/ current \in ToSet(told) \/ Len(told) = MaxChain
    BY <1>2, ChainAssumption DEF ChainInv, Untold
  <2>2. told # << >>
    <3> SUFFICES ASSUME told = << >> PROVE FALSE
      OBVIOUS
    <3>1. current = chain.raised /\ Len(told) = 0 /\ ToSet(told) = {}
      BY <1>2 DEF ChainInv, ToSet
    <3> QED
      BY <2>1, <3>1, ChainAssumption
  <2>3. /\ told \in Seq(Exceptions) /\ Len(told) \in Nat \ {0}
        /\ DOMAIN told = 1..Len(told)
    BY <1>2, <2>2 DEF ChainInv
  <2>4. Last(told) = chain.raised /\ current = Link(Head(told))
    BY <1>2, <2>2, <2>3 DEF ChainInv, Last
  <2>5. \A i \in 1..(Len(told) - 1) : told[i] = Link(told[i + 1])
    BY <1>2, <2>3 DEF ChainInv
  <2>6. IsInjective(told)
    BY <1>2, <2>3 DEF ChainInv, IsInjective
  <2> QED
    BY <2>1, <2>4, <2>5, <2>6 DEF ChainTold
<1> QED
  BY <1>1, <1>2, ChainNext, PTL DEF RecordSpec

(****************************************************************************)
(* The caller's frame.                                                      *)
(****************************************************************************)
(* The stack is the facade's two frames and the application's around them.  *)
StackInv ==
    /\ given.stacklevel \in Nat
    /\ \E outer \in Seq(Modules) : frames = Facade \o outer
    /\ place # 0 => /\ given.stacklevel >= 1
                    /\ source = Resolved(given.stacklevel) /\ place = Found(Stacklevel)

LEMMA StackStart == ASSUME RecordInit PROVE StackInv
<1>1. given.stacklevel \in Nat /\ place = 0
  BY DEF RecordInit, Arguments
<1>2. PICK outer \in BoundedSeq(Modules, MaxOuter) : frames = Facade \o outer
  BY DEF RecordInit
<1>3. outer \in Seq(Modules)
  <2>1. PICK m \in 0..MaxOuter : outer \in [1..m -> Modules]
    BY DEF BoundedSeq, SeqOf
  <2>2. m \in Nat
    BY OuterAssumption
  <2> QED
    BY <2>1, <2>2
<1> QED
  BY <1>1, <1>2, <1>3 DEF StackInv

LEMMA StackNext == ASSUME StackInv, [RecordNext]_recordVars PROVE StackInv'
<1>1. given' = given /\ frames' = frames
  BY DEF RecordNext, Emit, Copy, Describe, Made, Ended, recordVars, inputs
<1>2. \A s : Resolved(s)' = Resolved(s) /\ Found(s)' = Found(s)
  BY <1>1 DEF Resolved, Found, Kept
<1>3. Stacklevel' = Stacklevel
  BY <1>1 DEF Stacklevel
<1>4. CASE /\ given.stacklevel >= 1
           /\ source' = Resolved(given.stacklevel) /\ place' = Found(Stacklevel)
  BY <1>1, <1>2, <1>3, <1>4 DEF StackInv
<1>5. CASE source' = source /\ place' = place
  BY <1>1, <1>2, <1>3, <1>5 DEF StackInv
<1>6. CASE Emit
  <2>1. CASE given.stacklevel < 1 \/ ~Valid
    BY <1>5, <1>6, <2>1 DEF Emit, Refuse, outputs
  <2>2. CASE ~(given.stacklevel < 1 \/ ~Valid)
    <3>1. given.stacklevel >= 1
      BY <2>2 DEF StackInv
    <3>2. Drop \/ Clash \/ Accept
      BY <1>6, <2>2 DEF Emit
    <3> QED
      BY <1>4, <1>5, <3>1, <3>2 DEF Drop, Clash, Accept, outputs
  <2> QED
    BY <2>1, <2>2
<1>7. CASE Copy \/ Describe \/ Made \/ Ended \/ UNCHANGED recordVars
  BY <1>5, <1>7 DEF Copy, Describe, Made, Ended, recordVars, outputs
<1> QED
  BY <1>6, <1>7 DEF RecordNext

(* On an ordinary stack the search of standard logging finds the frames     *)
(* resolve_caller finds, behind the facade's two.                           *)
LEMMA KeptAlike ==
    ASSUME NEW outer \in Seq(Modules), frames = Facade \o outer, Ordinary
    PROVE  LET here  == Kept(Internal)
               there == Kept({"logging", "bootstrap"})
           IN  /\ here \in Seq(Nat) /\ there \in Seq(Nat)
               /\ Len(here) >= 1 /\ Last(here) = Len(frames)
               /\ Len(there) = Len(here) + 2
               /\ \A j \in 1..Len(here) : there[j + 2] = here[j]
<1> DEFINE n == Len(frames)
<1> DEFINE all == Positions(n)
<1> DEFINE ours == {i \in 1..n : frames[i] \notin Internal}
<1> DEFINE theirs == {i \in 1..n : frames[i] \notin {"logging", "bootstrap"}}
<1>1. /\ n \in Nat /\ n = Len(outer) + 2 /\ DOMAIN frames = 1..n
      /\ frames[1] = "forge" /\ frames[2] = "forge"
      /\ \A i \in 3..n : frames[i] = outer[i - 2] /\ i - 2 \in 1..Len(outer)
      /\ Len(outer) \in Nat /\ DOMAIN outer = 1..Len(outer)
  BY DEF Facade
<1>2. SubSeq(frames, 3, Len(frames)) = outer
  <2>1. /\ SubSeq(frames, 3, n) \in Seq(Modules) /\ Len(SubSeq(frames, 3, n)) = Len(outer)
        /\ \A i \in 1..Len(outer) : SubSeq(frames, 3, n)[i] = frames[i + 2]
    <3>1. 3 \in Int /\ n \in Int /\ \A i \in 3..n : frames[i] \in Modules
      BY <1>1
    <3>2. /\ SubSeq(frames, 3, n) \in Seq(Modules)
          /\ Len(SubSeq(frames, 3, n)) = IF 3 <= n THEN n - 3 + 1 ELSE 0
          /\ \A i \in 1..(n - 3 + 1) : SubSeq(frames, 3, n)[i] = frames[3 + i - 1]
      <4>1. frames \in Seq(Modules) /\ (n >= 3 => 3 \in 1..Len(frames))
        <5>1. Facade \in Seq(Modules)
          BY DEF Facade, Modules
        <5> QED
          BY <1>1, <5>1
      <4>2. CASE n >= 3
        BY <4>1, <4>2, SubSeqFrom
      <4>3. CASE ~(n >= 3)
        BY <1>1, <4>3
      <4> QED
        BY <4>2, <4>3
    <3>3. n - 3 + 1 = Len(outer) /\ (~(3 <= n) => Len(outer) = 0)
      BY <1>1
    <3>4. \A i \in 1..Len(outer) : 3 + i - 1 = i + 2
      OBVIOUS
    <3> HIDE DEF n
    <3> QED
      BY <3>2, <3>3, <3>4
  <2>2. \A i \in 1..Len(outer) : frames[i + 2] = outer[i]
    <3> SUFFICES ASSUME NEW i \in 1..Len(outer) PROVE frames[i + 2] = outer[i]
      OBVIOUS
    <3>1. i + 2 \in 3..n /\ (i + 2) - 2 = i
      BY <1>1
    <3> QED
      BY <1>1, <3>1
  <2> DEFINE sub == SubSeq(frames, 3, n)
  <2> HIDE DEF sub, n
  <2>3. sub \in Seq(Modules) /\ Len(sub) = Len(outer) /\ \A i \in 1..Len(outer) : sub[i] = outer[i]
    BY <2>1, <2>2 DEF sub
  <2>4. sub = outer
    BY <2>3
  <2> QED
    BY <2>4 DEF sub, n
<1>3. /\ outer # << >> /\ \A i \in 1..Len(outer) : outer[i] \in {"user", "logging"}
      /\ outer[Len(outer)] = "user" /\ Len(outer) >= 1
  <2>1. outer # << >> /\ ToSet(outer) \subseteq {"user", "logging"} /\ Last(outer) = "user"
    BY <1>2 DEF Ordinary
  <2>2. Len(outer) >= 1
    BY <1>1, <2>1
  <2> QED
    BY <1>1, <2>1, <2>2 DEF ToSet, Last
<1>4. /\ \A i \in 3..n : i \in ours <=> i \in theirs
      /\ 1 \notin ours /\ 2 \notin ours /\ 1 \in theirs /\ 2 \in theirs
      /\ n \in ours /\ n >= 3
  <2>1. ASSUME NEW i \in 3..n PROVE i \in ours <=> i \in theirs
    <3>1. frames[i] \in {"user", "logging"} /\ i \in 1..n
      BY <1>1, <1>3
    <3> QED
      BY <3>1 DEF Internal
  <2>2. n >= 3 /\ 1 \in 1..n /\ 2 \in 1..n /\ n \in 1..n /\ n \in 3..n /\ n - 2 = Len(outer)
    BY <1>1, <1>3
  <2>3. frames[n] = "user"
    <3> HIDE DEF n
    <3> QED
      BY <1>1, <1>3, <2>2
  <2> HIDE DEF n
  <2> QED
    BY <1>1, <2>1, <2>2, <2>3 DEF Internal
<1>5. /\ Kept(Internal) = Only(all, ours)
      /\ Kept({"logging", "bootstrap"}) = Only(all, theirs)
  BY <1>1 DEF Kept, Positions
<1>6. all = Positions(n) /\ n \in Nat
  BY <1>1
<1> HIDE DEF n, all, ours, theirs
<1>7. PICK one \in [0..n -> Seq(Nat)] :
        /\ one[0] = << >> /\ Only(all, ours) = one[n]
        /\ \A k \in 1..n : one[k] = IF k \in ours THEN Append(one[k - 1], k) ELSE one[k - 1]
  <2>1. PICK upto \in [0..n -> Seq(Nat)] : Chooses(upto, n, ours)
    BY <1>6, OnlyPositions
  <2> QED
    BY <1>6, <2>1 DEF Chooses
<1>8. PICK two \in [0..n -> Seq(Nat)] :
        /\ two[0] = << >> /\ Only(all, theirs) = two[n]
        /\ \A k \in 1..n : two[k] = IF k \in theirs THEN Append(two[k - 1], k) ELSE two[k - 1]
  <2>1. PICK upto \in [0..n -> Seq(Nat)] : Chooses(upto, n, theirs)
    BY <1>6, OnlyPositions
  <2> QED
    BY <1>6, <2>1 DEF Chooses
<1> DEFINE Right(k) == /\ Len(two[k]) = Len(one[k]) + 2
                       /\ \A j \in 1..Len(one[k]) : two[k][j + 2] = one[k][j]
<1> DEFINE T == {k \in 0..n : k >= 2 => Right(k)}
<1>9. 0 \in T
  BY <1>1
<1>10. ASSUME NEW k \in 1..n, k - 1 \in T PROVE k \in T
  <2> SUFFICES ASSUME k >= 2 PROVE Right(k)
    BY <1>1
  <2>1. CASE k = 2
    <3>1. one[1] = << >> /\ two[1] = <<1>>
      <4>1. 1 \in 1..n /\ 1 - 1 = 0
        BY <1>1, <1>4
      <4>2. one[1] = one[0] /\ two[1] = Append(two[0], 1)
        BY <1>4, <1>7, <1>8, <4>1
      <4>3. Append(<< >>, 1) = <<1>>
        OBVIOUS
      <4> QED
        BY <1>7, <1>8, <4>2, <4>3
    <3>2. one[2] = << >> /\ two[2] = Append(two[1], 2)
      <4>1. 2 \in 1..n /\ 2 - 1 = 1
        BY <1>1, <1>4
      <4>2. two[2] = IF 2 \in theirs THEN Append(two[2 - 1], 2) ELSE two[2 - 1]
        BY <1>8, <4>1
      <4>3. one[2] = one[1]
        BY <1>4, <1>7, <4>1
      <4> QED
        BY <1>4, <3>1, <4>1, <4>2, <4>3
    <3>3. Len(<< >>) = 0 /\ Len(Append(<<1>>, 2)) = 2 /\ 1..0 = {}
      <4>1. <<1>> \in Seq(Nat) /\ Len(<<1>>) = 1
        OBVIOUS
      <4> QED
        BY <4>1
    <3> QED
      BY <2>1, <3>1, <3>2, <3>3
  <2>2. CASE k > 2
    <3>1. Right(k - 1) /\ k \in 3..n /\ k - 1 \in 0..n
      <4> HIDE DEF Right
      <4> QED
        BY <1>1, <1>10, <2>2
    <3>2. one[k - 1] \in Seq(Nat) /\ two[k - 1] \in Seq(Nat)
      BY <3>1
    <3>3. CASE k \in ours
      <4>1. one[k] = Append(one[k - 1], k) /\ two[k] = Append(two[k - 1], k)
        BY <1>4, <1>7, <1>8, <3>1, <3>3
      <4>2. k \in Nat /\ Len(two[k - 1]) = Len(one[k - 1]) + 2
            /\ \A j \in 1..Len(one[k - 1]) : two[k - 1][j + 2] = one[k - 1][j]
        BY <1>6, <3>1
      <4> DEFINE a == one[k - 1]
      <4> DEFINE b == two[k - 1]
      <4>3. /\ a \in Seq(Nat) /\ b \in Seq(Nat) /\ Len(b) = Len(a) + 2
            /\ \A j \in 1..Len(a) : b[j + 2] = a[j]
        BY <3>2, <4>2
      <4> HIDE DEF a, b
      <4>4. /\ Len(Append(b, k)) = Len(Append(a, k)) + 2
            /\ \A j \in 1..Len(Append(a, k)) : Append(b, k)[j + 2] = Append(a, k)[j]
        BY <4>2, <4>3, AppendAlike
      <4>5. one[k] = Append(a, k) /\ two[k] = Append(b, k)
        BY <4>1 DEF a, b
      <4> QED
        BY <4>4, <4>5
    <3>4. CASE k \notin ours
      <4>1. one[k] = one[k - 1] /\ two[k] = two[k - 1]
        BY <1>4, <1>7, <1>8, <3>1, <3>4
      <4> QED
        BY <3>1, <4>1
    <3> QED
      BY <3>3, <3>4
  <2> QED
    BY <1>1, <2>1, <2>2
<1> HIDE DEF T
<1>11. 0..n \subseteq T
  BY <1>1, <1>9, <1>10, IntervalInduction
<1>12. Right(n)
  <2>1. n \in T
    BY <1>1, <1>11
  <2> HIDE DEF Right
  <2> QED
    BY <1>4, <2>1 DEF T
<1>13. one[n] \in Seq(Nat) /\ two[n] \in Seq(Nat)
  BY <1>1
<1>14. Len(one[n]) >= 1 /\ Last(one[n]) = n
  <2>1. n \in 1..n /\ n - 1 \in 0..n
    BY <1>1, <1>4
  <2>2. one[n - 1] \in Seq(Nat) /\ one[n] = Append(one[n - 1], n)
    BY <1>4, <1>7, <2>1
  <2> DEFINE a == one[n - 1]
  <2>3. a \in Seq(Nat) /\ one[n] = Append(a, n)
    BY <2>2
  <2> HIDE DEF a
  <2>4. Len(Append(a, n)) = Len(a) + 1 /\ Append(a, n)[Len(a) + 1] = n /\ Len(a) \in Nat
    BY <1>1, <2>3
  <2> QED
    BY <2>3, <2>4 DEF Last
<1> QED
  BY <1>5, <1>7, <1>8, <1>12, <1>13, <1>14 DEF n

LEMMA StackShows == ASSUME StackInv PROVE OneCaller
<1> SUFFICES ASSUME place # 0, Ordinary PROVE source = place
  BY DEF OneCaller
<1> DEFINE s == given.stacklevel
<1> DEFINE here == Kept(Internal)
<1> DEFINE there == Kept({"logging", "bootstrap"})
<1>1. s \in Nat /\ s >= 1 /\ source = Resolved(s) /\ place = Found(s + 2)
  BY DEF StackInv, Stacklevel
<1>2. /\ here \in Seq(Nat) /\ there \in Seq(Nat)
      /\ Len(here) >= 1 /\ Last(here) = Len(frames)
      /\ Len(there) = Len(here) + 2
      /\ \A j \in 1..Len(here) : there[j + 2] = here[j]
  BY KeptAlike DEF StackInv
<1> HIDE DEF s
<1>3. /\ Resolved(s) = IF here = << >> THEN 0
                       ELSE IF s <= Len(here) THEN here[s] ELSE Last(here)
      /\ Found(s + 2) = IF s + 2 <= Len(there) THEN there[s + 2] ELSE Len(frames)
  BY DEF Resolved, Found
<1> HIDE DEF here, there
<1>4. here # << >> /\ Len(here) \in Nat
  BY <1>2
<1>5. CASE s <= Len(here)
  <2>1. s \in 1..Len(here) /\ s + 2 <= Len(there)
    BY <1>1, <1>2, <1>4, <1>5
  <2> QED
    BY <1>1, <1>2, <1>3, <1>4, <1>5, <2>1
<1>6. CASE ~(s <= Len(here))
  <2>1. ~(s + 2 <= Len(there))
    BY <1>1, <1>2, <1>4, <1>6
  <2> QED
    BY <1>1, <1>2, <1>3, <1>4, <1>6, <2>1
<1> QED
  BY <1>5, <1>6

(* The module, and the file, line and function, an accepted record tells    *)
(* are of one frame, for any stack that is ordinary and any stacklevel      *)
(* (resolve_caller, Logger._emit, findCaller).                              *)
THEOREM CallerSafe == RecordSpec => []OneCaller
BY StackStart, StackNext, StackShows, PTL DEF RecordSpec

(* The copy keeps its ancestors and limits in every record that reaches it  *)
(* through _emit and make_event.                                            *)
THEOREM RecordKeepsCopy == RecordSpec => [](AncestorsAreOpen /\ LimitsHold)
BY RecordImplements, AncestorsSafe, LimitsSafe, PTL
==============================================================================
