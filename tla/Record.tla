-------------------------------- MODULE Record --------------------------------
(****************************************************************************)
(* One facade call, from its arguments to the immutable event the providers *)
(* get: Logger._emit (core/service/facade.py), the caller's frame           *)
(* (core/helper/source.py), and make_event (core/helper/event.py), whose    *)
(* copy of the metadata is EventSnapshot.                                   *)
(*                                                                          *)
(* What is abstracted: the message, the clock, the levels, the texts a      *)
(* failing conversion is replaced by, and the characters of a key: two keys *)
(* may have the same bounded text, or that of the marker, and a number      *)
(* stands for the suffix that tells them apart.                             *)
(****************************************************************************)
EXTENDS EventSnapshot, Lists

CONSTANTS Keys,        \* metadata keys
          KindOf,      \* what each of them is
          Texts,       \* what a name in the copy may begin with
          TextOf,      \* the bounded text of each key: a beginning and a number
          Marker,      \* METADATA_TRUNCATION_KEY_STR
          Exceptions,  \* exception objects
          NoException, \* no exception
          MaxChain,    \* EXCEPTION_MAX_CHAIN_LENGTH_INT
          MaxOuter     \* bound: the frames around the facade's own

Kinds  == {"plain", "standard", "internal", "odd"}
Chains == [cause : [Exceptions -> Exceptions \union {NoException}],
           context : [Exceptions -> Exceptions \union {NoException}],
           suppress : [Exceptions -> BOOLEAN],
           raised : Exceptions \union {NoException}]

ASSUME KeyAssumption   == KindOf \in [Keys -> Kinds]
ASSUME TextAssumption  == TextOf \in [Keys -> Texts \X (Nat \ {0})] /\ Marker \in Texts
ASSUME OuterAssumption == MaxOuter \in Nat
ASSUME ChainAssumption == NoException \notin Exceptions /\ MaxChain \in Nat \ {0}

(* Modules whose frames lie on the stack: the application's, this package's,*)
(* modules named core (the application may have one), standard logging and  *)
(* the import system.                                                       *)
Modules == {"user", "forge", "core", "logging", "bootstrap"}

VARIABLES
    stage,     \* where the record is, or how its call has ended
    given,     \* the arguments: extra, keywords, stacklevel
    host,      \* attributes the host's record factory sets
    order,     \* the keys of the attributes, as their mapping lists them
    frames,    \* the stack, _emit's frame first
    source,    \* the frame resolve_caller selects, 0 for none
    place,     \* the frame the record's pathname, line and function tell
    carried,   \* the metadata of the event: by name, the key and where its value is from
    chain,     \* the exceptions and how they are linked
    current,   \* the exception to be described next
    told       \* the exceptions described, the latest first

inputs == <<given, host, order, frames, chain>>
outputs == <<source, place, carried>>
recordVars == <<vars, stage, inputs, outputs, current, told>>

Facade == <<"forge", "forge">>    \* _emit, and the method of Logger around it

Arguments == [extra : SUBSET Keys, keywords : SUBSET {k \in Keys : KindOf[k] # "odd"},
              stacklevel : Nat]

(* validate_metadata merges extra and keywords, or refuses the call. *)
Reserved(k) == KindOf[k] \in {"standard", "internal", "odd"}
ReservedOnly == \A k \in given.extra \union given.keywords : ~Reserved(k)
Valid == /\ \A k \in given.extra \union given.keywords : ~Reserved(k)
         /\ given.extra \intersect given.keywords = {}
Merged == [k \in given.extra \union given.keywords |->
             IF k \in given.keywords THEN "keyword" ELSE "extra"]

(* The attributes of the record that make_event copies.  The host's factory *)
(* sets its own first, and standard logging adds the merged ones in turn.   *)
Attributes == [k \in {h \in host : ~Reserved(h)} \union DOMAIN Merged |->
                 IF k \in DOMAIN Merged THEN Merged[k] ELSE "host"]
Turn == [host |-> 1, extra |-> 2, keyword |-> 3]
Listed == /\ order \in Seq(Keys) /\ IsInjective(order) /\ ToSet(order) = DOMAIN Attributes
          /\ \A i, j \in DOMAIN order :
                i < j => Turn[Attributes[order[i]]] <= Turn[Attributes[order[j]]]

RecordInit ==
    /\ Init
    /\ stage = "call"
    /\ given \in Arguments
    /\ host \in SUBSET Keys
    /\ Listed /\ Len(contents[Root]) = Len(order)
    /\ frames \in {Facade \o outer : outer \in BoundedSeq(Modules, MaxOuter)}
    /\ source = 0 /\ place = 0 /\ carried = << >>
    /\ chain \in Chains
    /\ current = chain.raised /\ told = << >>

(****************************************************************************)
(* The caller's frame.                                                      *)
(****************************************************************************)
(* The positions, in order, of the frames a search does not skip. *)
Kept(skipped) == Only([i \in DOMAIN frames |-> i],
                      {i \in DOMAIN frames : frames[i] \notin skipped})

(* resolve_caller counts the frames of the application and stays at the     *)
(* last one when there are too few.                                         *)
Internal == {"forge", "core", "logging"}
Resolved(stacklevel) ==
    LET kept == Kept(Internal) IN
    IF kept = << >> THEN 0
    ELSE IF stacklevel <= Len(kept) THEN kept[stacklevel] ELSE Last(kept)

(* findCaller of standard logging skips itself and the import system, and   *)
(* stays at the outermost frame when there are too few.                     *)
Found(stacklevel) ==
    LET kept == Kept({"logging", "bootstrap"}) IN
    IF stacklevel <= Len(kept) THEN kept[stacklevel] ELSE Len(frames)

(* What _emit passes on, for its own frames. *)
StacklevelBelow == given.stacklevel + 1
Stacklevel == given.stacklevel + 2

(****************************************************************************)
(* Logger._emit.                                                            *)
(****************************************************************************)
Refuse == stage' = "refused" /\ UNCHANGED outputs

(* Below the threshold, or a gate of standard logging. *)
Drop == stage' = "dropped" /\ UNCHANGED outputs

(* Standard logging refuses a key that its record has already. *)
Clash == /\ (given.extra \union given.keywords) \intersect host # {}
         /\ stage' = "clash" /\ UNCHANGED outputs

Accept == /\ (given.extra \union given.keywords) \intersect host = {}
          /\ stage' = "copying"
          /\ source' = Resolved(given.stacklevel)
          /\ place' = Found(Stacklevel)
          /\ UNCHANGED carried

Emit ==
    /\ stage = "call"
    /\ IF given.stacklevel < 1 \/ ~Valid THEN Refuse ELSE Drop \/ Clash \/ Accept
    /\ UNCHANGED <<vars, inputs, current, told>>

(****************************************************************************)
(* make_event.                                                              *)
(****************************************************************************)
(* A name for an entry that no other entry has: the text itself, or its     *)
(* beginning with the first number that is free.                            *)
NamedPlainly(text, taken) == text
Named(text, taken) ==
    IF text \notin taken THEN text
    ELSE <<text[1], Min({n \in 2..(Cardinality(taken) + 2) : <<text[1], n>> \notin taken})>>

Put(text, value) ==
    LET name == Named(text, DOMAIN carried) IN
    carried' = [n \in DOMAIN carried \union {name} |-> IF n = name THEN value ELSE carried[n]]

(* What the metadata holds: a key with where its value is from, the marker  *)
(* that stands for the rest, or the text of the attributes.                 *)
Entry(k) == <<k, Attributes[k]>>
Cut  == <<Marker, "cut">>
Text == <<Marker, "text">>
Unreadable == [name \in {<<Marker, 1>>} |-> Text]

(* The copy of the attributes, which their values may make fail and the     *)
(* application may disturb.  A name is chosen behind the conversion of its  *)
(* value, but nothing else is put at the top in between.                    *)
AtTop == Len(open) = 1
CopyItem == /\ ConvertItem
            /\ IF AtTop THEN LET k == order[Top.next] IN Put(TextOf[k], Entry(k))
               ELSE UNCHANGED carried
CopyCut  == /\ Truncate
            /\ IF AtTop THEN Put(<<Marker, 1>>, Cut) ELSE UNCHANGED carried
CopyText == /\ Abandon
            /\ carried' = IF AtTop THEN Unreadable ELSE carried
CopyRest == /\ Finish \/ \E c \in Containers : Change(c)
            /\ UNCHANGED carried

Copy ==
    /\ stage = "copying"
    /\ CopyItem \/ CopyCut \/ CopyText \/ CopyRest
    /\ stage' = IF open' = << >> THEN "exception" ELSE stage
    /\ UNCHANGED <<inputs, source, place, current, told>>

(* _exception_snapshot: one turn of the loop over the chain. *)
Link(e) == IF chain.cause[e] # NoException THEN chain.cause[e]
           ELSE IF ~chain.suppress[e] THEN chain.context[e] ELSE NoException

ToldNever == current # NoException /\ Len(told) < MaxChain
Untold == current # NoException /\ current \notin ToSet(told) /\ Len(told) < MaxChain

Describe ==
    /\ stage = "exception" /\ Untold
    /\ told' = <<current>> \o told
    /\ current' = Link(current)
    /\ UNCHANGED <<vars, stage, inputs, outputs>>

Made ==
    /\ stage = "exception" /\ ~Untold
    /\ stage' = "made"
    /\ UNCHANGED <<vars, inputs, outputs, current, told>>

Ended == stage \in {"refused", "dropped", "clash", "made"} /\ UNCHANGED recordVars

RecordNext == Emit \/ Copy \/ Describe \/ Made \/ Ended

RecordSpec == RecordInit /\ [][RecordNext]_recordVars

(****************************************************************************)
(* Properties.                                                              *)
(****************************************************************************)
(* What the host and the caller have given, key by key. *)
Given == {<<k, "extra">> : k \in given.extra} \union {<<k, "keyword">> : k \in given.keywords}
            \union {<<k, "host">> : k \in {h \in host : ~Reserved(h)}}

(* Unless the copy as a whole has failed, an event carries the first of the *)
(* attributes it was given, each with its own value under a name of its     *)
(* own, and nothing reserved: neither the merge, nor standard logging, nor  *)
(* a long key replaces one.  The rest is missing only when a limit is       *)
(* reached, and then a marker says so.                                      *)
MetadataKept == stage \in {"exception", "made"} /\ carried # Unreadable =>
    \E n \in 0..Len(order) :
       LET first == {order[i] : i \in 1..n} IN
       /\ IsInjective(carried)
       /\ \A k \in first : ~Reserved(k)
       /\ IF n < Len(order)
          THEN /\ Range(carried) = {e \in Given : e[1] \in first} \union {Cut}
               /\ n = MaxItems \/ visited = MaxNodes
          ELSE Range(carried) = Given

(* The module a record is attributed to and the file, line and function it  *)
(* shows are the same frame, although two searches with different rules     *)
(* find them, for stacks on which only the application and standard logging *)
(* lie around the facade.                                                   *)
Ordinary == LET outer == SubSeq(frames, 3, Len(frames)) IN
    outer # << >> /\ ToSet(outer) \subseteq {"user", "logging"} /\ Last(outer) = "user"
OneCaller == place # 0 /\ Ordinary => source = place

(* The chain an event tells ends with the record's own exception, goes from *)
(* cause or unsuppressed context to effect, repeats nothing, and is cut     *)
(* only at the limit or where the links close a circle.                     *)
ChainTold == stage = "made" /\ chain.raised # NoException =>
    /\ Last(told) = chain.raised
    /\ \A i \in 1..(Len(told) - 1) : told[i] = Link(told[i + 1])
    /\ IsInjective(told)
    /\ Len(told) = MaxChain \/ Link(Head(told)) \in ToSet(told) \union {NoException}
==============================================================================
