-------------------------------- MODULE Timing --------------------------------
(****************************************************************************)
(* Context-local timing, core/helper/timing.py: explicit timer handles, the *)
(* reusable Timed scopes and the operation a record is attributed to.       *)
(*                                                                          *)
(* A context (of a thread or a task) holds the values of two kinds of       *)
(* ContextVar: the stack of operations, and one tuple of handles per Timed. *)
(* Creating a task copies the context.  Threads and tasks interleave        *)
(* between the operations; inside one, a context is run by one thread only. *)
(*                                                                          *)
(* Handles are numbered in the order they are made.  A handle stands for    *)
(* its stack entry as well.  Clock readings are left out.                   *)
(****************************************************************************)
EXTENDS Naturals, Sequences, FiniteSets, SequencesExt

CONSTANTS Contexts,   \* execution contexts
          First,      \* the context that exists at the start
          Scopes,     \* Timed objects
          MaxHandles  \* bound: how many handles are made

ASSUME TimingAssumption == First \in Contexts /\ MaxHandles \in Nat

Handles == 1 .. MaxHandles

VARIABLES
    born,      \* contexts that exist
    made,      \* how many handles exist
    token,     \* token[h]: the context and the stack of _stack.set
    stack,     \* _stack in each context
    stopped,   \* handles whose _elapsed_ns is set
    scoped,    \* scoped[s][c]: the _handles of scope s in context c
    blocks,    \* the open with-blocks of c: scope, and the handle it yielded
    inherited, \* the stack c was created with
    orderly    \* history: blocks were left only with the timers started in
               \* them stopped, as the README asks

vars == <<born, made, token, stack, stopped, scoped, blocks, inherited, orderly>>

NoToken == [context |-> First, old |-> <<>>]

TypeOk ==
    /\ First \in born /\ born \subseteq Contexts
    /\ made \in 0 .. MaxHandles
    /\ token \in [Handles -> [context : Contexts, old : Seq(Handles)]]
    /\ stack \in [Contexts -> Seq(Handles)]
    /\ stopped \subseteq 1 .. made
    /\ scoped \in [Scopes -> [Contexts -> Seq(Handles)]]
    /\ blocks \in [Contexts -> Seq([scope : Scopes, handle : Handles])]
    /\ inherited \in [Contexts -> Seq(Handles)]
    /\ orderly \in BOOLEAN

Empty == [c \in Contexts |-> <<>>]

Init ==
    /\ born = {First}
    /\ made = 0
    /\ token = [h \in Handles |-> NoToken]
    /\ stack = Empty
    /\ stopped = {}
    /\ scoped = [s \in Scopes |-> Empty]
    /\ blocks = Empty
    /\ inherited = Empty
    /\ orderly = TRUE

(* asyncio.create_task, asyncio.to_thread, copy_context().run.  A plain     *)
(* thread starts with an empty context instead.                             *)
NewContext(c, d, copied) ==
    /\ d \notin born
    /\ born' = born \union {d}
    /\ stack' = [stack EXCEPT ![d] = IF copied THEN stack[c] ELSE <<>>]
    /\ inherited' = [inherited EXCEPT ![d] = stack'[d]]
    /\ scoped' = [s \in Scopes |->
                    [scoped[s] EXCEPT ![d] = IF copied THEN scoped[s][c] ELSE <<>>]]
    /\ UNCHANGED <<made, token, stopped, blocks, orderly>>

(****************************************************************************)
(* TimerHandle.                                                             *)
(****************************************************************************)
(* ContextVar.set gives a token for the value before. *)
Before(c) == stack[c]

Start(c) ==
    /\ made < MaxHandles
    /\ made' = made + 1
    /\ token' = [token EXCEPT ![made'] = [context |-> c, old |-> Before(c)]]
    /\ stack' = [stack EXCEPT ![c] = Append(@, made')]

StartTimer(c) == Start(c) /\ UNCHANGED <<born, stopped, scoped, blocks, inherited, orderly>>

(* The entry is the innermost one of the current context. *)
OnStack(c, h)   == Contains(stack[c], h)
Innermost(c, h) == stack[c] # <<>> /\ Last(stack[c]) = h

(* reset accepts a token only in the context that made it. *)
AnyToken(c, h) == TRUE
OwnToken(c, h) == token[h].context = c

StopWorks(c, h)   == h \notin stopped /\ Innermost(c, h) /\ OwnToken(c, h)
StopReturns(c, h) == h \in stopped \/ StopWorks(c, h)

(* stop either succeeds, or returns the same value again, or raises and     *)
(* leaves everything as it was.                                             *)
StoppingFirst(c, h) ==
    /\ stopped' = stopped \union {h}
    /\ stack' = IF StopWorks(c, h) THEN [stack EXCEPT ![c] = token[h].old] ELSE stack
Stopping(c, h) ==
    IF StopWorks(c, h)
    THEN stack' = [stack EXCEPT ![c] = token[h].old] /\ stopped' = stopped \union {h}
    ELSE UNCHANGED <<stack, stopped>>

Stop(c, h) ==
    /\ h <= made
    /\ Stopping(c, h)
    /\ UNCHANGED <<born, made, token, scoped, blocks, inherited, orderly>>

(****************************************************************************)
(* Timed: the context manager, and the decorators that use it.              *)
(****************************************************************************)
Enter(c, s) ==
    /\ Start(c)
    /\ scoped' = [scoped EXCEPT ![s][c] = Append(@, made')]
    /\ blocks' = [blocks EXCEPT ![c] = Append(@, [scope |-> s, handle |-> made'])]
    /\ UNCHANGED <<born, stopped, inherited, orderly>>

Timers(c, s) == scoped[s][c]
LatestFirst(hs) == Head(hs)
Latest(hs) == Last(hs)

(* __exit__ stops the latest handle of its scope in this context.  If that  *)
(* raises, the error leaves the with-block and _handles stays as it is.     *)
Exit(c) ==
    /\ blocks[c] # <<>>
    /\ LET block == Last(blocks[c])
           hs    == Timers(c, block.scope) IN
       /\ orderly' = (orderly /\ (Innermost(c, block.handle) \/ block.handle \in stopped))
       /\ IF hs = <<>>
          THEN UNCHANGED <<stack, stopped, scoped>>
          ELSE /\ Stopping(c, Latest(hs))
               /\ scoped' = IF StopReturns(c, Latest(hs))
                            THEN [scoped EXCEPT ![block.scope][c] = Front(hs)] ELSE scoped
    /\ blocks' = [blocks EXCEPT ![c] = Front(@)]
    /\ UNCHANGED <<born, made, token, inherited>>

Next == \E c \in born :
    \/ \E d \in Contexts, copied \in BOOLEAN : NewContext(c, d, copied)
    \/ StartTimer(c)
    \/ \E h \in Handles : Stop(c, h)
    \/ \E s \in Scopes : Enter(c, s)
    \/ Exit(c)

Spec == Init /\ [][Next]_vars

(****************************************************************************)
(* Properties.                                                              *)
(****************************************************************************)
(* The operations that were started in c and still run. *)
Running(c) == {h \in 1 .. made : token[h].context = c /\ h \notin stopped}

(* Every context's stack is what it inherited and then, in order, exactly   *)
(* the operations started there that still run: a record is attributed to   *)
(* the innermost of them (capture_timing), and no stop in the wrong order,  *)
(* repeated, or in a copied context takes or leaves anything else.          *)
OwnPart(c) == Len(inherited[c]) + 1 .. Len(stack[c])
StackIsRunning == \A c \in born :
    /\ IsPrefix(inherited[c], stack[c])
    /\ {stack[c][i] : i \in OwnPart(c)} = Running(c)
    /\ \A i, j \in OwnPart(c) : i < j => stack[c][i] < stack[c][j]

(* Whatever was started, copied and refused before, the operations started  *)
(* in a context can be stopped from the innermost on: each still runs, has  *)
(* a token of this context, and gives back exactly the stack beneath it.  A *)
(* stop that raises leaves the timer able to stop later (stop sets          *)
(* _elapsed_ns only behind the reset).                                      *)
CanUnwind == \A c \in born : \A i \in OwnPart(c) :
    LET h == stack[c][i] IN
    /\ h \notin stopped /\ OwnToken(c, h)
    /\ token[h].old = SubSeq(stack[c], 1, i - 1)

(* A with-block, or a decorated call, that is left without an error of the  *)
(* timer's has stopped the handle that entering it made: also in recursion, *)
(* and in contexts that share the scope.                                    *)
Raises(c) ==
    LET hs == Timers(c, Last(blocks[c]).scope) IN hs = <<>> \/ ~StopReturns(c, Latest(hs))
StopsOwn(c) == Exit(c) /\ ~Raises(c) => Last(blocks[c]).handle \in stopped'
ContextExitStops == [][\A c \in born : StopsOwn(c)]_vars

(* It does in programs that stop the timers they start inside a block       *)
(* before they leave it.                                                    *)
ExitStopsOwn == [][orderly' => \A c \in born : StopsOwn(c)]_vars
==============================================================================
