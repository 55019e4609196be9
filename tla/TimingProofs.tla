----------------------------- MODULE TimingProofs -----------------------------
(****************************************************************************)
(* Timing, for any contexts, scopes and number of handles.                  *)
(****************************************************************************)
EXTENDS Timing, TLAPS

(****************************************************************************)
(* The inductive invariant.  It says of the stack of a context, place by    *)
(* place, what StackIsRunning says of the whole, and of the token of a      *)
(* running operation that it holds the stack below that operation: this is  *)
(* why a stop in the right order leaves the right stack.                    *)
(****************************************************************************)
Inherits(c) ==
    /\ Len(inherited[c]) <= Len(stack[c])
    /\ \A i \in 1..Len(inherited[c]) :
          stack[c][i] = inherited[c][i] /\ token[stack[c][i]].context # c

MadeOnly(c) == \A i \in 1..Len(stack[c]) : stack[c][i] \in 1..made

OwnRuns(c) == \A i \in OwnPart(c) : stack[c][i] \in Running(c)

TokensBelow(c) == \A i \in OwnPart(c) :
    LET old == token[stack[c][i]].old IN
    /\ Len(old) = i - 1
    /\ \A j \in 1..(i - 1) : old[j] = stack[c][j]

RunsThere(c) == \A h \in Running(c) : \E i \in OwnPart(c) : stack[c][i] = h

Increasing(c) == \A i, j \in OwnPart(c) : i < j => stack[c][i] < stack[c][j]

Orderly(c) == /\ Inherits(c) /\ MadeOnly(c)
              /\ OwnRuns(c) /\ TokensBelow(c) /\ RunsThere(c) /\ Increasing(c)

TimingInv == /\ TypeOk
             /\ \A h \in 1..made : token[h].context \in born
             /\ \A c \in born : Orderly(c)

LEMMA SeqFacts ==
    ASSUME NEW S, NEW seq \in Seq(S)
    PROVE  /\ \A i \in DOMAIN seq : seq[i] \in S
           /\ seq # << >> => Len(seq) \in Nat \ {0} /\ Len(seq) \in DOMAIN seq
OBVIOUS

LEMMA LastAndFront ==
    ASSUME NEW S, NEW seq \in Seq(S), seq # << >>
    PROVE  Last(seq) \in S /\ Front(seq) \in Seq(S)
<1>1. Len(seq) \in 1..Len(seq) /\ Len(seq) - 1 \in Nat
  OBVIOUS
<1> QED
  BY <1>1 DEF Last, Front

(****************************************************************************)
(* Types.                                                                   *)
(****************************************************************************)
LEMMA InitTypes == Init => TypeOk
<1> SUFFICES ASSUME Init PROVE TypeOk
  OBVIOUS
<1>1. Empty \in [Contexts -> Seq(Handles)]
  BY DEF Empty
<1>2. Empty \in [Contexts -> Seq([scope : Scopes, handle : Handles])]
  BY DEF Empty
<1>3. NoToken \in [context : Contexts, old : Seq(Handles)]
  BY TimingAssumption DEF NoToken
<1>4. made \in 0..MaxHandles /\ stopped \subseteq 1..made /\ orderly \in BOOLEAN
  BY TimingAssumption DEF Init
<1>5. token \in [Handles -> [context : Contexts, old : Seq(Handles)]]
  BY <1>3 DEF Init
<1>6. scoped \in [Scopes -> [Contexts -> Seq(Handles)]]
  BY <1>1 DEF Init
<1> QED
  BY <1>1, <1>2, <1>4, <1>5, <1>6, TimingAssumption DEF Init, TypeOk

LEMMA NewContextTypes ==
    ASSUME TypeOk, NEW c \in born, NEW d \in Contexts, NEW copied \in BOOLEAN,
           NewContext(c, d, copied)
    PROVE  TypeOk'
<1>1. c \in Contexts
  BY DEF TypeOk
<1>2. (IF copied THEN stack[c] ELSE << >>) \in Seq(Handles)
  BY <1>1 DEF TypeOk
<1>3. stack' \in [Contexts -> Seq(Handles)] /\ stack'[d] \in Seq(Handles)
  BY <1>2 DEF TypeOk, NewContext
<1>4. inherited' \in [Contexts -> Seq(Handles)]
  BY <1>3 DEF TypeOk, NewContext
<1>5. scoped' \in [Scopes -> [Contexts -> Seq(Handles)]]
  <2> SUFFICES ASSUME NEW s \in Scopes
               PROVE  [scoped[s] EXCEPT ![d] = IF copied THEN scoped[s][c] ELSE << >>]
                        \in [Contexts -> Seq(Handles)]
    BY DEF NewContext
  <2>1. scoped[s] \in [Contexts -> Seq(Handles)] /\ scoped[s][c] \in Seq(Handles)
    BY <1>1 DEF TypeOk
  <2> QED
    BY <2>1
<1>6. born' \subseteq Contexts /\ First \in born'
  BY DEF TypeOk, NewContext
<1> QED
  BY <1>3, <1>4, <1>5, <1>6 DEF TypeOk, NewContext

LEMMA StartTypes ==
    ASSUME TypeOk, NEW c \in born, Start(c), UNCHANGED stopped
    PROVE  /\ made' = made + 1 /\ made' \in Handles /\ made' \in 0..MaxHandles
           /\ token' \in [Handles -> [context : Contexts, old : Seq(Handles)]]
           /\ stack' \in [Contexts -> Seq(Handles)]
           /\ stopped' \subseteq 1..made'
<1>1. c \in Contexts /\ made \in Nat /\ made < MaxHandles /\ MaxHandles \in Nat
  BY TimingAssumption DEF TypeOk, Start
<1>2. made' = made + 1 /\ made' \in Handles /\ made' \in 0..MaxHandles
  BY <1>1 DEF Start, Handles
<1>3. stack[c] \in Seq(Handles)
  BY <1>1 DEF TypeOk
<1>4. token' \in [Handles -> [context : Contexts, old : Seq(Handles)]]
  <2>1. [context |-> c, old |-> stack[c]] \in [context : Contexts, old : Seq(Handles)]
    BY <1>1, <1>3
  <2> QED
    BY <1>2, <2>1 DEF Start, Before, TypeOk
<1>5. stack' \in [Contexts -> Seq(Handles)]
  <2>1. Append(stack[c], made') \in Seq(Handles)
    BY <1>2, <1>3
  <2> QED
    BY <2>1 DEF Start, TypeOk
<1>6. stopped' \subseteq 1..made'
  BY <1>1, <1>2 DEF TypeOk
<1> QED
  BY <1>2, <1>4, <1>5, <1>6

LEMMA StoppingTypes ==
    ASSUME TypeOk, NEW c \in born, NEW h \in Handles, Stopping(c, h), MadeOnly(c)
    PROVE  stack' \in [Contexts -> Seq(Handles)] /\ stopped' \subseteq 1..made
<1>1. CASE StopWorks(c, h)
  <2>1. token[h].old \in Seq(Handles)
    BY DEF TypeOk
  <2>2. h \in 1..made
    <3>1. c \in Contexts /\ stack[c] \in Seq(Handles)
      BY DEF TypeOk
    <3>2. stack[c] # << >> /\ h = stack[c][Len(stack[c])]
      BY <1>1 DEF StopWorks, Innermost, Last
    <3>3. Len(stack[c]) \in 1..Len(stack[c])
      BY <3>1, <3>2
    <3> QED
      BY <3>2, <3>3 DEF MadeOnly
  <2> QED
    BY <1>1, <2>1, <2>2 DEF Stopping, TypeOk
<1>2. CASE ~StopWorks(c, h)
  BY <1>2 DEF Stopping, TypeOk
<1> QED
  BY <1>1, <1>2

(****************************************************************************)
(* The stacks.                                                              *)
(****************************************************************************)
LEMMA StackFacts ==
    ASSUME TypeOk, NEW c \in born
    PROVE  /\ c \in Contexts /\ made \in Nat
           /\ stack[c] \in Seq(Handles) /\ inherited[c] \in Seq(Handles)
           /\ Len(stack[c]) \in Nat /\ Len(inherited[c]) \in Nat
           /\ OwnPart(c) = Len(inherited[c]) + 1 .. Len(stack[c])
<1>1. c \in Contexts /\ made \in Nat
  BY TimingAssumption DEF TypeOk
<1>2. stack[c] \in Seq(Handles) /\ inherited[c] \in Seq(Handles)
  BY <1>1 DEF TypeOk
<1> QED
  BY <1>1, <1>2 DEF OwnPart

(* A context whose stack and operations stay as they are stays in order. *)
LEMMA OthersKeep ==
    ASSUME TypeOk, NEW c \in born, Orderly(c),
           stack'[c] = stack[c], inherited'[c] = inherited[c],
           made' \in Nat, made <= made', \A h \in 1..made : token'[h] = token[h],
           Running(c)' = Running(c)
    PROVE  Orderly(c)'
<1>1. Len(stack[c]) \in Nat /\ Len(inherited[c]) \in Nat /\ made \in Nat
  BY StackFacts
<1>2. OwnPart(c)' = OwnPart(c)
  BY DEF OwnPart
<1>3. \A i \in 1..Len(stack[c]) :
         stack[c][i] \in 1..made /\ token'[stack[c][i]] = token[stack[c][i]]
  BY DEF Orderly, MadeOnly
<1>4. \A i \in OwnPart(c) : i \in 1..Len(stack[c])
  BY <1>1 DEF OwnPart
<1>5. Inherits(c)'
  BY <1>1, <1>3 DEF Orderly, Inherits
<1>6. MadeOnly(c)'
  BY <1>1, <1>3 DEF MadeOnly
<1>7. TokensBelow(c)'
  BY <1>2, <1>3, <1>4 DEF Orderly, TokensBelow
<1>8. OwnRuns(c)' /\ RunsThere(c)' /\ Increasing(c)'
  BY <1>2 DEF Orderly, OwnRuns, RunsThere, Increasing
<1> QED
  BY <1>5, <1>6, <1>7, <1>8 DEF Orderly

LEMMA NewContextKeeps ==
    ASSUME TimingInv, NEW c \in born, NEW d \in Contexts, NEW copied \in BOOLEAN,
           NewContext(c, d, copied)
    PROVE  TimingInv'
<1>1. /\ d \notin born /\ born' = born \union {d} /\ made' = made /\ token' = token
      /\ stopped' = stopped
      /\ stack' = [stack EXCEPT ![d] = IF copied THEN stack[c] ELSE << >>]
      /\ inherited' = [inherited EXCEPT ![d] = stack'[d]]
  BY DEF NewContext
<1>2. TypeOk'
  BY NewContextTypes DEF TimingInv
<1>3. \A h \in 1..made' : token'[h].context \in born'
  BY <1>1 DEF TimingInv
<1>4. made \in Nat /\ stack \in [Contexts -> Seq(Handles)] /\ inherited \in [Contexts -> Seq(Handles)]
  BY TimingAssumption DEF TimingInv, TypeOk
<1>5. ASSUME NEW e \in born PROVE Orderly(e)'
  <2>1. e \in Contexts /\ e # d
    BY <1>1 DEF TimingInv, TypeOk
  <2>2. stack'[e] = stack[e] /\ inherited'[e] = inherited[e]
    BY <1>1, <1>4, <2>1
  <2>3. Running(e)' = Running(e)
    BY <1>1 DEF Running
  <2> QED
    BY <1>1, <1>4, <2>2, <2>3, OthersKeep DEF TimingInv
<1>6. Orderly(d)'
  <2>1. stack'[d] = inherited'[d] /\ stack'[d] \in Seq(Handles)
    BY <1>1, <1>2, <1>4 DEF TypeOk
  <2>2. \A i \in 1..Len(stack'[d]) : stack'[d][i] \in 1..made
    <3>1. CASE copied
      <4>1. stack'[d] = stack[c]
        BY <1>1, <1>4, <3>1
      <4> QED
        BY <4>1 DEF TimingInv, Orderly, MadeOnly
    <3>2. CASE ~copied
      <4>1. stack'[d] = << >>
        BY <1>1, <1>4, <3>2
      <4> QED
        BY <4>1
    <3> QED
      BY <3>1, <3>2
  <2>3. \A h \in 1..made : token'[h].context # d
    BY <1>1 DEF TimingInv
  <2>4. Running(d)' = {}
    BY <1>1, <2>3 DEF Running
  <2>5. Len(stack'[d]) \in Nat
    BY <2>1
  <2>6. OwnPart(d)' = {}
    BY <2>1, <2>5 DEF OwnPart
  <2>7. Inherits(d)' /\ MadeOnly(d)'
    BY <1>1, <2>1, <2>2, <2>3, <2>5 DEF Inherits, MadeOnly
  <2>8. OwnRuns(d)' /\ TokensBelow(d)' /\ RunsThere(d)' /\ Increasing(d)'
    BY <2>4, <2>6 DEF OwnRuns, TokensBelow, RunsThere, Increasing
  <2> QED
    BY <2>7, <2>8 DEF Orderly
<1> QED
  BY <1>1, <1>2, <1>3, <1>5, <1>6 DEF TimingInv

(* Starting a timer puts it, the newest handle, on top. *)
LEMMA StartKeeps ==
    ASSUME TimingInv, NEW c \in born, Start(c), TypeOk',
           UNCHANGED <<born, stopped, inherited>>
    PROVE  TimingInv'
<1> DEFINE h == made + 1
           s == stack[c]
<1>1. /\ made' = h /\ token' = [token EXCEPT ![h] = [context |-> c, old |-> s]]
      /\ stack' = [stack EXCEPT ![c] = Append(s, h)]
  BY DEF Start, Before
<1>2. /\ c \in Contexts /\ made \in Nat /\ s \in Seq(Handles)
      /\ Len(s) \in Nat /\ Len(inherited[c]) \in Nat
  BY StackFacts DEF TimingInv
<1>3. h \in Handles
  BY StartTypes DEF TimingInv
<1>4. token'[h] = [context |-> c, old |-> s] /\ \A k \in 1..made : token'[k] = token[k]
  BY <1>1, <1>2, <1>3 DEF TimingInv, TypeOk
<1>5. h \notin stopped
  BY <1>2 DEF TimingInv, TypeOk
<1>6. \A k \in 1..made' : k = h \/ k \in 1..made
  BY <1>1, <1>2
<1>7. \A k \in 1..made' : token'[k].context \in born'
  BY <1>4, <1>6 DEF TimingInv
<1>8. ASSUME NEW e \in born, e # c PROVE Orderly(e)'
  <2>1. e \in Contexts
    BY DEF TimingInv, TypeOk
  <2>2. stack'[e] = stack[e] /\ inherited'[e] = inherited[e]
    BY <1>1, <1>8, <2>1 DEF TimingInv, TypeOk
  <2>3. Running(e)' = Running(e)
    BY <1>1, <1>2, <1>4, <1>6, <1>8 DEF Running
  <2> QED
    BY <1>1, <1>2, <1>4, <2>2, <2>3, OthersKeep DEF TimingInv
<1>9. Orderly(c)'
  <2>1. /\ stack'[c] = Append(s, h) /\ Len(stack'[c]) = Len(s) + 1
        /\ stack'[c][Len(s) + 1] = h /\ \A i \in 1..Len(s) : stack'[c][i] = s[i]
    BY <1>1, <1>2, <1>3 DEF TimingInv, TypeOk
  <2>2. inherited'[c] = inherited[c] /\ Len(inherited[c]) <= Len(s)
    BY DEF TimingInv, Orderly, Inherits
  <2>3. OwnPart(c)' = OwnPart(c) \union {Len(s) + 1}
    BY <1>2, <2>1, <2>2 DEF OwnPart
  <2>4. \A i \in OwnPart(c) : i \in 1..Len(s)
    BY <1>2 DEF OwnPart
  <2>5. \A i \in 1..Len(s) : s[i] \in 1..made /\ token'[s[i]] = token[s[i]]
    BY <1>4 DEF TimingInv, Orderly, MadeOnly
  <2>6. Running(c)' = Running(c) \union {h}
    BY <1>1, <1>2, <1>4, <1>5, <1>6 DEF Running
  <2>7. Inherits(c)'
    <3>1. \A i \in 1..Len(inherited[c]) : i \in 1..Len(s)
      BY <1>2, <2>2
    <3>2. \A i \in 1..Len(inherited[c]) :
             stack'[c][i] = inherited[c][i] /\ token'[stack'[c][i]].context # c
      BY <2>1, <2>5, <3>1 DEF TimingInv, Orderly, Inherits
    <3> QED
      BY <1>2, <2>1, <2>2, <3>2 DEF Inherits
  <2>8. MadeOnly(c)'
    <3> SUFFICES ASSUME NEW i \in 1..(Len(s) + 1) PROVE stack'[c][i] \in 1..made'
      BY <2>1 DEF MadeOnly
    <3>1. CASE i = Len(s) + 1
      BY <1>1, <1>2, <2>1, <3>1
    <3>2. CASE i # Len(s) + 1
      BY <1>1, <1>2, <2>1, <2>5, <3>2
    <3> QED
      BY <3>1, <3>2
  <2>9. OwnRuns(c)'
    <3>1. \A i \in OwnPart(c) : stack'[c][i] \in Running(c)
      BY <2>1, <2>4 DEF TimingInv, Orderly, OwnRuns
    <3> QED
      BY <2>1, <2>3, <2>6, <3>1 DEF OwnRuns
  <2>10. TokensBelow(c)'
    <3> SUFFICES ASSUME NEW i \in OwnPart(c)'
                 PROVE  /\ Len(token'[stack'[c][i]].old) = i - 1
                        /\ \A j \in 1..(i - 1) : token'[stack'[c][i]].old[j] = stack'[c][j]
      BY DEF TokensBelow
    <3>1. CASE i = Len(s) + 1
      BY <1>2, <1>4, <2>1, <3>1
    <3>2. CASE i \in OwnPart(c)
      <4>1. i \in 1..Len(s) /\ stack'[c][i] = s[i] /\ token'[s[i]] = token[s[i]]
        BY <2>1, <2>4, <2>5, <3>2
      <4>2. /\ Len(token[s[i]].old) = i - 1
            /\ \A j \in 1..(i - 1) : token[s[i]].old[j] = s[j]
        BY <3>2 DEF TimingInv, Orderly, TokensBelow
      <4>3. \A j \in 1..(i - 1) : stack'[c][j] = s[j]
        BY <1>2, <2>1, <4>1
      <4> QED
        BY <4>1, <4>2, <4>3
    <3> QED
      BY <2>3, <3>1, <3>2
  <2>11. RunsThere(c)'
    <3> SUFFICES ASSUME NEW k \in Running(c)' PROVE \E i \in OwnPart(c)' : stack'[c][i] = k
      BY DEF RunsThere
    <3>1. CASE k = h
      BY <2>1, <2>3, <3>1
    <3>2. CASE k \in Running(c)
      <4>1. PICK i \in OwnPart(c) : s[i] = k
        BY <3>2 DEF TimingInv, Orderly, RunsThere
      <4> QED
        BY <2>1, <2>3, <2>4, <4>1
    <3> QED
      BY <2>6, <3>1, <3>2
  <2>12. Increasing(c)'
    <3> SUFFICES ASSUME NEW i \in OwnPart(c)', NEW j \in OwnPart(c)', i < j
                 PROVE  stack'[c][i] < stack'[c][j]
      BY DEF Increasing
    <3>1. i \in OwnPart(c)
      BY <1>2, <2>3, <2>4
    <3>2. CASE j = Len(s) + 1
      BY <1>2, <2>1, <2>4, <2>5, <3>1, <3>2
    <3>3. CASE j \in OwnPart(c)
      BY <2>1, <2>4, <3>1, <3>3 DEF TimingInv, Orderly, Increasing
    <3> QED
      BY <2>3, <3>2, <3>3
  <2> QED
    BY <2>7, <2>8, <2>9, <2>10, <2>11, <2>12 DEF Orderly
<1> QED
  BY <1>7, <1>8, <1>9 DEF TimingInv

(* A stop takes the handle from the top, or nothing. *)
LEMMA StoppingKeeps ==
    ASSUME TimingInv, NEW c \in born, NEW h \in Handles, Stopping(c, h), TypeOk',
           UNCHANGED <<born, made, token, inherited>>
    PROVE  TimingInv'
<1>1. CASE ~StopWorks(c, h)
  <2>1. UNCHANGED <<stack, stopped>>
    BY <1>1 DEF Stopping
  <2> QED
    BY <2>1 DEF TimingInv, Orderly, Inherits, MadeOnly, OwnRuns, TokensBelow,
                RunsThere, Increasing, OwnPart, Running
<1>2. CASE StopWorks(c, h)
  <2> DEFINE s == stack[c]
             n == Len(s)
  <2>1. /\ stack' = [stack EXCEPT ![c] = token[h].old] /\ stopped' = stopped \union {h}
        /\ h \notin stopped /\ s # << >> /\ h = s[n] /\ token[h].context = c
    BY <1>2 DEF Stopping, StopWorks, Innermost, OwnToken, Last
  <2>2. /\ c \in Contexts /\ made \in Nat /\ s \in Seq(Handles) /\ n \in Nat \ {0}
        /\ Len(inherited[c]) \in Nat
        /\ OwnPart(c) = Len(inherited[c]) + 1 .. n
    BY <2>1, StackFacts DEF TimingInv
  <2>3. Len(inherited[c]) < n
    <3>1. Len(inherited[c]) <= n /\ n \notin 1..Len(inherited[c])
      BY <2>1, <2>2 DEF TimingInv, Orderly, Inherits
    <3> QED
      BY <2>2, <3>1
  <2>4. n \in OwnPart(c)
    BY <2>2, <2>3
  <2>5. /\ stack'[c] = token[h].old /\ Len(stack'[c]) = n - 1
        /\ \A j \in 1..(n - 1) : stack'[c][j] = s[j]
    <3>1. stack'[c] = token[h].old
      BY <2>1, <2>2 DEF TimingInv, TypeOk
    <3>2. Len(token[h].old) = n - 1 /\ \A j \in 1..(n - 1) : token[h].old[j] = s[j]
      BY <2>1, <2>4 DEF TimingInv, Orderly, TokensBelow
    <3> QED
      BY <3>1, <3>2
  <2>6. ASSUME NEW e \in born, e # c PROVE Orderly(e)'
    <3>1. stack'[e] = stack[e]
      BY <2>1, <2>6 DEF TimingInv, TypeOk
    <3>2. Running(e)' = Running(e)
      BY <2>1, <2>6 DEF Running
    <3> QED
      BY <2>2, <3>1, <3>2, OthersKeep DEF TimingInv
  <2>7. Orderly(c)'
    <3>1. inherited'[c] = inherited[c] /\ made' = made /\ token' = token
      OBVIOUS
    <3>2. OwnPart(c)' = Len(inherited[c]) + 1 .. n - 1
      BY <2>5 DEF OwnPart
    <3>3. \A i \in OwnPart(c)' : i \in OwnPart(c) /\ i < n /\ i \in 1..(n - 1)
      BY <2>2, <3>2
    <3>4. \A i \in OwnPart(c)' : stack'[c][i] = s[i] /\ s[i] # h
      <4> SUFFICES ASSUME NEW i \in OwnPart(c)' PROVE stack'[c][i] = s[i] /\ s[i] # h
        OBVIOUS
      <4>1. s[i] < s[n]
        BY <2>4, <3>3 DEF TimingInv, Orderly, Increasing
      <4>2. s[i] \in 1..made
        BY <2>2, <3>3 DEF TimingInv, Orderly, MadeOnly
      <4> QED
        BY <2>1, <2>5, <3>3, <4>1, <4>2
    <3>5. Running(c)' = Running(c) \ {h}
      BY <2>1 DEF Running
    <3>6. Inherits(c)'
      <4>1. \A i \in 1..Len(inherited[c]) : i \in 1..(n - 1)
        BY <2>2, <2>3
      <4>2. \A i \in 1..Len(inherited[c]) :
               stack'[c][i] = inherited[c][i] /\ token[stack'[c][i]].context # c
        BY <2>5, <4>1 DEF TimingInv, Orderly, Inherits
      <4> QED
        BY <2>2, <2>3, <2>5, <4>2 DEF Inherits
    <3>7. MadeOnly(c)'
      <4>1. \A i \in 1..(n - 1) : s[i] \in 1..made
        BY <2>2 DEF TimingInv, Orderly, MadeOnly
      <4> QED
        BY <2>5, <4>1 DEF MadeOnly
    <3>8. OwnRuns(c)'
      BY <3>3, <3>4, <3>5 DEF TimingInv, Orderly, OwnRuns
    <3>9. TokensBelow(c)'
      <4> SUFFICES ASSUME NEW i \in OwnPart(c)'
                   PROVE  /\ Len(token[s[i]].old) = i - 1
                          /\ \A j \in 1..(i - 1) : token[s[i]].old[j] = stack'[c][j]
        BY <3>4 DEF TokensBelow
      <4>1. \A j \in 1..(i - 1) : stack'[c][j] = s[j]
        BY <2>2, <2>5, <3>3
      <4> QED
        BY <3>3, <4>1 DEF TimingInv, Orderly, TokensBelow
    <3>10. RunsThere(c)'
      <4> SUFFICES ASSUME NEW k \in Running(c), k # h
                   PROVE  \E i \in OwnPart(c)' : stack'[c][i] = k
        BY <3>5 DEF RunsThere
      <4>1. PICK i \in OwnPart(c) : s[i] = k
        BY DEF TimingInv, Orderly, RunsThere
      <4>2. i # n
        BY <2>1, <4>1
      <4>3. i \in OwnPart(c)'
        BY <2>2, <3>2, <4>2
      <4> QED
        BY <3>4, <4>1, <4>3
    <3>11. Increasing(c)'
      BY <3>3, <3>4 DEF TimingInv, Orderly, Increasing
    <3> QED
      BY <3>6, <3>7, <3>8, <3>9, <3>10, <3>11 DEF Orderly
  <2> QED
    BY <2>6, <2>7 DEF TimingInv
<1> QED
  BY <1>1, <1>2

(****************************************************************************)
(* The steps.                                                               *)
(****************************************************************************)
LEMMA StartTimerKeeps == ASSUME TimingInv, NEW c \in born, StartTimer(c) PROVE TimingInv'
<1>1. Start(c) /\ UNCHANGED <<born, stopped, scoped, blocks, inherited, orderly>>
  BY DEF StartTimer
<1>2. TypeOk'
  <2>1. /\ made' \in 0..MaxHandles /\ stopped' \subseteq 1..made'
        /\ token' \in [Handles -> [context : Contexts, old : Seq(Handles)]]
        /\ stack' \in [Contexts -> Seq(Handles)]
    BY <1>1, StartTypes DEF TimingInv
  <2> QED
    BY <1>1, <2>1 DEF TimingInv, TypeOk
<1> QED
  BY <1>1, <1>2, StartKeeps

LEMMA StopKeeps ==
    ASSUME TimingInv, NEW c \in born, NEW h \in Handles, Stop(c, h) PROVE TimingInv'
<1>1. Stopping(c, h) /\ UNCHANGED <<born, made, token, scoped, blocks, inherited, orderly>>
  BY DEF Stop
<1>2. MadeOnly(c)
  BY DEF TimingInv, Orderly
<1>3. TypeOk'
  BY <1>1, <1>2, StoppingTypes DEF TimingInv, TypeOk
<1> QED
  BY <1>1, <1>3, StoppingKeeps

LEMMA EnterKeeps ==
    ASSUME TimingInv, NEW c \in born, NEW s \in Scopes, Enter(c, s) PROVE TimingInv'
<1>1. /\ Start(c) /\ UNCHANGED <<born, stopped, inherited, orderly>>
      /\ scoped' = [scoped EXCEPT ![s][c] = Append(@, made')]
      /\ blocks' = [blocks EXCEPT ![c] = Append(@, [scope |-> s, handle |-> made'])]
  BY DEF Enter
<1>2. /\ made' \in Handles /\ made' \in 0..MaxHandles /\ stopped' \subseteq 1..made'
      /\ token' \in [Handles -> [context : Contexts, old : Seq(Handles)]]
      /\ stack' \in [Contexts -> Seq(Handles)]
  BY <1>1, StartTypes DEF TimingInv
<1>3. c \in Contexts
  BY DEF TimingInv, TypeOk
<1>4. scoped' \in [Scopes -> [Contexts -> Seq(Handles)]]
  <2>1. scoped[s] \in [Contexts -> Seq(Handles)]
    BY DEF TimingInv, TypeOk
  <2>2. Append(scoped[s][c], made') \in Seq(Handles)
    BY <1>2, <1>3, <2>1
  <2>3. [scoped[s] EXCEPT ![c] = Append(@, made')] \in [Contexts -> Seq(Handles)]
    BY <2>1, <2>2
  <2> QED
    BY <1>1, <2>3 DEF TimingInv, TypeOk
<1>5. blocks' \in [Contexts -> Seq([scope : Scopes, handle : Handles])]
  <2>1. blocks[c] \in Seq([scope : Scopes, handle : Handles])
    BY <1>3 DEF TimingInv, TypeOk
  <2>2. Append(blocks[c], [scope |-> s, handle |-> made'])
          \in Seq([scope : Scopes, handle : Handles])
    BY <1>2, <2>1
  <2> QED
    BY <1>1, <2>2 DEF TimingInv, TypeOk
<1>6. TypeOk'
  BY <1>1, <1>2, <1>4, <1>5 DEF TimingInv, TypeOk
<1> QED
  BY <1>1, <1>6, StartKeeps

LEMMA ExitKeeps == ASSUME TimingInv, NEW c \in born, Exit(c) PROVE TimingInv'
<1> DEFINE block == Last(blocks[c])
           hs == Timers(c, block.scope)
<1>1. /\ blocks[c] # << >>
      /\ blocks' = [blocks EXCEPT ![c] = Front(blocks[c])]
      /\ orderly' = (orderly /\ (Innermost(c, block.handle) \/ block.handle \in stopped))
      /\ UNCHANGED <<born, made, token, inherited>>
      /\ IF hs = << >>
         THEN UNCHANGED <<stack, stopped, scoped>>
         ELSE /\ Stopping(c, Latest(hs))
              /\ scoped' = IF StopReturns(c, Latest(hs))
                           THEN [scoped EXCEPT ![block.scope][c] = Front(hs)] ELSE scoped
  BY DEF Exit
<1>2. c \in Contexts /\ MadeOnly(c)
  BY DEF TimingInv, TypeOk, Orderly
<1>3. blocks[c] \in Seq([scope : Scopes, handle : Handles])
  BY <1>2 DEF TimingInv, TypeOk
<1>4. block.scope \in Scopes
  <2>1. block \in [scope : Scopes, handle : Handles]
    BY <1>1, <1>3, LastAndFront
  <2> QED
    BY <2>1
<1>5. scoped[block.scope] \in [Contexts -> Seq(Handles)] /\ hs \in Seq(Handles)
  BY <1>2, <1>4 DEF TimingInv, TypeOk, Timers
<1>6. blocks' \in [Contexts -> Seq([scope : Scopes, handle : Handles])]
  <2>1. Front(blocks[c]) \in Seq([scope : Scopes, handle : Handles])
    BY <1>1, <1>3, LastAndFront
  <2> QED
    BY <1>1, <2>1 DEF TimingInv, TypeOk
<1>7. orderly' \in BOOLEAN
  BY <1>1 DEF TimingInv, TypeOk
<1>8. CASE hs = << >>
  <2>1. UNCHANGED <<stack, stopped, scoped>>
    BY <1>1, <1>8
  <2>2. TypeOk'
    BY <1>1, <1>6, <1>7, <2>1 DEF TimingInv, TypeOk
  <2> QED
    BY <1>1, <2>1, <2>2
    DEF TimingInv, Orderly, Inherits, MadeOnly, OwnRuns, TokensBelow,
        RunsThere, Increasing, OwnPart, Running
<1>9. CASE hs # << >>
  <2>1. Stopping(c, Latest(hs)) /\ Latest(hs) \in Handles
    <3>1. Stopping(c, Latest(hs))
      BY <1>1, <1>9
    <3>2. Last(hs) \in Handles
      BY <1>5, <1>9, LastAndFront
    <3> QED
      BY <3>1, <3>2 DEF Latest
  <2>2. stack' \in [Contexts -> Seq(Handles)] /\ stopped' \subseteq 1..made
    BY <1>2, <2>1, StoppingTypes DEF TimingInv
  <2>3. scoped' \in [Scopes -> [Contexts -> Seq(Handles)]]
    <3>1. Front(hs) \in Seq(Handles)
      BY <1>5, <1>9 DEF Front
    <3>2. [scoped[block.scope] EXCEPT ![c] = Front(hs)] \in [Contexts -> Seq(Handles)]
      BY <1>5, <3>1
    <3>3. scoped \in [Scopes -> [Contexts -> Seq(Handles)]]
      BY DEF TimingInv, TypeOk
    <3>4. CASE StopReturns(c, Latest(hs))
      BY <1>1, <1>4, <1>9, <3>2, <3>3, <3>4
    <3>5. CASE ~StopReturns(c, Latest(hs))
      BY <1>1, <1>9, <3>3, <3>5
    <3> QED
      BY <3>4, <3>5
  <2>4. TypeOk'
    BY <1>1, <1>6, <1>7, <2>2, <2>3 DEF TimingInv, TypeOk
  <2> QED
    BY <1>1, <2>1, <2>4, StoppingKeeps
<1> QED
  BY <1>8, <1>9

LEMMA TimingInvariance == Spec => []TimingInv
<1>1. Init => TimingInv
  <2> SUFFICES ASSUME Init PROVE TimingInv
    OBVIOUS
  <2>1. stack[First] = << >> /\ inherited[First] = << >> /\ made = 0 /\ born = {First}
    BY TimingAssumption DEF Init, Empty
  <2>2. OwnPart(First) = {} /\ Running(First) = {}
    BY <2>1 DEF OwnPart, Running
  <2>3. Orderly(First)
    BY <2>1, <2>2 DEF Orderly, Inherits, MadeOnly, OwnRuns, TokensBelow, RunsThere, Increasing
  <2> QED
    BY <2>1, <2>3, InitTypes DEF TimingInv
<1>2. ASSUME TimingInv, [Next]_vars PROVE TimingInv'
  <2>1. ASSUME NEW c \in born, NEW d \in Contexts, NEW copied \in BOOLEAN, NewContext(c, d, copied)
        PROVE  TimingInv'
    BY <1>2, <2>1, NewContextKeeps
  <2>2. ASSUME NEW c \in born, StartTimer(c) PROVE TimingInv'
    BY <1>2, <2>2, StartTimerKeeps
  <2>3. ASSUME NEW c \in born, NEW h \in Handles, Stop(c, h) PROVE TimingInv'
    BY <1>2, <2>3, StopKeeps
  <2>4. ASSUME NEW c \in born, NEW s \in Scopes, Enter(c, s) PROVE TimingInv'
    BY <1>2, <2>4, EnterKeeps
  <2>5. ASSUME NEW c \in born, Exit(c) PROVE TimingInv'
    BY <1>2, <2>5, ExitKeeps
  <2>6. CASE UNCHANGED vars
    <3>1. TypeOk'
      BY <1>2, <2>6 DEF vars, TimingInv, TypeOk
    <3>2. UNCHANGED <<born, made, token, stack, stopped, inherited>>
      BY <2>6 DEF vars
    <3>3. ASSUME NEW c \in born PROVE Orderly(c)'
      <4>1. made' \in Nat /\ made <= made' /\ Running(c)' = Running(c)
        BY <1>2, <3>2, StackFacts DEF TimingInv, Running
      <4> QED
        BY <1>2, <3>2, <4>1, OthersKeep DEF TimingInv
    <3> QED
      BY <1>2, <3>1, <3>2, <3>3 DEF TimingInv
  <2> QED
    BY <1>2, <2>1, <2>2, <2>3, <2>4, <2>5, <2>6 DEF Next
<1> QED
  BY <1>1, <1>2, PTL DEF Spec

(****************************************************************************)
(* The blocks.  ScopesFit ties the handles of a scope to the open blocks;   *)
(* nothing else keeps the handle that __exit__ finds and the block it       *)
(* leaves together.                                                         *)
(****************************************************************************)
BlocksIncrease(c) ==
    /\ \A i \in DOMAIN blocks[c] :
          /\ blocks[c][i].handle \in 1..made
          /\ token[blocks[c][i].handle].context = c
    /\ \A i, j \in DOMAIN blocks[c] : i < j => blocks[c][i].handle < blocks[c][j].handle

ScopesIncrease(c) == \A s \in Scopes :
    /\ \A i \in DOMAIN scoped[s][c] : scoped[s][c][i] \in 1..made
    /\ \A i, j \in DOMAIN scoped[s][c] : i < j => scoped[s][c][i] < scoped[s][c][j]

InheritedFirst(c) == \A s \in Scopes : \A i \in DOMAIN scoped[s][c] :
    token[scoped[s][c][i]].context # c =>
        \A j \in DOMAIN blocks[c] : scoped[s][c][i] < blocks[c][j].handle

ScopesFit(c) == \A s \in Scopes :
    /\ \A j \in DOMAIN blocks[c] : blocks[c][j].scope = s =>
          \E i \in DOMAIN scoped[s][c] : scoped[s][c][i] = blocks[c][j].handle
    /\ \A i \in DOMAIN scoped[s][c] : token[scoped[s][c][i]].context = c =>
          \E j \in DOMAIN blocks[c] :
             blocks[c][j].scope = s /\ blocks[c][j].handle = scoped[s][c][i]

BlocksOk(c) == /\ BlocksIncrease(c) /\ ScopesIncrease(c) /\ InheritedFirst(c)
               /\ orderly => ScopesFit(c)

BlockInv == /\ \A c \in born : BlocksOk(c)
            /\ \A c \in Contexts \ born : blocks[c] = << >>

LEMMA BlockFacts ==
    ASSUME TypeOk, NEW c \in born
    PROVE  /\ c \in Contexts /\ made \in Nat
           /\ blocks[c] \in Seq([scope : Scopes, handle : Handles])
           /\ Len(blocks[c]) \in Nat /\ DOMAIN blocks[c] = 1..Len(blocks[c])
           /\ \A s \in Scopes : /\ scoped[s] \in [Contexts -> Seq(Handles)]
                                /\ scoped[s][c] \in Seq(Handles)
                                /\ Len(scoped[s][c]) \in Nat
                                /\ DOMAIN scoped[s][c] = 1..Len(scoped[s][c])
<1>1. c \in Contexts /\ made \in Nat
  BY TimingAssumption DEF TypeOk
<1>2. blocks[c] \in Seq([scope : Scopes, handle : Handles])
  BY <1>1 DEF TypeOk
<1>3. Len(blocks[c]) \in Nat /\ DOMAIN blocks[c] = 1..Len(blocks[c])
  BY <1>2
<1>4. \A s \in Scopes : scoped[s] \in [Contexts -> Seq(Handles)] /\ scoped[s][c] \in Seq(Handles)
  BY <1>1 DEF TypeOk
<1>5. \A s \in Scopes : Len(scoped[s][c]) \in Nat /\ DOMAIN scoped[s][c] = 1..Len(scoped[s][c])
  BY <1>4
<1> QED
  BY <1>1, <1>2, <1>3, <1>4, <1>5

(* A context whose blocks and handles stay as they are keeps its order. *)
LEMMA BlocksKeep ==
    ASSUME TypeOk, NEW c \in born, BlocksOk(c),
           blocks'[c] = blocks[c], \A s \in Scopes : scoped'[s][c] = scoped[s][c],
           made' \in Nat, made <= made', \A h \in 1..made : token'[h] = token[h],
           orderly' => orderly
    PROVE  BlocksOk(c)'
<1>1. made \in Nat
  BY BlockFacts
<1>2. BlocksIncrease(c)'
  BY <1>1 DEF BlocksOk, BlocksIncrease
<1>3. ScopesIncrease(c)'
  BY <1>1 DEF BlocksOk, ScopesIncrease
<1>4. \A s \in Scopes : \A i \in DOMAIN scoped[s][c] : token'[scoped[s][c][i]] = token[scoped[s][c][i]]
  BY DEF BlocksOk, ScopesIncrease
<1>5. InheritedFirst(c)'
  BY <1>4 DEF BlocksOk, InheritedFirst
<1>6. orderly' => ScopesFit(c)'
  BY <1>4 DEF BlocksOk, ScopesFit
<1> QED
  BY <1>2, <1>3, <1>5, <1>6 DEF BlocksOk

LEMMA NewContextBlocks ==
    ASSUME TimingInv, BlockInv, NEW c \in born, NEW d \in Contexts, NEW copied \in BOOLEAN,
           NewContext(c, d, copied)
    PROVE  BlockInv'
<1>1. /\ d \notin born /\ born' = born \union {d}
      /\ made' = made /\ token' = token /\ blocks' = blocks /\ orderly' = orderly
      /\ scoped' = [s \in Scopes |->
                      [scoped[s] EXCEPT ![d] = IF copied THEN scoped[s][c] ELSE << >>]]
  BY DEF NewContext
<1>2. TypeOk /\ made \in Nat
  BY BlockFacts DEF TimingInv
<1>3. \A s \in Scopes : scoped[s] \in [Contexts -> Seq(Handles)]
  BY <1>2 DEF TypeOk
<1>4. ASSUME NEW e \in born PROVE BlocksOk(e)'
  <2>1. e \in Contexts /\ e # d
    BY <1>1, <1>2 DEF TypeOk
  <2>2. \A s \in Scopes : scoped'[s][e] = scoped[s][e]
    BY <1>1, <1>3, <2>1
  <2> QED
    BY <1>1, <1>2, <2>2, BlocksKeep DEF BlockInv
<1>5. BlocksOk(d)'
  <2>1. blocks'[d] = << >> /\ DOMAIN blocks'[d] = {}
    BY <1>1 DEF BlockInv
  <2>2. \A h \in 1..made : token'[h].context # d
    BY <1>1 DEF TimingInv
  <2>3. \A s \in Scopes : scoped'[s][d] = IF copied THEN scoped[s][c] ELSE << >>
    BY <1>1, <1>3
  <2>4. ScopesIncrease(d)'
    <3>1. CASE copied
      BY <1>1, <2>3, <3>1 DEF BlockInv, BlocksOk, ScopesIncrease
    <3>2. CASE ~copied
      <4>1. \A s \in Scopes : DOMAIN scoped'[s][d] = {}
        BY <2>3, <3>2
      <4> QED
        BY <4>1 DEF ScopesIncrease
    <3> QED
      BY <3>1, <3>2
  <2>5. BlocksIncrease(d)' /\ InheritedFirst(d)'
    BY <2>1 DEF BlocksIncrease, InheritedFirst
  <2>6. ScopesFit(d)'
    BY <1>1, <2>1, <2>2, <2>4 DEF ScopesFit, ScopesIncrease
  <2> QED
    BY <2>4, <2>5, <2>6 DEF BlocksOk
<1> QED
  BY <1>1, <1>4, <1>5 DEF BlockInv

LEMMA StartTimerBlocks ==
    ASSUME TimingInv, BlockInv, NEW c \in born, StartTimer(c) PROVE BlockInv'
<1>1. /\ made' = made + 1 /\ UNCHANGED <<born, scoped, blocks, orderly>>
      /\ token' = [token EXCEPT ![made'] = [context |-> c, old |-> Before(c)]]
  BY DEF StartTimer, Start
<1>2. TypeOk /\ made \in Nat
  BY BlockFacts DEF TimingInv
<1>3. made' \in Nat /\ made <= made' /\ \A h \in 1..made : token'[h] = token[h]
  BY <1>1, <1>2 DEF TypeOk
<1>4. \A e \in born : BlocksOk(e)'
  BY <1>1, <1>2, <1>3, BlocksKeep DEF BlockInv
<1> QED
  BY <1>1, <1>4 DEF BlockInv

LEMMA StopBlocks ==
    ASSUME TimingInv, BlockInv, UNCHANGED <<born, made, token, scoped, blocks, orderly>>
    PROVE  BlockInv'
<1>1. \A e \in born : BlocksOk(e)'
  BY DEF BlockInv, BlocksOk, BlocksIncrease, ScopesIncrease, InheritedFirst, ScopesFit
<1> QED
  BY <1>1 DEF BlockInv

(* Entering a block makes the newest handle, the scope's and the block's. *)
LEMMA EnterBlocks ==
    ASSUME TimingInv, BlockInv, NEW c \in born, NEW s \in Scopes, Enter(c, s) PROVE BlockInv'
<1> DEFINE h == made + 1
           b == blocks[c]
           hs == scoped[s][c]
<1>1. /\ made' = h /\ UNCHANGED <<born, orderly>>
      /\ token' = [token EXCEPT ![h] = [context |-> c, old |-> Before(c)]]
      /\ scoped' = [scoped EXCEPT ![s][c] = Append(@, h)]
      /\ blocks' = [blocks EXCEPT ![c] = Append(@, [scope |-> s, handle |-> h])]
      /\ Start(c) /\ UNCHANGED stopped
  BY DEF Enter, Start
<1>2. TypeOk /\ made \in Nat /\ c \in Contexts /\ h \in Handles
  BY <1>1, BlockFacts, StartTypes DEF TimingInv
<1>3. /\ h \in Nat /\ made <= h /\ \A k \in 1..made : token'[k] = token[k]
      /\ token'[h].context = c
  BY <1>1, <1>2 DEF TypeOk
<1>4. /\ blocks \in [Contexts -> Seq([scope : Scopes, handle : Handles])]
      /\ scoped \in [Scopes -> [Contexts -> Seq(Handles)]]
  BY <1>2 DEF TypeOk
<1>5. ASSUME NEW e \in born, e # c PROVE BlocksOk(e)'
  <2>1. e \in Contexts
    BY <1>2 DEF TypeOk
  <2>2. blocks'[e] = blocks[e] /\ \A r \in Scopes : scoped'[r][e] = scoped[r][e]
    BY <1>1, <1>4, <1>5, <2>1
  <2> QED
    BY <1>1, <1>2, <1>3, <2>2, BlocksKeep DEF BlockInv
<1>6. BlocksOk(c)'
  <2>1. /\ Len(b) \in Nat /\ DOMAIN b = 1..Len(b) /\ b \in Seq([scope : Scopes, handle : Handles])
        /\ hs \in Seq(Handles) /\ Len(hs) \in Nat /\ DOMAIN hs = 1..Len(hs)
    BY <1>2, BlockFacts
  <2>2. /\ blocks'[c] = Append(b, [scope |-> s, handle |-> h])
        /\ scoped'[s][c] = Append(hs, h)
        /\ \A r \in Scopes : r # s => scoped'[r][c] = scoped[r][c]
    BY <1>1, <1>2, <1>4
  <2>3. /\ DOMAIN blocks'[c] = 1..(Len(b) + 1)
        /\ \A i \in 1..Len(b) : blocks'[c][i] = b[i]
        /\ blocks'[c][Len(b) + 1] = [scope |-> s, handle |-> h]
    BY <1>2, <2>1, <2>2
  <2>4. /\ DOMAIN scoped'[s][c] = 1..(Len(hs) + 1)
        /\ \A i \in 1..Len(hs) : scoped'[s][c][i] = hs[i]
        /\ scoped'[s][c][Len(hs) + 1] = h
    BY <1>2, <2>1, <2>2
  <2>5. \A i \in DOMAIN blocks'[c] : i \in 1..Len(b) \/ i = Len(b) + 1
    BY <2>1, <2>3
  <2>6. \A i \in DOMAIN scoped'[s][c] : i \in 1..Len(hs) \/ i = Len(hs) + 1
    BY <2>1, <2>4
  <2>7. \A i \in 1..Len(b) : b[i].handle \in 1..made /\ token'[b[i].handle].context = c
    BY <1>3, <2>1 DEF BlockInv, BlocksOk, BlocksIncrease
  <2>8. \A r \in Scopes : \A i \in DOMAIN scoped[r][c] :
           scoped[r][c][i] \in 1..made /\ token'[scoped[r][c][i]] = token[scoped[r][c][i]]
    BY <1>3 DEF BlockInv, BlocksOk, ScopesIncrease
  <2>9. BlocksIncrease(c)'
    <3>1. \A i \in DOMAIN blocks'[c] :
             /\ blocks'[c][i].handle \in 1..made'
             /\ token'[blocks'[c][i].handle].context = c
      BY <1>1, <1>2, <1>3, <2>3, <2>5, <2>7
    <3>2. \A i, j \in 1..Len(b) : i < j => b[i].handle < b[j].handle
      BY <2>1 DEF BlockInv, BlocksOk, BlocksIncrease
    <3>3. \A i \in 1..Len(b) : b[i].handle < h
      BY <1>2, <2>7
    <3>4. \A i, j \in DOMAIN blocks'[c] : i < j => blocks'[c][i].handle < blocks'[c][j].handle
      <4> SUFFICES ASSUME NEW i \in DOMAIN blocks'[c], NEW j \in DOMAIN blocks'[c], i < j
                   PROVE  blocks'[c][i].handle < blocks'[c][j].handle
        OBVIOUS
      <4>1. i \in 1..Len(b) /\ blocks'[c][i] = b[i]
        BY <2>1, <2>3, <2>5
      <4>2. CASE j \in 1..Len(b)
        BY <2>3, <3>2, <4>1, <4>2
      <4>3. CASE j = Len(b) + 1
        BY <2>3, <3>3, <4>1, <4>3
      <4> QED
        BY <2>5, <4>2, <4>3
    <3> QED
      BY <3>1, <3>4 DEF BlocksIncrease
  <2>10. ASSUME NEW r \in Scopes
         PROVE  /\ \A i \in DOMAIN scoped'[r][c] : scoped'[r][c][i] \in 1..made'
                /\ \A i, j \in DOMAIN scoped'[r][c] :
                      i < j => scoped'[r][c][i] < scoped'[r][c][j]
    <3>1. CASE r # s
      BY <1>1, <1>2, <2>2, <2>8, <3>1 DEF BlockInv, BlocksOk, ScopesIncrease
    <3>2. CASE r = s
      <4>1. \A i \in DOMAIN scoped'[s][c] : scoped'[s][c][i] \in 1..made'
        BY <1>1, <1>2, <2>1, <2>4, <2>6, <2>8
      <4>2. \A i, j \in 1..Len(hs) : i < j => hs[i] < hs[j]
        BY <2>1 DEF BlockInv, BlocksOk, ScopesIncrease
      <4>3. \A i \in 1..Len(hs) : hs[i] < h
        BY <1>2, <2>1, <2>8
      <4>4. \A i, j \in DOMAIN scoped'[s][c] : i < j => scoped'[s][c][i] < scoped'[s][c][j]
        <5> SUFFICES ASSUME NEW i \in DOMAIN scoped'[s][c], NEW j \in DOMAIN scoped'[s][c],
                            i < j
                     PROVE  scoped'[s][c][i] < scoped'[s][c][j]
          OBVIOUS
        <5>1. i \in 1..Len(hs) /\ scoped'[s][c][i] = hs[i]
          BY <2>1, <2>4, <2>6
        <5>2. CASE j \in 1..Len(hs)
          BY <2>4, <4>2, <5>1, <5>2
        <5>3. CASE j = Len(hs) + 1
          BY <2>4, <4>3, <5>1, <5>3
        <5> QED
          BY <2>6, <5>2, <5>3
      <4> QED
        BY <3>2, <4>1, <4>4
    <3> QED
      BY <3>1, <3>2
  <2>11. ScopesIncrease(c)'
    BY <2>10 DEF ScopesIncrease
  <2>12. ASSUME NEW r \in Scopes, NEW i \in DOMAIN scoped'[r][c],
                token'[scoped'[r][c][i]].context # c, NEW j \in DOMAIN blocks'[c]
         PROVE  scoped'[r][c][i] < blocks'[c][j].handle
    <3>1. i \in DOMAIN scoped[r][c] /\ scoped'[r][c][i] = scoped[r][c][i]
      <4>1. CASE r # s
        BY <2>2, <4>1
      <4>2. CASE r = s
        BY <1>3, <2>1, <2>4, <2>6, <2>12, <4>2
      <4> QED
        BY <4>1, <4>2
    <3>2. scoped[r][c][i] \in 1..made /\ token[scoped[r][c][i]].context # c
      BY <2>8, <2>12, <3>1
    <3>3. CASE j = Len(b) + 1
      BY <1>2, <2>3, <3>1, <3>2, <3>3
    <3>4. CASE j \in 1..Len(b)
      BY <2>1, <2>3, <3>1, <3>2, <3>4 DEF BlockInv, BlocksOk, InheritedFirst
    <3> QED
      BY <2>5, <3>3, <3>4
  <2>13. InheritedFirst(c)'
    BY <2>12 DEF InheritedFirst
  <2>14. ASSUME orderly' PROVE ScopesFit(c)'
    <3>1. ScopesFit(c)
      BY <1>1, <2>14 DEF BlockInv, BlocksOk
    <3>2. ASSUME NEW j \in DOMAIN blocks'[c]
          PROVE  \E i \in DOMAIN scoped'[blocks'[c][j].scope][c] :
                    scoped'[blocks'[c][j].scope][c][i] = blocks'[c][j].handle
      <4>1. CASE j = Len(b) + 1
        <5>1. Len(hs) + 1 \in DOMAIN scoped'[s][c]
          BY <2>1, <2>4
        <5>2. blocks'[c][j].scope = s /\ blocks'[c][j].handle = h
          BY <2>3, <4>1
        <5> QED
          BY <2>4, <5>1, <5>2
      <4>2. CASE j \in 1..Len(b)
        <5>1. blocks'[c][j] = b[j] /\ b[j].scope \in Scopes
          <6>1. b[j] \in [scope : Scopes, handle : Handles]
            BY <2>1, <4>2, SeqFacts
          <6> QED
            BY <2>3, <4>2, <6>1
        <5>2. PICK i \in DOMAIN scoped[b[j].scope][c] : scoped[b[j].scope][c][i] = b[j].handle
          <6>1. \A r \in Scopes : \A k \in DOMAIN b : b[k].scope = r =>
                   \E i \in DOMAIN scoped[r][c] : scoped[r][c][i] = b[k].handle
            BY <3>1 DEF ScopesFit
          <6> QED
            BY <2>1, <4>2, <5>1, <6>1
        <5>3. /\ i \in DOMAIN scoped'[b[j].scope][c]
              /\ scoped'[b[j].scope][c][i] = scoped[b[j].scope][c][i]
          <6>1. CASE b[j].scope # s
            BY <2>2, <5>1, <5>2, <6>1
          <6>2. CASE b[j].scope = s
            <7>1. i \in 1..Len(hs) /\ i \in 1..(Len(hs) + 1)
              BY <2>1, <5>2, <6>2
            <7>2. i \in DOMAIN scoped'[s][c] /\ scoped'[s][c][i] = hs[i]
              BY <2>4, <7>1
            <7> QED
              BY <6>2, <7>2
          <6> QED
            BY <6>1, <6>2
        <5> QED
          BY <5>1, <5>2, <5>3
      <4> QED
        BY <2>5, <3>2, <4>1, <4>2
    <3>3. ASSUME NEW r \in Scopes, NEW i \in DOMAIN scoped'[r][c],
                 token'[scoped'[r][c][i]].context = c
          PROVE  \E j \in DOMAIN blocks'[c] :
                    blocks'[c][j].scope = r /\ blocks'[c][j].handle = scoped'[r][c][i]
      <4>1. CASE r = s /\ i = Len(hs) + 1
        <5>1. Len(b) + 1 \in DOMAIN blocks'[c]
          BY <2>1, <2>3
        <5> QED
          BY <2>3, <2>4, <4>1, <5>1
      <4>2. CASE ~(r = s /\ i = Len(hs) + 1)
        <5>1. i \in DOMAIN scoped[r][c] /\ scoped'[r][c][i] = scoped[r][c][i]
          <6>1. CASE r # s
            BY <2>2, <6>1
          <6>2. CASE r = s
            BY <2>1, <2>4, <2>6, <3>3, <4>2, <6>2
          <6> QED
            BY <6>1, <6>2
        <5>2. token[scoped[r][c][i]].context = c
          BY <2>8, <3>3, <5>1
        <5>3. PICK j \in DOMAIN b : b[j].scope = r /\ b[j].handle = scoped[r][c][i]
          BY <3>1, <5>1, <5>2 DEF ScopesFit
        <5>4. j \in DOMAIN blocks'[c] /\ blocks'[c][j] = b[j]
          BY <2>1, <2>3, <5>3
        <5> QED
          BY <5>1, <5>3, <5>4
      <4> QED
        BY <4>1, <4>2
    <3> QED
      BY <3>2, <3>3 DEF ScopesFit
  <2> QED
    BY <2>9, <2>11, <2>13, <2>14 DEF BlocksOk
<1>7. \A e \in Contexts \ born : blocks'[e] = << >>
  BY <1>1, <1>2, <1>4 DEF BlockInv
<1> QED
  BY <1>1, <1>5, <1>6, <1>7 DEF BlockInv

(* In an orderly program the latest handle of the innermost block's scope   *)
(* is the one that block yielded.                                           *)
LEMMA LatestIsOwn ==
    ASSUME TimingInv, BlockInv, orderly, NEW c \in born, blocks[c] # << >>
    PROVE  /\ Last(blocks[c]) = blocks[c][Len(blocks[c])]
           /\ Len(blocks[c]) \in DOMAIN blocks[c]
           /\ Last(blocks[c]).scope \in Scopes
           /\ Timers(c, Last(blocks[c]).scope) # << >>
           /\ Latest(Timers(c, Last(blocks[c]).scope)) = Last(blocks[c]).handle
<1> DEFINE b == blocks[c]
           n == Len(b)
           s == b[n].scope
           h == b[n].handle
           hs == scoped[s][c]
<1>1. /\ b \in Seq([scope : Scopes, handle : Handles])
      /\ n \in Nat \ {0} /\ DOMAIN b = 1..n /\ n \in DOMAIN b
  BY BlockFacts, SeqFacts DEF TimingInv
<1>2. Last(b) = b[n] /\ s \in Scopes /\ h \in Handles
  <2>1. b[n] \in [scope : Scopes, handle : Handles]
    BY <1>1, SeqFacts
  <2> QED
    BY <2>1 DEF Last
<1>3. hs \in Seq(Handles) /\ Len(hs) \in Nat /\ DOMAIN hs = 1..Len(hs)
  BY <1>2, BlockFacts DEF TimingInv
<1>4. ScopesFit(c) /\ ScopesIncrease(c) /\ InheritedFirst(c) /\ BlocksIncrease(c)
  BY DEF BlockInv, BlocksOk
<1>5. PICK i \in DOMAIN hs : hs[i] = h
  BY <1>1, <1>2, <1>4 DEF ScopesFit
<1>6. hs # << >> /\ Len(hs) \in DOMAIN hs /\ i <= Len(hs)
  BY <1>3, <1>5
<1>7. hs[Len(hs)] \in Nat /\ h \in Nat
  <2>1. hs[Len(hs)] \in Handles
    BY <1>3, <1>6, SeqFacts
  <2> QED
    BY <1>2, <2>1 DEF Handles
<1>8. hs[Len(hs)] <= h
  <2>1. CASE token[hs[Len(hs)]].context # c
    <3>1. hs[Len(hs)] < b[n].handle
      BY <1>1, <1>2, <1>4, <1>6, <2>1 DEF InheritedFirst
    <3> QED
      BY <1>7, <3>1
  <2>2. CASE token[hs[Len(hs)]].context = c
    <3>1. PICK j \in DOMAIN b : b[j].handle = hs[Len(hs)]
      BY <1>2, <1>4, <1>6, <2>2 DEF ScopesFit
    <3>2. j = n \/ j < n
      BY <1>1
    <3> QED
      BY <1>1, <1>4, <1>7, <3>1, <3>2 DEF BlocksIncrease
  <2> QED
    BY <2>1, <2>2
<1>9. hs[Len(hs)] = h
  <2>1. i = Len(hs) \/ i < Len(hs)
    BY <1>3, <1>5, <1>6
  <2>2. i < Len(hs) => hs[i] < hs[Len(hs)]
    BY <1>2, <1>4, <1>5, <1>6 DEF ScopesIncrease
  <2> QED
    BY <1>5, <1>7, <1>8, <2>1, <2>2
<1> QED
  BY <1>1, <1>2, <1>6, <1>9 DEF Latest, Last, Timers

LEMMA ExitBlocks ==
    ASSUME TimingInv, BlockInv, NEW c \in born, Exit(c) PROVE BlockInv'
<1> DEFINE b == blocks[c]
           n == Len(b)
           s == Last(b).scope
           h == Last(b).handle
           hs == scoped[s][c]
<1>1. /\ b # << >> /\ blocks' = [blocks EXCEPT ![c] = Front(b)]
      /\ orderly' = (orderly /\ (Innermost(c, h) \/ h \in stopped))
      /\ UNCHANGED <<born, made, token, inherited>>
      /\ scoped' = IF hs # << >> /\ StopReturns(c, Latest(hs))
                   THEN [scoped EXCEPT ![s][c] = Front(hs)] ELSE scoped
  BY DEF Exit, Timers
<1>2. /\ TypeOk /\ made \in Nat /\ c \in Contexts
      /\ b \in Seq([scope : Scopes, handle : Handles])
      /\ n \in Nat \ {0} /\ DOMAIN b = 1..n
  BY <1>1, BlockFacts, SeqFacts DEF TimingInv
<1>3. b[n] \in [scope : Scopes, handle : Handles] /\ Last(b) = b[n]
  BY <1>1, <1>2, SeqFacts DEF Last
<1>4. s \in Scopes /\ s = b[n].scope /\ h = b[n].handle
  BY <1>3
<1>5. /\ hs \in Seq(Handles) /\ Len(hs) \in Nat /\ DOMAIN hs = 1..Len(hs)
      /\ blocks \in [Contexts -> Seq([scope : Scopes, handle : Handles])]
      /\ scoped \in [Scopes -> [Contexts -> Seq(Handles)]]
  BY <1>2, <1>4, BlockFacts DEF TypeOk
<1>6. /\ DOMAIN blocks'[c] = 1..(n - 1)
      /\ \A i \in 1..(n - 1) : blocks'[c][i] = b[i]
  <2>1. blocks'[c] = SubSeq(b, 1, n - 1)
    BY <1>1, <1>2, <1>5 DEF Front
  <2> QED
    BY <1>2, <2>1
<1>7. ASSUME NEW r \in Scopes
      PROVE  /\ \A i \in DOMAIN scoped'[r][c] :
                   i \in DOMAIN scoped[r][c] /\ scoped'[r][c][i] = scoped[r][c][i]
             /\ \A e \in born : e # c => scoped'[r][e] = scoped[r][e]
             /\ r # s => scoped'[r][c] = scoped[r][c]
  <2>1. CASE hs # << >> /\ StopReturns(c, Latest(hs))
    <3>1. scoped' = [scoped EXCEPT ![s][c] = Front(hs)]
      BY <1>1, <2>1
    <3>2. /\ scoped'[s][c] = Front(hs) /\ (r # s => scoped'[r] = scoped[r])
          /\ \A e \in born : e # c => scoped'[r][e] = scoped[r][e]
      <4>1. /\ s \in Scopes /\ c \in Contexts /\ born \subseteq Contexts
            /\ scoped \in [Scopes -> [Contexts -> Seq(Handles)]]
        BY <1>2, <1>4, <1>5 DEF TypeOk
      <4>2. scoped'[s] = [scoped[s] EXCEPT ![c] = Front(hs)] /\ (r # s => scoped'[r] = scoped[r])
        BY <3>1, <4>1
      <4>3. scoped[s] \in [Contexts -> Seq(Handles)]
        BY <4>1
      <4>4. scoped'[s][c] = Front(hs) /\ \A e \in born : e # c => scoped'[s][e] = scoped[s][e]
        BY <4>1, <4>2, <4>3
      <4> QED
        BY <4>2, <4>4
    <3>3. /\ DOMAIN Front(hs) = 1..(Len(hs) - 1)
          /\ \A i \in 1..(Len(hs) - 1) : Front(hs)[i] = hs[i]
      BY <1>5, <2>1 DEF Front
    <3>4. \A i \in 1..(Len(hs) - 1) : i \in DOMAIN hs
      BY <1>5
    <3>5. CASE r = s
      BY <3>2, <3>3, <3>4, <3>5
    <3>6. CASE r # s
      BY <3>2, <3>6
    <3> QED
      BY <3>5, <3>6
  <2>2. CASE ~(hs # << >> /\ StopReturns(c, Latest(hs)))
    BY <1>1, <2>2
  <2> QED
    BY <2>1, <2>2
<1>8. ASSUME NEW e \in born, e # c PROVE BlocksOk(e)'
  <2>1. blocks'[e] = blocks[e] /\ \A r \in Scopes : scoped'[r][e] = scoped[r][e]
    BY <1>1, <1>2, <1>5, <1>7, <1>8 DEF TypeOk
  <2>2. BlocksOk(e) /\ (orderly' => orderly)
    BY <1>1 DEF BlockInv
  <2>3. made' \in Nat /\ made <= made' /\ \A k \in 1..made : token'[k] = token[k]
    BY <1>1, <1>2
  <2> QED
    BY <1>2, <2>1, <2>2, <2>3, BlocksKeep
<1>9. BlocksOk(c)'
  <2>1. \A i \in 1..(n - 1) : i \in DOMAIN b
    BY <1>2
  <2>2. BlocksIncrease(c)'
    BY <1>1, <1>6, <2>1 DEF BlockInv, BlocksOk, BlocksIncrease
  <2>3. ScopesIncrease(c)'
    <3>1. \A r \in Scopes :
             /\ \A i \in DOMAIN scoped[r][c] : scoped[r][c][i] \in 1..made
             /\ \A i, j \in DOMAIN scoped[r][c] : i < j => scoped[r][c][i] < scoped[r][c][j]
      BY DEF BlockInv, BlocksOk, ScopesIncrease
    <3> SUFFICES ASSUME NEW r \in Scopes
                 PROVE  /\ \A i \in DOMAIN scoped'[r][c] : scoped'[r][c][i] \in 1..made
                        /\ \A i, j \in DOMAIN scoped'[r][c] :
                              i < j => scoped'[r][c][i] < scoped'[r][c][j]
      BY <1>1 DEF ScopesIncrease
    <3>2. \A i \in DOMAIN scoped'[r][c] :
             i \in DOMAIN scoped[r][c] /\ scoped'[r][c][i] = scoped[r][c][i]
      BY <1>7
    <3> QED
      BY <3>1, <3>2
  <2>4. InheritedFirst(c)'
    <3> SUFFICES ASSUME NEW r \in Scopes, NEW i \in DOMAIN scoped'[r][c],
                        token'[scoped'[r][c][i]].context # c, NEW j \in DOMAIN blocks'[c]
                 PROVE  scoped'[r][c][i] < blocks'[c][j].handle
      BY DEF InheritedFirst
    <3>1. i \in DOMAIN scoped[r][c] /\ scoped'[r][c][i] = scoped[r][c][i]
      BY <1>7
    <3>2. j \in DOMAIN b /\ blocks'[c][j] = b[j]
      BY <1>6, <2>1
    <3>3. token[scoped[r][c][i]].context # c
      BY <1>1, <3>1
    <3> QED
      BY <3>1, <3>2, <3>3 DEF BlockInv, BlocksOk, InheritedFirst
  <2>5. ASSUME orderly' PROVE ScopesFit(c)'
    <3>1. orderly /\ (Innermost(c, h) \/ h \in stopped)
      BY <1>1, <2>5
    <3>2. hs # << >> /\ Latest(hs) = h
      BY <1>1, <3>1, LatestIsOwn DEF Timers
    <3>3. /\ ScopesFit(c) /\ BlocksIncrease(c) /\ ScopesIncrease(c)
      BY <3>1 DEF BlockInv, BlocksOk
    <3>4. StopReturns(c, h)
      <4>1. OwnToken(c, h)
        BY <1>2, <1>4, <3>3 DEF BlocksIncrease, OwnToken
      <4> QED
        BY <3>1, <4>1 DEF StopReturns, StopWorks
    <3>5. scoped'[s][c] = Front(hs)
      BY <1>1, <1>2, <1>4, <1>5, <3>2, <3>4
    <3>6. /\ Len(hs) \in Nat \ {0} /\ Len(hs) \in DOMAIN hs /\ hs[Len(hs)] = h
          /\ DOMAIN scoped'[s][c] = 1..(Len(hs) - 1)
      <4>1. Len(hs) \in Nat \ {0} /\ Len(hs) \in DOMAIN hs
        BY <1>5, <3>2
      <4>2. hs[Len(hs)] = h
        BY <3>2 DEF Latest, Last
      <4>3. DOMAIN SubSeq(hs, 1, Len(hs) - 1) = 1..(Len(hs) - 1)
        BY <1>5, <4>1
      <4> QED
        BY <3>5, <4>1, <4>2, <4>3 DEF Front
    <3>7. ASSUME NEW r \in Scopes, NEW j \in DOMAIN blocks'[c], blocks'[c][j].scope = r
          PROVE  \E i \in DOMAIN scoped'[r][c] : scoped'[r][c][i] = blocks'[c][j].handle
      <4>1. j \in DOMAIN b /\ j < n /\ blocks'[c][j] = b[j] /\ n \in DOMAIN b
        BY <1>2, <1>6, <2>1
      <4>2. PICK i \in DOMAIN scoped[r][c] : scoped[r][c][i] = b[j].handle
        BY <3>3, <3>7, <4>1 DEF ScopesFit
      <4>3. b[j].handle < h /\ b[j].handle \in 1..made /\ h \in 1..made
        BY <1>4, <3>3, <4>1 DEF BlocksIncrease
      <4>4. i \in DOMAIN scoped'[r][c]
        <5>1. CASE r # s
          BY <1>7, <5>1
        <5>2. CASE r = s
          <6>1. i # Len(hs)
            BY <1>2, <3>6, <4>2, <4>3, <5>2
          <6>2. i \in 1..(Len(hs) - 1)
            BY <1>5, <4>2, <5>2, <6>1
          <6> QED
            BY <3>6, <5>2, <6>2
        <5> QED
          BY <5>1, <5>2
      <4>5. scoped'[r][c][i] = b[j].handle
        BY <1>7, <4>2, <4>4
      <4> QED
        BY <4>1, <4>4, <4>5
    <3>8. ASSUME NEW r \in Scopes, NEW i \in DOMAIN scoped'[r][c],
                 token'[scoped'[r][c][i]].context = c
          PROVE  \E j \in DOMAIN blocks'[c] :
                    blocks'[c][j].scope = r /\ blocks'[c][j].handle = scoped'[r][c][i]
      <4>1. i \in DOMAIN scoped[r][c] /\ scoped'[r][c][i] = scoped[r][c][i]
        BY <1>7
      <4>2. PICK j \in DOMAIN b : b[j].scope = r /\ b[j].handle = scoped[r][c][i]
        <5>1. token[scoped[r][c][i]].context = c
          BY <1>1, <3>8, <4>1
        <5> QED
          BY <3>3, <4>1, <5>1 DEF ScopesFit
      <4>3. j # n
        <5> SUFFICES ASSUME j = n PROVE FALSE
          OBVIOUS
        <5>1. r = s /\ hs[i] = h
          BY <1>4, <4>2
        <5>2. i < Len(hs) /\ i \in DOMAIN hs
          BY <1>5, <3>6, <4>1, <5>1
        <5>3. hs[i] < hs[Len(hs)] /\ hs[i] \in 1..made
          BY <1>4, <3>3, <3>6, <5>2 DEF ScopesIncrease
        <5> QED
          BY <1>2, <3>6, <5>1, <5>3
      <4>4. j \in DOMAIN blocks'[c] /\ blocks'[c][j] = b[j]
        BY <1>2, <1>6, <4>2, <4>3
      <4> QED
        BY <4>1, <4>2, <4>4
    <3> QED
      BY <3>7, <3>8 DEF ScopesFit
  <2> QED
    BY <2>2, <2>3, <2>4, <2>5 DEF BlocksOk
<1>10. \A e \in Contexts \ born : blocks'[e] = << >>
  BY <1>1, <1>5 DEF BlockInv
<1> QED
  BY <1>1, <1>8, <1>9, <1>10 DEF BlockInv

LEMMA BlockInvariance == Spec => [](TimingInv /\ BlockInv)
<1>1. Init => BlockInv
  <2> SUFFICES ASSUME Init PROVE BlockInv
    OBVIOUS
  <2>1. \A c \in Contexts : blocks[c] = << >> /\ \A s \in Scopes : scoped[s][c] = << >>
    BY DEF Init, Empty
  <2>2. \A c \in Contexts : DOMAIN blocks[c] = {} /\ \A s \in Scopes : DOMAIN scoped[s][c] = {}
    BY <2>1
  <2>3. born \subseteq Contexts
    BY TimingAssumption DEF Init
  <2>4. \A c \in born : BlocksOk(c)
    BY <2>2, <2>3 DEF BlocksOk, BlocksIncrease, ScopesIncrease, InheritedFirst, ScopesFit
  <2> QED
    BY <2>1, <2>4 DEF BlockInv
<1>2. ASSUME TimingInv, BlockInv, [Next]_vars PROVE BlockInv'
  <2>1. ASSUME NEW c \in born, NEW d \in Contexts, NEW copied \in BOOLEAN, NewContext(c, d, copied)
        PROVE  BlockInv'
    BY <1>2, <2>1, NewContextBlocks
  <2>2. ASSUME NEW c \in born, StartTimer(c) PROVE BlockInv'
    BY <1>2, <2>2, StartTimerBlocks
  <2>3. ASSUME NEW c \in born, NEW h \in Handles, Stop(c, h) PROVE BlockInv'
    BY <1>2, <2>3, StopBlocks DEF Stop
  <2>4. ASSUME NEW c \in born, NEW s \in Scopes, Enter(c, s) PROVE BlockInv'
    BY <1>2, <2>4, EnterBlocks
  <2>5. ASSUME NEW c \in born, Exit(c) PROVE BlockInv'
    BY <1>2, <2>5, ExitBlocks
  <2>6. CASE UNCHANGED vars
    BY <1>2, <2>6, StopBlocks DEF vars
  <2> QED
    BY <1>2, <2>1, <2>2, <2>3, <2>4, <2>5, <2>6 DEF Next
<1> QED
  BY <1>1, <1>2, TimingInvariance, PTL DEF Spec

(****************************************************************************)
(* Theorems.                                                                *)
(****************************************************************************)
(* The timers' variables keep their types: in particular no handle is       *)
(* stopped, or stands on a stack, that was not made.                        *)
THEOREM TimingTypes == Spec => []TypeOk
<1>1. TimingInv => TypeOk
  BY DEF TimingInv
<1> QED
  BY <1>1, TimingInvariance, PTL

(* A record is attributed to the innermost operation that runs in its       *)
(* context: every stack is what its context inherited and then exactly the  *)
(* running operations started there, in order.                              *)
THEOREM StacksSafe == Spec => []StackIsRunning
<1>1. ASSUME TimingInv PROVE StackIsRunning
  <2> SUFFICES ASSUME NEW c \in born
               PROVE  /\ IsPrefix(inherited[c], stack[c])
                      /\ {stack[c][i] : i \in OwnPart(c)} = Running(c)
                      /\ \A i, j \in OwnPart(c) : i < j => stack[c][i] < stack[c][j]
    BY DEF StackIsRunning
  <2>1. /\ Orderly(c) /\ stack[c] \in Seq(Handles) /\ inherited[c] \in Seq(Handles)
        /\ Len(stack[c]) \in Nat /\ Len(inherited[c]) \in Nat
    BY <1>1, StackFacts DEF TimingInv
  <2>2. IsPrefix(inherited[c], stack[c])
    <3> DEFINE n == Len(inherited[c])
    <3>1. n <= Len(stack[c]) /\ \A i \in 1..n : stack[c][i] = inherited[c][i]
      BY <2>1 DEF Orderly, Inherits
    <3>2. SubSeq(inherited[c], 1, n) = inherited[c]
      BY <2>1
    <3>3. SubSeq(stack[c], 1, n) = inherited[c]
      BY <2>1, <3>1
    <3> QED
      BY <3>1, <3>2, <3>3 DEF IsPrefix
  <2>3. {stack[c][i] : i \in OwnPart(c)} = Running(c)
    BY <2>1 DEF Orderly, OwnRuns, RunsThere
  <2> QED
    BY <2>1, <2>2, <2>3 DEF Orderly, Increasing
<1> QED
  BY <1>1, TimingInvariance, PTL

(* No sequence of starts, copies and refused stops leaves a context whose   *)
(* timers cannot be stopped one by one, back to what it inherited           *)
(* (TimerHandle.stop, _stack.reset).                                        *)
THEOREM UnwindSafe == Spec => []CanUnwind
<1>1. ASSUME TimingInv PROVE CanUnwind
  <2> SUFFICES ASSUME NEW c \in born, NEW i \in OwnPart(c)
               PROVE  /\ stack[c][i] \notin stopped /\ OwnToken(c, stack[c][i])
                      /\ token[stack[c][i]].old = SubSeq(stack[c], 1, i - 1)
    BY DEF CanUnwind
  <2> DEFINE h == stack[c][i]
  <2>1. /\ Orderly(c) /\ stack[c] \in Seq(Handles)
        /\ i \in 1..Len(stack[c]) /\ Len(stack[c]) \in Nat
    <3>1. /\ Orderly(c) /\ stack[c] \in Seq(Handles)
          /\ Len(stack[c]) \in Nat /\ Len(inherited[c]) \in Nat
          /\ i \in Len(inherited[c]) + 1 .. Len(stack[c])
      BY <1>1, StackFacts DEF TimingInv
    <3> QED
      BY <3>1
  <2>2. h \in 1..made /\ token[h].context = c /\ h \notin stopped
    BY <2>1 DEF Orderly, OwnRuns, Running
  <2>3. token[h].old \in Seq(Handles)
    <3>1. h \in Handles
      BY <2>1
    <3> QED
      BY <1>1, <3>1 DEF TimingInv, TypeOk
  <2>4. Len(token[h].old) = i - 1 /\ \A j \in 1..(i - 1) : token[h].old[j] = stack[c][j]
    BY <2>1 DEF Orderly, TokensBelow
  <2>5. /\ SubSeq(stack[c], 1, i - 1) \in Seq(Handles) /\ Len(SubSeq(stack[c], 1, i - 1)) = i - 1
        /\ \A j \in 1..(i - 1) : SubSeq(stack[c], 1, i - 1)[j] = stack[c][j]
    BY <2>1
  <2> DEFINE old == token[h].old
             below == SubSeq(stack[c], 1, i - 1)
  <2>6. /\ old \in Seq(Handles) /\ below \in Seq(Handles) /\ Len(old) = Len(below)
        /\ \A j \in 1..Len(old) : old[j] = below[j]
    BY <2>3, <2>4, <2>5
  <2> HIDE DEF old, below
  <2>7. old = below
    BY <2>6
  <2> QED
    BY <2>2, <2>7 DEF OwnToken, old, below
<1> QED
  BY <1>1, TimingInvariance, PTL

(* A block left without an error of the timer's stops the handle that       *)
(* entering it made, in every program that stops the timers it starts       *)
(* inside a block before it leaves it.                                      *)
THEOREM ExitSafe == Spec => ExitStopsOwn
<1>1. ASSUME TimingInv, BlockInv, orderly', NEW c \in born PROVE StopsOwn(c)
  <2> SUFFICES ASSUME Exit(c), ~Raises(c) PROVE Last(blocks[c]).handle \in stopped'
    BY DEF StopsOwn
  <2> DEFINE block == Last(blocks[c])
             hs == Timers(c, block.scope)
  <2>1. blocks[c] # << >> /\ orderly
    BY <1>1 DEF Exit
  <2>2. hs # << >> /\ Latest(hs) = block.handle
    BY <1>1, <2>1, LatestIsOwn
  <2>3. Stopping(c, block.handle) /\ StopReturns(c, block.handle)
    BY <2>2 DEF Exit, Raises
  <2> QED
    BY <2>3 DEF Stopping, StopReturns
<1>2. TimingInv /\ BlockInv /\ [Next]_vars => [orderly' => \A c \in born : StopsOwn(c)]_vars
  BY <1>1
<1> QED
  BY <1>2, BlockInvariance, PTL DEF Spec, ExitStopsOwn
===============================================================================
