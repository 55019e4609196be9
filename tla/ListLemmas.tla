------------------------------- MODULE ListLemmas -------------------------------
(****************************************************************************)
(* What the operators on sequences and on sets of numbers return that the   *)
(* models are built from.                                                   *)
(*                                                                          *)
(* Induction is over a set of numbers instead of a predicate: the set has a *)
(* least counterexample.  From it follows that a function defined by        *)
(* recursion over 0..n exists, and what the recursive definitions of the    *)
(* models compute.                                                          *)
(****************************************************************************)
EXTENDS Lists, SequencesExt, SequenceTheorems, WellFoundedInduction, TLAPS

LEMMA SetInduction ==
    ASSUME NEW S, 0 \in S, \A n \in Nat : n \in S => n + 1 \in S
    PROVE  Nat \subseteq S
<1> DEFINE R == OpToRel(<, Nat)
<1> SUFFICES ASSUME Nat \ S # {} PROVE FALSE
  OBVIOUS
<1>1. IsWellFoundedOn(R, Nat)
  BY NatLessThanWellFounded
<1> HIDE DEF R
<1>2. PICK n \in Nat \ S : \A m \in Nat \ S : ~ (<<m, n>> \in R)
  BY <1>1, WFMin
<1>3. n # 0 /\ n - 1 \in Nat /\ (n - 1) + 1 = n
  OBVIOUS
<1>4. <<n - 1, n>> \in R
  BY <1>3 DEF R, OpToRel
<1> QED
  BY <1>2, <1>3, <1>4

(* The same for an interval that starts at 0. *)
LEMMA IntervalInduction ==
    ASSUME NEW n \in Nat, NEW S, 0 \in S, \A k \in 1..n : k - 1 \in S => k \in S
    PROVE  0..n \subseteq S
<1> DEFINE T == {k \in Nat : k <= n => k \in S}
<1>1. 0 \in T
  OBVIOUS
<1>2. ASSUME NEW k \in Nat, k \in T PROVE k + 1 \in T
  <2> SUFFICES ASSUME k + 1 <= n PROVE k + 1 \in S
    OBVIOUS
  <2>1. k + 1 \in 1..n /\ (k + 1) - 1 = k /\ k \in S
    BY <1>2
  <2> QED
    BY <2>1
<1> HIDE DEF T
<1>3. Nat \subseteq T
  BY <1>1, <1>2, SetInduction
<1> QED
  BY <1>3 DEF T

(****************************************************************************)
(* The greatest and the least element of a set of positions.                *)
(****************************************************************************)
LEMMA MinFacts ==
    ASSUME NEW S \in SUBSET Nat, S # {}
    PROVE  Min(S) \in S /\ \A y \in S : Min(S) <= y
<1>1. \E x \in S : \A y \in S : x <= y
  <2> SUFFICES ASSUME \A x \in S : \E y \in S : y < x PROVE FALSE
    OBVIOUS
  <2> DEFINE T == {n \in Nat : \A x \in S : n < x}
  <2>1. 0 \in T
    OBVIOUS
  <2>2. ASSUME NEW n \in Nat, n \in T PROVE n + 1 \in T
    <3> SUFFICES ASSUME NEW x \in S PROVE n + 1 < x
      OBVIOUS
    <3>1. PICK y \in S : y < x
      OBVIOUS
    <3>2. n < y
      BY <2>2
    <3> QED
      BY <3>1, <3>2
  <2> HIDE DEF T
  <2>3. Nat \subseteq T
    BY <2>1, <2>2, SetInduction
  <2>4. PICK x \in S : TRUE
    OBVIOUS
  <2> QED
    BY <2>3, <2>4 DEF T
<1> QED
  BY <1>1 DEF Min

LEMMA MaxFacts ==
    ASSUME NEW n \in Nat, NEW S \in SUBSET (0..n), S # {}
    PROVE  Max(S) \in S /\ \A y \in S : Max(S) >= y
<1>1. \E x \in S : \A y \in S : x >= y
  <2> DEFINE T == {n - x : x \in S}
  <2>1. T \subseteq Nat /\ T # {}
    <3>1. \A x \in S : n - x \in Nat
      OBVIOUS
    <3>2. PICK x \in S : TRUE
      OBVIOUS
    <3>3. n - x \in T
      BY <3>2
    <3> QED
      BY <3>1, <3>3
  <2>2. Min(T) \in T /\ \A d \in T : Min(T) <= d
    BY <2>1, MinFacts
  <2>3. PICK x \in S : Min(T) = n - x
    BY <2>2
  <2>4. ASSUME NEW y \in S PROVE x >= y
    <3>1. n - y \in T
      OBVIOUS
    <3>2. n - x <= n - y
      BY <2>2, <2>3, <3>1
    <3> QED
      BY <3>2
  <2> QED
    BY <2>4
<1> QED
  BY <1>1 DEF Max

(****************************************************************************)
(* Recursion over 0..n: from a base, by a step that is given the position   *)
(* and the value before.                                                    *)
(****************************************************************************)
Solves(f, n, base, step) ==
    \A k \in 0..n : f[k] = IF k = 0 THEN base ELSE step[<<k, f[k - 1]>>]

LEMMA Recursion ==
    ASSUME NEW n \in Nat, NEW V, NEW base \in V, NEW step \in [(1..n) \X V -> V]
    PROVE  \E f \in [0..n -> V] : Solves(f, n, base, step)
<1> DEFINE T == {m \in 0..n : \E f \in [0..m -> V] : Solves(f, m, base, step)}
<1>1. 0 \in T
  <2> DEFINE f == [k \in 0..0 |-> base]
  <2>1. f \in [0..0 -> V] /\ Solves(f, 0, base, step)
    BY DEF Solves
  <2> QED
    BY <2>1
<1>2. ASSUME NEW m \in 1..n, m - 1 \in T PROVE m \in T
  <2>1. PICK f \in [0..(m - 1) -> V] : Solves(f, m - 1, base, step)
    BY <1>2
  <2> DEFINE g == [k \in 0..m |-> IF k = m THEN step[<<m, f[m - 1]>>] ELSE f[k]]
  <2>2. step[<<m, f[m - 1]>>] \in V
    <3>1. f[m - 1] \in V
      OBVIOUS
    <3> QED
      BY <3>1
  <2>3. g \in [0..m -> V]
    BY <2>2
  <2>4. Solves(g, m, base, step)
    <3> SUFFICES ASSUME NEW k \in 0..m
                 PROVE  g[k] = IF k = 0 THEN base ELSE step[<<k, g[k - 1]>>]
      BY DEF Solves
    <3>1. CASE k = m
      <4>1. g[k] = step[<<k, f[k - 1]>>] /\ g[k - 1] = f[k - 1] /\ k # 0
        BY <3>1
      <4> HIDE DEF g
      <4> QED
        BY <4>1
    <3>2. CASE k \in 0..(m - 1)
      <4>1. f[k] = IF k = 0 THEN base ELSE step[<<k, f[k - 1]>>]
        BY <2>1, <3>2 DEF Solves
      <4>2. g[k] = f[k] /\ (k # 0 => g[k - 1] = f[k - 1])
        BY <3>2
      <4> QED
        BY <4>1, <4>2
    <3> QED
      BY <3>1, <3>2
  <2> QED
    BY <2>3, <2>4
<1> HIDE DEF T
<1>3. 0..n \subseteq T
  BY <1>1, <1>2, IntervalInduction
<1> QED
  BY <1>3 DEF T

(****************************************************************************)
(* Lists.                                                                   *)
(****************************************************************************)
Collects(upto, s, S) ==
    /\ upto[0] = << >> /\ Only(s, S) = upto[Len(s)]
    /\ \A k \in 1..Len(s) :
          upto[k] = IF s[k] \in S THEN Append(upto[k - 1], s[k]) ELSE upto[k - 1]

LEMMA OnlyDef ==
    ASSUME NEW A, NEW s \in Seq(A), NEW S
    PROVE  \E upto \in [0..Len(s) -> Seq(A)] : Collects(upto, s, S)
<1> DEFINE E(f) == [i \in 0..Len(s) |->
                      IF i = 0 THEN << >>
                      ELSE IF s[i] \in S THEN Append(f[i - 1], s[i]) ELSE f[i - 1]]
<1>1. Only(s, S) = (CHOOSE f : f = E(f))[Len(s)]
  BY DEF Only
<1> DEFINE step == [p \in (1..Len(s)) \X Seq(A) |->
                      IF s[p[1]] \in S THEN Append(p[2], s[p[1]]) ELSE p[2]]
<1>2. step \in [(1..Len(s)) \X Seq(A) -> Seq(A)]
  OBVIOUS
<1>3. PICK g \in [0..Len(s) -> Seq(A)] : Solves(g, Len(s), << >>, step)
  <2>1. Len(s) \in Nat /\ << >> \in Seq(A)
    OBVIOUS
  <2> HIDE DEF step
  <2> QED
    BY <1>2, <2>1, Recursion
<1>4. ASSUME NEW k \in 1..Len(s), NEW v \in Seq(A)
      PROVE  step[<<k, v>>] = IF s[k] \in S THEN Append(v, s[k]) ELSE v
  OBVIOUS
<1> HIDE DEF step
<1>5. g = E(g)
  <2> SUFFICES ASSUME NEW k \in 0..Len(s) PROVE g[k] = E(g)[k]
    OBVIOUS
  <2>1. g[k] = IF k = 0 THEN << >> ELSE step[<<k, g[k - 1]>>]
    BY <1>3 DEF Solves
  <2>2. CASE k = 0
    BY <2>1, <2>2
  <2>3. CASE k # 0
    <3>1. k \in 1..Len(s) /\ g[k - 1] \in Seq(A)
      BY <2>3
    <3>2. g[k] = IF s[k] \in S THEN Append(g[k - 1], s[k]) ELSE g[k - 1]
      BY <1>4, <2>1, <2>3, <3>1
    <3> QED
      BY <2>3, <3>2
  <2> QED
    BY <2>2, <2>3
<1> DEFINE h == CHOOSE f : f = E(f)
<1>6. h = E(h)
  BY <1>5
<1> HIDE DEF h
<1>7. /\ h[0] = << >>
      /\ \A k \in 1..Len(s) : h[k] = IF s[k] \in S THEN Append(h[k - 1], s[k]) ELSE h[k - 1]
  <2>1. \A k \in 0..Len(s) : h[k] = E(h)[k]
    BY <1>6
  <2> QED
    BY <2>1
<1>8. h \in [0..Len(s) -> Seq(A)]
  <2>1. DOMAIN h = 0..Len(s)
    BY <1>6
  <2> DEFINE T == {k \in 0..Len(s) : h[k] \in Seq(A)}
  <2>4. Len(s) \in Nat /\ << >> \in Seq(A)
    OBVIOUS
  <2>2. 0 \in T
    <3>1. h[0] \in Seq(A)
      BY <1>7, <2>4
    <3> QED
      BY <2>4, <3>1
  <2>3. ASSUME NEW k \in 1..Len(s), k - 1 \in T PROVE k \in T
    <3>1. h[k - 1] \in Seq(A) /\ s[k] \in A
      BY <2>3
    <3>2. Append(h[k - 1], s[k]) \in Seq(A)
      BY <3>1
    <3>3. h[k] \in {h[k - 1], Append(h[k - 1], s[k])}
      BY <1>7
    <3>4. h[k] \in Seq(A)
      BY <3>1, <3>2, <3>3
    <3> QED
      BY <3>4
  <2> HIDE DEF T
  <2>5. 0..Len(s) \subseteq T
    BY <2>2, <2>3, <2>4, IntervalInduction
  <2>6. \A k \in 0..Len(s) : h[k] \in Seq(A)
    BY <2>5 DEF T
  <2>7. h = [k \in 0..Len(s) |-> h[k]]
    BY <1>6, <2>1
  <2> QED
    BY <2>6, <2>7
<1>9. Collects(h, s, S)
  BY <1>1, <1>7 DEF h, Collects
<1> QED
  BY <1>8, <1>9

LEMMA ToSetAppend ==
    ASSUME NEW A, NEW s \in Seq(A), NEW x \in A
    PROVE  /\ Append(s, x) \in Seq(A) /\ ToSet(Append(s, x)) = ToSet(s) \union {x}
           /\ IsInjective(s) /\ x \notin ToSet(s) => IsInjective(Append(s, x))
<1>1. /\ Append(s, x) \in Seq(A) /\ DOMAIN s = 1..Len(s) /\ Len(s) \in Nat
      /\ DOMAIN Append(s, x) = 1..(Len(s) + 1)
      /\ \A i \in 1..(Len(s) + 1) : Append(s, x)[i] = IF i = Len(s) + 1 THEN x ELSE s[i]
  OBVIOUS
<1> DEFINE a == Append(s, x)
<1> HIDE DEF a
<1>2. ToSet(a) \subseteq ToSet(s) \union {x}
  BY <1>1 DEF ToSet, a
<1>3. ToSet(s) \union {x} \subseteq ToSet(a)
  <2>1. a[Len(s) + 1] = x /\ Len(s) + 1 \in DOMAIN a
    BY <1>1 DEF a
  <2>2. \A i \in DOMAIN s : a[i] = s[i] /\ i \in DOMAIN a
    BY <1>1 DEF a
  <2> QED
    BY <2>1, <2>2 DEF ToSet
<1>4. IsInjective(s) /\ x \notin ToSet(s) => IsInjective(a)
  BY <1>1 DEF ToSet, IsInjective, a
<1> QED
  BY <1>1, <1>2, <1>3, <1>4 DEF a

LEMMA ToSetConcat ==
    ASSUME NEW A, NEW s \in Seq(A), NEW t \in Seq(A)
    PROVE  /\ s \o t \in Seq(A) /\ ToSet(s \o t) = ToSet(s) \union ToSet(t)
           /\ IsInjective(s) /\ IsInjective(t) /\ ToSet(s) \intersect ToSet(t) = {} =>
                 IsInjective(s \o t)
<1> DEFINE c == s \o t
<1>1. /\ c \in Seq(A) /\ Len(c) = Len(s) + Len(t)
      /\ \A i \in 1..(Len(s) + Len(t)) : c[i] = IF i <= Len(s) THEN s[i] ELSE t[i - Len(s)]
  BY ConcatProperties
<1>2. /\ Len(s) \in Nat /\ Len(t) \in Nat
      /\ DOMAIN s = 1..Len(s) /\ DOMAIN t = 1..Len(t)
  OBVIOUS
<1> HIDE DEF c
<1>3. DOMAIN c = 1..(Len(s) + Len(t))
  BY <1>1
<1>4. \A i \in DOMAIN s : i \in DOMAIN c /\ c[i] = s[i]
  BY <1>1, <1>2, <1>3
<1>5. ASSUME NEW i \in DOMAIN t PROVE Len(s) + i \in DOMAIN c /\ c[Len(s) + i] = t[i]
  <2>1. Len(s) + i \in 1..(Len(s) + Len(t)) /\ ~(Len(s) + i <= Len(s)) /\ (Len(s) + i) - Len(s) = i
    BY <1>2
  <2> QED
    BY <1>1, <1>3, <2>1
<1>6. ASSUME NEW i \in DOMAIN c
      PROVE  \/ i \in DOMAIN s /\ c[i] = s[i]
             \/ i - Len(s) \in DOMAIN t /\ c[i] = t[i - Len(s)] /\ i \in Nat
  BY <1>1, <1>2, <1>3
<1>7. ToSet(c) = ToSet(s) \union ToSet(t)
  <2>1. ToSet(c) \subseteq ToSet(s) \union ToSet(t)
    BY <1>6 DEF ToSet
  <2>2. ToSet(s) \union ToSet(t) \subseteq ToSet(c)
    BY <1>4, <1>5 DEF ToSet
  <2> QED
    BY <2>1, <2>2
<1>8. ASSUME IsInjective(s), IsInjective(t), ToSet(s) \intersect ToSet(t) = {}
      PROVE  IsInjective(c)
  <2> SUFFICES ASSUME NEW i \in DOMAIN c, NEW j \in DOMAIN c, c[i] = c[j] PROVE i = j
    BY DEF IsInjective
  <2>1. \A k \in DOMAIN s, m \in DOMAIN t : s[k] # t[m]
    BY <1>8 DEF ToSet
  <2>2. CASE i \in DOMAIN s /\ c[i] = s[i] /\ j \in DOMAIN s /\ c[j] = s[j]
    BY <1>8, <2>2 DEF IsInjective
  <2>3. CASE /\ i - Len(s) \in DOMAIN t /\ c[i] = t[i - Len(s)] /\ i \in Nat
             /\ j - Len(s) \in DOMAIN t /\ c[j] = t[j - Len(s)] /\ j \in Nat
    <3>1. i - Len(s) = j - Len(s)
      BY <1>8, <2>3 DEF IsInjective
    <3> QED
      BY <1>2, <2>3, <3>1
  <2> QED
    BY <1>6, <2>1, <2>2, <2>3
<1> QED
  BY <1>1, <1>7, <1>8 DEF c

LEMMA ToSetTail ==
    ASSUME NEW A, NEW s \in Seq(A), s # << >>
    PROVE  /\ Head(s) \in A /\ Tail(s) \in Seq(A) /\ Len(Tail(s)) = Len(s) - 1
           /\ ToSet(s) = {Head(s)} \union ToSet(Tail(s))
           /\ Head(s) = s[1] /\ 1 \in DOMAIN s
           /\ \A i \in DOMAIN Tail(s) : i + 1 \in DOMAIN s /\ Tail(s)[i] = s[i + 1]
<1> DEFINE r == Tail(s)
<1>1. /\ Head(s) \in A /\ Head(s) = s[1] /\ r \in Seq(A) /\ Len(r) = Len(s) - 1
      /\ Len(s) \in Nat /\ Len(s) >= 1
      /\ DOMAIN s = 1..Len(s) /\ DOMAIN r = 1..(Len(s) - 1)
      /\ \A i \in 1..(Len(s) - 1) : r[i] = s[i + 1]
  OBVIOUS
<1> HIDE DEF r
<1>2. ToSet(s) \subseteq {Head(s)} \union ToSet(r)
  <2> SUFFICES ASSUME NEW i \in 1..Len(s), i # 1 PROVE s[i] \in ToSet(r)
    BY <1>1 DEF ToSet
  <2>1. i - 1 \in 1..(Len(s) - 1) /\ (i - 1) + 1 = i
    BY <1>1
  <2>2. r[i - 1] = s[i]
    BY <1>1, <2>1
  <2> QED
    BY <1>1, <2>1, <2>2 DEF ToSet
<1>3. \A i \in 1..(Len(s) - 1) : i + 1 \in 1..Len(s)
  BY <1>1
<1>4. {Head(s)} \union ToSet(r) \subseteq ToSet(s)
  <2>1. 1 \in 1..Len(s)
    BY <1>1
  <2> QED
    BY <1>1, <1>3, <2>1 DEF ToSet
<1> QED
  BY <1>1, <1>2, <1>3, <1>4 DEF r

LEMMA OnlyFacts ==
    ASSUME NEW A, NEW s \in Seq(A), NEW S
    PROVE  /\ Only(s, S) \in Seq(A \intersect S)
           /\ ToSet(Only(s, S)) = ToSet(s) \intersect S
           /\ IsInjective(s) => IsInjective(Only(s, S))
<1>1. PICK upto \in [0..Len(s) -> Seq(A)] :
        /\ upto[0] = << >> /\ Only(s, S) = upto[Len(s)]
        /\ \A k \in 1..Len(s) :
              upto[k] = IF s[k] \in S THEN Append(upto[k - 1], s[k]) ELSE upto[k - 1]
  <2>1. \E upto \in [0..Len(s) -> Seq(A)] : Collects(upto, s, S)
    BY OnlyDef
  <2> QED
    BY <2>1 DEF Collects
<1>2. Len(s) \in Nat /\ DOMAIN s = 1..Len(s)
  OBVIOUS
<1> DEFINE Before(k) == {s[i] : i \in 1..k} \intersect S
<1> DEFINE Right(k) == /\ upto[k] \in Seq(A \intersect S)
                       /\ ToSet(upto[k]) = Before(k)
                       /\ IsInjective(s) => IsInjective(upto[k])
<1> DEFINE T == {k \in 0..Len(s) : Right(k)}
<1>3. 0 \in T
  <2>1. upto[0] = << >> /\ Before(0) = {}
    BY <1>1
  <2> QED
    BY <1>2, <2>1 DEF ToSet, IsInjective
<1>4. ASSUME NEW k \in 1..Len(s), k - 1 \in T PROVE k \in T
  <2>1. /\ upto[k - 1] \in Seq(A \intersect S) /\ ToSet(upto[k - 1]) = Before(k - 1)
        /\ IsInjective(s) => IsInjective(upto[k - 1])
    <3>1. Right(k - 1)
      <4> HIDE DEF Right
      <4> QED
        BY <1>4
    <3> QED
      BY <3>1
  <2>2. {s[i] : i \in 1..k} = {s[i] : i \in 1..(k - 1)} \union {s[k]}
    <3>1. 1..k = (1..(k - 1)) \union {k}
      OBVIOUS
    <3> QED
      BY <3>1
  <2>3. CASE s[k] \in S
    <3>1. s[k] \in A \intersect S
      BY <2>3
    <3>2. upto[k] = Append(upto[k - 1], s[k])
      BY <1>1, <2>3
    <3>3. /\ upto[k] \in Seq(A \intersect S) /\ ToSet(upto[k]) = Before(k - 1) \union {s[k]}
          /\ IsInjective(upto[k - 1]) /\ s[k] \notin Before(k - 1) => IsInjective(upto[k])
      <4> DEFINE before == upto[k - 1]
      <4> DEFINE chosen == A \intersect S
      <4>1. before \in Seq(chosen) /\ s[k] \in chosen /\ ToSet(before) = Before(k - 1)
        BY <2>1, <3>1
      <4>2. upto[k] = Append(before, s[k])
        BY <3>2
      <4> HIDE DEF before, chosen, Before
      <4>3. /\ upto[k] \in Seq(chosen) /\ ToSet(upto[k]) = Before(k - 1) \union {s[k]}
            /\ IsInjective(before) /\ s[k] \notin Before(k - 1) => IsInjective(upto[k])
        BY <4>1, <4>2, ToSetAppend
      <4> QED
        BY <4>3 DEF before, chosen
    <3>4. IsInjective(s) => s[k] \notin Before(k - 1)
      BY <1>2 DEF IsInjective
    <3> QED
      BY <2>1, <2>2, <2>3, <3>3, <3>4
  <2>4. CASE s[k] \notin S
    <3>1. upto[k] = upto[k - 1] /\ Before(k) = Before(k - 1)
      BY <1>1, <2>2, <2>4
    <3> HIDE DEF Before
    <3>2. Right(k)
      BY <2>1, <3>1
    <3> HIDE DEF Right
    <3> QED
      BY <1>2, <3>2
  <2> QED
    BY <2>3, <2>4
<1> HIDE DEF T
<1>5. 0..Len(s) \subseteq T
  BY <1>2, <1>3, <1>4, IntervalInduction
<1>7. Len(s) \in T
  BY <1>2, <1>5
<1>6. Before(Len(s)) = ToSet(s) \intersect S
  BY <1>2 DEF ToSet
<1> HIDE DEF Before
<1>8. /\ upto[Len(s)] \in Seq(A \intersect S) /\ ToSet(upto[Len(s)]) = Before(Len(s))
      /\ IsInjective(s) => IsInjective(upto[Len(s)])
  BY <1>7 DEF T
<1> QED
  BY <1>1, <1>6, <1>8

(* list.remove on a list without repetitions: the elements behind the one   *)
(* that is removed move one position to the front.                          *)
LEMMA RemoveFirstFacts ==
    ASSUME NEW A, NEW s \in Seq(A), IsInjective(s), NEW e
    PROVE  /\ RemoveFirst(s, e) \in Seq(A) /\ IsInjective(RemoveFirst(s, e))
           /\ ToSet(RemoveFirst(s, e)) = ToSet(s) \ {e}
           /\ \A i \in DOMAIN RemoveFirst(s, e) :
                 \E j \in DOMAIN s : i <= j /\ RemoveFirst(s, e)[i] = s[j]
<1>1. Len(s) \in Nat /\ DOMAIN s = 1..Len(s) /\ \A i \in 1..Len(s) : s[i] \in A
  OBVIOUS
<1>2. CASE \A i \in 1..Len(s) : s[i] # e
  <2>1. RemoveFirst(s, e) = s
    BY <1>2 DEF RemoveFirst
  <2>2. e \notin ToSet(s)
    BY <1>1, <1>2 DEF ToSet
  <2> QED
    BY <1>1, <2>1, <2>2
<1>3. ASSUME NEW k \in 1..Len(s), s[k] = e
      PROVE  /\ RemoveFirst(s, e) \in Seq(A) /\ IsInjective(RemoveFirst(s, e))
             /\ ToSet(RemoveFirst(s, e)) = ToSet(s) \ {e}
             /\ \A i \in DOMAIN RemoveFirst(s, e) :
                   \E j \in DOMAIN s : i <= j /\ RemoveFirst(s, e)[i] = s[j]
  <2> DEFINE I == {i \in 1..Len(s) : s[i] = e}
  <2> DEFINE p == Min(I)
  <2>1. p \in 1..Len(s) /\ s[p] = e
    <3>1. I # {} /\ I \subseteq Nat
      BY <1>3
    <3>2. p \in I
      BY <3>1, MinFacts
    <3> QED
      BY <3>2
  <2>2. RemoveFirst(s, e) = SubSeq(s, 1, p - 1) \o SubSeq(s, p + 1, Len(s))
    <3>1. I # {}
      BY <1>3
    <3> QED
      BY <1>3, <3>1 DEF RemoveFirst, RemoveAt, SelectInSeq
  <2> HIDE DEF p
  <2> DEFINE r == RemoveFirst(s, e)
  <2>3. /\ r \in Seq(A) /\ Len(r) = Len(s) - 1
        /\ \A i \in 1..(Len(s) - 1) : r[i] = IF i < p THEN s[i] ELSE s[i + 1]
    <3> DEFINE a == SubSeq(s, 1, p - 1)
    <3> DEFINE b == SubSeq(s, p + 1, Len(s))
    <3>1. a \in Seq(A) /\ Len(a) = p - 1 /\ \A i \in 1..(p - 1) : a[i] = s[i]
      BY <1>1, <2>1
    <3>2. b \in Seq(A) /\ Len(b) = Len(s) - p /\ \A i \in 1..(Len(s) - p) : b[i] = s[p + i]
      <4>1. p + 1 \in Int /\ Len(s) \in Int /\ \A i \in (p + 1)..Len(s) : s[i] \in A
        BY <1>1, <2>1
      <4>2. /\ b \in Seq(A) /\ Len(b) = IF p + 1 <= Len(s) THEN Len(s) - (p + 1) + 1 ELSE 0
            /\ \A i \in 1..(Len(s) - (p + 1) + 1) : b[i] = s[p + 1 + i - 1]
        BY <4>1, SubSeqProperties
      <4> HIDE DEF b
      <4>3. Len(s) - (p + 1) + 1 = Len(s) - p /\ (~(p + 1 <= Len(s)) => Len(s) - p = 0)
        <5>1. p \in Int /\ Len(s) \in Int /\ p <= Len(s)
          BY <1>1, <2>1
        <5>2. \A m, n \in Int : m <= n => n - (m + 1) + 1 = n - m /\ (~(m + 1 <= n) => n - m = 0)
          OBVIOUS
        <5> QED
          BY <5>1, <5>2
      <4>4. ASSUME NEW i \in 1..(Len(s) - p) PROVE b[i] = s[p + i]
        <5>1. p + 1 + i - 1 = p + i
          BY <2>1
        <5>2. i \in 1..(Len(s) - (p + 1) + 1)
          BY <4>3
        <5>3. b[i] = s[p + 1 + i - 1]
          BY <4>2, <5>2
        <5> QED
          BY <5>1, <5>3
      <4>5. Len(b) = Len(s) - p
        BY <4>2, <4>3
      <4> QED
        BY <4>2, <4>4, <4>5
    <3> HIDE DEF a, b
    <3>3. r = a \o b
      BY <2>2 DEF a, b
    <3> HIDE DEF r
    <3>4. /\ r \in Seq(A) /\ Len(r) = Len(a) + Len(b)
          /\ \A i \in 1..(Len(a) + Len(b)) :
                r[i] = IF i <= Len(a) THEN a[i] ELSE b[i - Len(a)]
      BY <3>1, <3>2, <3>3, ConcatProperties
    <3>6. Len(a) + Len(b) = Len(s) - 1
      BY <1>1, <2>1, <3>1, <3>2
    <3>5. ASSUME NEW i \in 1..(Len(s) - 1) PROVE r[i] = IF i < p THEN s[i] ELSE s[i + 1]
      <4>3. r[i] = IF i <= Len(a) THEN a[i] ELSE b[i - Len(a)]
        <5>1. i \in 1..(Len(a) + Len(b))
          BY <3>6
        <5> QED
          BY <3>4, <5>1
      <4>1. CASE i < p
        <5>1. i <= Len(a) /\ i \in 1..(p - 1)
          BY <2>1, <3>1, <4>1
        <5> QED
          BY <3>1, <4>1, <4>3, <5>1
      <4>2. CASE ~(i < p)
        <5>1. ~(i <= Len(a)) /\ i - Len(a) \in 1..(Len(s) - p) /\ p + (i - Len(a)) = i + 1
          BY <1>1, <2>1, <3>1, <4>2
        <5> QED
          BY <3>2, <4>2, <4>3, <5>1
      <4> QED
        BY <4>1, <4>2
    <3> QED
      BY <3>4, <3>5, <3>6
  <2> HIDE DEF r
  <2>4. DOMAIN r = 1..(Len(s) - 1)
    BY <2>3
  <2>5. IsInjective(r)
    <3> SUFFICES ASSUME NEW i \in 1..(Len(s) - 1), NEW j \in 1..(Len(s) - 1), r[i] = r[j]
                 PROVE  i = j
      BY <2>4 DEF IsInjective
    <3> DEFINE from(m) == IF m < p THEN m ELSE m + 1
    <3>1. r[i] = s[from(i)] /\ r[j] = s[from(j)]
      BY <2>3
    <3>2. from(i) \in 1..Len(s) /\ from(j) \in 1..Len(s)
      BY <1>1
    <3>3. from(i) = from(j)
      BY <1>1, <3>1, <3>2 DEF IsInjective
    <3> QED
      BY <2>1, <3>3
  <2>6. ToSet(r) \subseteq ToSet(s) \ {e}
    <3> SUFFICES ASSUME NEW i \in 1..(Len(s) - 1)
                 PROVE  r[i] \in ToSet(s) /\ r[i] # e
      BY <2>4 DEF ToSet
    <3>1. PICK j \in 1..Len(s) : r[i] = s[j] /\ j # p
      BY <1>1, <2>1, <2>3
    <3> QED
      BY <1>1, <2>1, <3>1 DEF ToSet, IsInjective
  <2>7. ToSet(s) \ {e} \subseteq ToSet(r)
    <3> SUFFICES ASSUME NEW j \in 1..Len(s), s[j] # e PROVE s[j] \in ToSet(r)
      BY <1>1 DEF ToSet
    <3>1. PICK i \in 1..(Len(s) - 1) : r[i] = s[j]
      <4>1. CASE j < p
        <5>1. j \in 1..(Len(s) - 1) /\ r[j] = s[j]
          BY <1>1, <2>1, <2>3, <4>1
        <5> QED
          BY <5>1
      <4>2. CASE ~(j < p)
        <5>1. j # p
          BY <2>1
        <5>2. j - 1 \in 1..(Len(s) - 1) /\ ~(j - 1 < p) /\ (j - 1) + 1 = j
          BY <1>1, <2>1, <4>2, <5>1
        <5>3. r[j - 1] = s[j]
          BY <2>3, <5>2
        <5> QED
          BY <5>2, <5>3
      <4> QED
        BY <4>1, <4>2
    <3> QED
      BY <2>4, <3>1 DEF ToSet
  <2>8. ASSUME NEW i \in 1..(Len(s) - 1) PROVE \E j \in 1..Len(s) : i <= j /\ r[i] = s[j]
    <3>1. i \in 1..Len(s) /\ i + 1 \in 1..Len(s) /\ i <= i + 1
      BY <1>1
    <3>2. r[i] \in {s[i], s[i + 1]}
      BY <2>3
    <3> QED
      BY <3>1, <3>2
  <2> QED
    BY <1>1, <2>3, <2>4, <2>5, <2>6, <2>7, <2>8 DEF r
<1> QED
  BY <1>2, <1>3

(* A choice among the positions 1..n, made position by position. *)
Positions(n) == [i \in 1..n |-> i]
Chooses(upto, n, S) ==
    /\ upto[0] = << >> /\ Only(Positions(n), S) = upto[n]
    /\ \A k \in 1..n : upto[k] = IF k \in S THEN Append(upto[k - 1], k) ELSE upto[k - 1]

LEMMA OnlyPositions ==
    ASSUME NEW n \in Nat, NEW S
    PROVE  \E upto \in [0..n -> Seq(Nat)] : Chooses(upto, n, S)
<1>1. Positions(n) \in Seq(Nat) /\ Len(Positions(n)) = n /\ \A k \in 1..n : Positions(n)[k] = k
  BY DEF Positions
<1>2. PICK upto \in [0..Len(Positions(n)) -> Seq(Nat)] : Collects(upto, Positions(n), S)
  BY <1>1, OnlyDef
<1>3. upto \in [0..n -> Seq(Nat)] /\ Chooses(upto, n, S)
  BY <1>1, <1>2 DEF Collects, Chooses
<1> QED
  BY <1>3

(* The same element appended to two lists, the second two elements longer. *)
LEMMA AppendAlike ==
    ASSUME NEW a \in Seq(Nat), NEW b \in Seq(Nat), NEW k \in Nat,
           Len(b) = Len(a) + 2, \A j \in 1..Len(a) : b[j + 2] = a[j]
    PROVE  /\ Len(Append(b, k)) = Len(Append(a, k)) + 2
           /\ \A j \in 1..Len(Append(a, k)) : Append(b, k)[j + 2] = Append(a, k)[j]
<1>1. \A v \in Seq(Nat) :
         /\ Len(v) \in Nat /\ Len(Append(v, k)) = Len(v) + 1
         /\ \A j \in 1..(Len(v) + 1) : Append(v, k)[j] = IF j = Len(v) + 1 THEN k ELSE v[j]
  OBVIOUS
<1>2. Len(a) \in Nat /\ Len(Append(a, k)) = Len(a) + 1 /\ Len(Append(b, k)) = Len(a) + 3
  BY <1>1
<1>3. ASSUME NEW j \in 1..(Len(a) + 1) PROVE Append(b, k)[j + 2] = Append(a, k)[j]
  <2>1. j + 2 \in 1..(Len(b) + 1) /\ (j + 2 = Len(b) + 1 <=> j = Len(a) + 1)
    BY <1>2
  <2>2. Append(a, k)[j] = IF j = Len(a) + 1 THEN k ELSE a[j]
    BY <1>1
  <2>3. Append(b, k)[j + 2] = IF j + 2 = Len(b) + 1 THEN k ELSE b[j + 2]
    BY <1>1, <2>1
  <2>4. j = Len(a) + 1 \/ j \in 1..Len(a)
    BY <1>2
  <2> QED
    BY <2>1, <2>2, <2>3, <2>4
<1> QED
  BY <1>2, <1>3

(* What is left of a list without its first elements. *)
LEMMA SubSeqFrom ==
    ASSUME NEW A, NEW s \in Seq(A), NEW m \in 1..Len(s)
    PROVE  /\ SubSeq(s, m, Len(s)) \in Seq(A)
           /\ Len(SubSeq(s, m, Len(s))) = Len(s) - m + 1
           /\ \A i \in 1..(Len(s) - m + 1) : SubSeq(s, m, Len(s))[i] = s[m + i - 1]
<1>1. Len(s) \in Nat /\ m \in Int /\ m <= Len(s) /\ \A i \in m..Len(s) : s[i] \in A
  OBVIOUS
<1> QED
  BY <1>1, SubSeqProperties
==============================================================================
