------------------------------ MODULE Induction -------------------------------
(***************************************************************************)
(* Induction over numbers and over sequences, and what a recursive         *)
(* function that walks a sequence computes, what a list of lists holds     *)
(* when it is flattened, and what a filter keeps, for the proofs about the *)
(* modules of the project.                                                 *)
(*                                                                         *)
(* The usual statement of induction takes a predicate; these take the set  *)
(* of the values the predicate is true of, and a step is a function on a   *)
(* set of states, so that every lemma is first order.                      *)
(***************************************************************************)
EXTENDS Integers, Sequences, SequencesExt, TLAPS, SequenceTheorems, WellFoundedInduction

\* A set of naturals with 0 and the successor of each member is all of them.
LEMMA SetInduction ==
  ASSUME NEW T \in SUBSET Nat, 0 \in T, \A n \in T : n + 1 \in T
  PROVE  T = Nat
<1> DEFINE Rest == Nat \ T
           Below == {ss \in Nat \X Nat : ss[1] < ss[2]}
<1>1. IsWellFoundedOn(Below, Nat)
  BY NatLessThanWellFounded, Zenon DEF OpToRel
<1>2. ASSUME Rest # {} PROVE FALSE
  <2>1. \E x \in Rest : \A y \in Rest : <<y, x>> \notin Below
    BY <1>1, <1>2, WFMin, Zenon
  <2> PICK x \in Rest : \A y \in Rest : <<y, x>> \notin Below
    BY <2>1
  <2>2. x # 0 /\ x - 1 \in Nat
    OBVIOUS
  <2>3. <<x - 1, x>> \in Below
    BY <2>2
  <2>4. x - 1 \in T
    BY <2>2, <2>3
  <2> QED BY <2>2, <2>4
<1> QED BY <1>2

\* A bounded set of naturals that is not empty has a largest member.
LEMMA LargestExists ==
  ASSUME NEW n \in Nat
  PROVE  \A S \in SUBSET (0..n) : S # {} => \E x \in S : \A y \in S : x >= y
<1> DEFINE T == {m \in Nat : \A S \in SUBSET (0..m) : S # {} => \E x \in S : \A y \in S : x >= y}
<1>1. 0 \in T
  <2> SUFFICES ASSUME NEW S \in SUBSET (0..0), NEW x \in S PROVE \E z \in S : \A y \in S : z >= y
    OBVIOUS
  <2>1. \A y \in S : y = 0
    OBVIOUS
  <2> QED BY <2>1
<1>2. ASSUME NEW m \in T PROVE m + 1 \in T
  <2> SUFFICES ASSUME NEW S \in SUBSET (0..(m + 1)), S # {}
               PROVE  \E x \in S : \A y \in S : x >= y
    OBVIOUS
  <2>1. CASE m + 1 \in S
    BY <2>1
  <2>2. CASE m + 1 \notin S
    <3>1. S \in SUBSET (0..m)
      BY <2>2
    <3> QED BY <3>1
  <2> QED BY <2>1, <2>2
<1> HIDE DEF T
<1>3. T \in SUBSET Nat
  BY DEF T
<1>4. T = Nat
  BY <1>1, <1>2, <1>3, SetInduction
<1> QED BY <1>4 DEF T

\* A set of sequences with the empty one, and with what any of its members
\* becomes by one more element, has all of them.
LEMMA SeqInduction ==
  ASSUME NEW X, NEW T \in SUBSET Seq(X), <<>> \in T,
         \A s \in T : \A e \in X : Append(s, e) \in T
  PROVE  T = Seq(X)
<1> DEFINE N == {n \in Nat : \A s \in Seq(X) : Len(s) = n => s \in T}
<1>1. 0 \in N
  OBVIOUS
<1>2. ASSUME NEW n \in N PROVE n + 1 \in N
  <2> SUFFICES ASSUME NEW s \in Seq(X), Len(s) = n + 1 PROVE s \in T
    OBVIOUS
  <2>1. s # <<>>
    OBVIOUS
  <2> PICK a \in Seq(X), e \in X : s = Append(a, e)
    BY <2>1, SequenceEmptyOrAppend
  <2>2. Len(s) = Len(a) + 1 /\ Len(a) \in Nat
    OBVIOUS
  <2>3. a \in T
    BY <2>2
  <2> QED BY <2>3
<1> HIDE DEF N
<1>3. N \in SUBSET Nat
  BY DEF N
<1>4. N = Nat
  BY <1>1, <1>2, <1>3, SetInduction
<1>5. \A s \in Seq(X) : Len(s) \in Nat
  OBVIOUS
<1> QED BY <1>4, <1>5 DEF N

-----------------------------------------------------------------------------
(* A walk over a sequence: step says where an element leads from a state.  *)

Steps(S, X) == [S \X X -> S]

\* h[i] is the state after the first i elements of s.
IsWalk(h, step, start, s) ==
  h[0] = start /\ \A i \in 1..Len(s) : h[i] = step[<<h[i - 1], s[i]>>]

\* f keeps to the step for n elements, as long as it stays among the states.
Obeys(f, S, step, start, s, n) ==
  f[0] = start /\ \A i \in 1..n : f[i - 1] \in S => f[i] = step[<<f[i - 1], s[i]>>]

\* The state after all of s.
Walked(step, start, s) == (CHOOSE h : IsWalk(h, step, start, s))[Len(s)]

\* There is one walk over every sequence, and it ends where any does that
\* keeps to the step as long as it stays among the states.
LEMMA WalkExists ==
  ASSUME NEW S, NEW X, NEW start \in S, NEW step \in Steps(S, X)
  PROVE  \A s \in Seq(X) : \E h : IsWalk(h, step, start, s)
<1> DEFINE T == {s \in Seq(X) : \E h : IsWalk(h, step, start, s)}
<1>1. <<>> \in T
  <2>1. IsWalk([i \in 0..0 |-> start], step, start, <<>>)
    BY DEF IsWalk
  <2> QED BY <2>1
<1>2. ASSUME NEW s \in T, NEW e \in X PROVE Append(s, e) \in T
  <2> PICK h : IsWalk(h, step, start, s)
    OBVIOUS
  <2>1. Len(s) \in Nat /\ s \in Seq(X)
    OBVIOUS
  <2>2. /\ Len(Append(s, e)) = Len(s) + 1 /\ Append(s, e) \in Seq(X)
        /\ \A i \in 1..Len(s) : Append(s, e)[i] = s[i]
        /\ Append(s, e)[Len(s) + 1] = e
    BY <2>1
  <2> DEFINE g == [i \in 0..(Len(s) + 1) |->
                     IF i = Len(s) + 1 THEN step[<<h[Len(s)], e>>] ELSE h[i]]
  <2>3. h[0] = start /\ \A i \in 1..Len(s) : h[i] = step[<<h[i - 1], s[i]>>]
    BY DEF IsWalk
  <2>4. g[0] = start
    BY <2>1, <2>3
  <2>5. ASSUME NEW i \in 1..Len(Append(s, e))
        PROVE  g[i] = step[<<g[i - 1], Append(s, e)[i]>>]
    <3>1. CASE i \in 1..Len(s)
      <4>1. g[i] = h[i] /\ g[i - 1] = h[i - 1] /\ Append(s, e)[i] = s[i]
        BY <2>1, <2>2, <3>1
      <4> QED BY <2>3, <3>1, <4>1
    <3>2. CASE i = Len(s) + 1
      <4>1. g[i] = step[<<h[Len(s)], e>>] /\ g[i - 1] = h[Len(s)] /\ Append(s, e)[i] = e
        BY <2>1, <2>2, <3>2
      <4> QED BY <4>1
    <3>3. i \in 1..(Len(s) + 1)
      BY <2>2
    <3> HIDE DEF g
    <3> QED BY <2>1, <3>1, <3>2, <3>3
  <2> HIDE DEF g
  <2>6. IsWalk(g, step, start, Append(s, e))
    BY <2>4, <2>5 DEF IsWalk
  <2> QED BY <2>2, <2>6
<1> HIDE DEF T
<1>3. T \in SUBSET Seq(X)
  BY DEF T
<1>4. T = Seq(X)
  BY <1>1, <1>2, <1>3, SeqInduction
<1> QED BY <1>4 DEF T

LEMMA WalkUnique ==
  ASSUME NEW S, NEW X, NEW start \in S, NEW step \in Steps(S, X), NEW s \in Seq(X),
         NEW h, IsWalk(h, step, start, s), NEW n \in Nat, n <= Len(s),
         NEW f, Obeys(f, S, step, start, s, n)
  PROVE  f[n] = h[n] /\ f[n] \in S
<1> DEFINE T == {i \in Nat : i <= n => f[i] = h[i] /\ f[i] \in S}
<1>1. 0 \in T
  BY DEF IsWalk, Obeys
<1>2. ASSUME NEW i \in T PROVE i + 1 \in T
  <2> SUFFICES ASSUME i + 1 <= n PROVE f[i + 1] = h[i + 1] /\ f[i + 1] \in S
    OBVIOUS
  <2>1. /\ i + 1 \in 1..n /\ i + 1 \in 1..Len(s) /\ (i + 1) - 1 = i
        /\ f[i] = h[i] /\ f[i] \in S
    OBVIOUS
  <2>2. f[i + 1] = step[<<f[i], s[i + 1]>>] /\ h[i + 1] = step[<<h[i], s[i + 1]>>]
    BY <2>1 DEF IsWalk, Obeys
  <2>3. s[i + 1] \in X
    BY <2>1
  <2>4. <<f[i], s[i + 1]>> \in S \X X
    BY <2>1, <2>3
  <2>5. step[<<f[i], s[i + 1]>>] \in S
    BY <2>4 DEF Steps
  <2> QED BY <2>1, <2>2, <2>5
<1> HIDE DEF T
<1>3. T \in SUBSET Nat
  BY DEF T
<1>4. T = Nat
  BY <1>1, <1>2, <1>3, SetInduction
<1> QED BY <1>4 DEF T

\* Every state of a walk is one.
LEMMA WalkStays ==
  ASSUME NEW S, NEW X, NEW start \in S, NEW step \in Steps(S, X), NEW s \in Seq(X),
         NEW h, IsWalk(h, step, start, s)
  PROVE  \A n \in 0..Len(s) : h[n] \in S
<1> SUFFICES ASSUME NEW n \in 0..Len(s) PROVE h[n] \in S
  OBVIOUS
<1>1. Len(s) \in Nat
  OBVIOUS
<1>2. n \in Nat /\ n <= Len(s) /\ \A i \in 1..n : i \in 1..Len(s)
  BY <1>1
<1>3. Obeys(h, S, step, start, s, n)
  BY <1>2 DEF IsWalk, Obeys
<1> QED BY <1>2, <1>3, WalkUnique

LEMMA WalkedIsEnd ==
  ASSUME NEW S, NEW X, NEW start \in S, NEW step \in Steps(S, X), NEW s \in Seq(X),
         NEW f, Obeys(f, S, step, start, s, Len(s))
  PROVE  f[Len(s)] = Walked(step, start, s) /\ f[Len(s)] \in S
<1> DEFINE h == CHOOSE g : IsWalk(g, step, start, s)
<1>1. IsWalk(h, step, start, s)
  <2>1. \E g : IsWalk(g, step, start, s)
    BY WalkExists
  <2> QED BY <2>1, Zenon
<1>2. Walked(step, start, s) = h[Len(s)]
  BY DEF Walked
<1> HIDE DEF h
<1>3. Len(s) \in Nat /\ Len(s) <= Len(s)
  OBVIOUS
<1>4. f[Len(s)] = h[Len(s)] /\ f[Len(s)] \in S
  BY <1>1, <1>3, WalkUnique
<1> QED BY <1>2, <1>4

\* A walk over nothing stays, and one more element is one more step.
LEMMA WalkedSteps ==
  ASSUME NEW S, NEW X, NEW start \in S, NEW step \in Steps(S, X)
  PROVE  /\ Walked(step, start, <<>>) = start
         /\ \A s \in Seq(X) : Walked(step, start, s) \in S
         /\ \A s \in Seq(X) : \A e \in X :
              Walked(step, start, Append(s, e)) = step[<<Walked(step, start, s), e>>]
<1>1. Walked(step, start, <<>>) = start
  <2> DEFINE f == [i \in {0} |-> start]
  <2>1. ASSUME NEW s \in Seq(X), Len(s) = 0 PROVE Walked(step, start, s) = start
    <3>1. Obeys(f, S, step, start, s, Len(s))
      BY <2>1 DEF Obeys
    <3> HIDE DEF f
    <3>2. f[Len(s)] = Walked(step, start, s)
      BY <3>1, WalkedIsEnd
    <3> QED BY <2>1, <3>2 DEF f
  <2>2. <<>> \in Seq(X) /\ Len(<<>>) = 0
    OBVIOUS
  <2> HIDE DEF f
  <2> QED BY <2>1, <2>2
<1>2. ASSUME NEW s \in Seq(X) PROVE Walked(step, start, s) \in S
  <2> PICK h : IsWalk(h, step, start, s)
    BY WalkExists
  <2>1. Obeys(h, S, step, start, s, Len(s))
    BY DEF IsWalk, Obeys
  <2> QED BY <2>1, WalkedIsEnd
<1>3. ASSUME NEW s \in Seq(X), NEW e \in X
      PROVE  Walked(step, start, Append(s, e)) = step[<<Walked(step, start, s), e>>]
  <2> DEFINE t == Append(s, e)
             n == Len(s)
  <2>1. /\ t \in Seq(X) /\ Len(t) = n + 1 /\ n \in Nat
        /\ \A i \in 1..n : t[i] = s[i]
        /\ t[n + 1] = e
    OBVIOUS
  <2> PICK h : IsWalk(h, step, start, t)
    BY <2>1, WalkExists
  <2> HIDE DEF t
  <2>2. h[0] = start /\ \A i \in 1..Len(t) : h[i] = step[<<h[i - 1], t[i]>>]
    BY DEF IsWalk
  <2>3. h[n + 1] = Walked(step, start, t)
    <3>1. h[Len(t)] = Walked(step, start, t)
      <4>1. Obeys(h, S, step, start, t, Len(t))
        BY <2>2 DEF Obeys
      <4> QED BY <2>1, <4>1, WalkedIsEnd
    <3> QED BY <2>1, <3>1
  <2>4. h[n] = Walked(step, start, s)
    <3>1. Obeys(h, S, step, start, s, Len(s))
      BY <2>1, <2>2 DEF Obeys
    <3> QED BY <3>1, WalkedIsEnd
  <2>5. h[n + 1] = step[<<h[n], e>>]
    <3>1. n + 1 \in 1..Len(t) /\ (n + 1) - 1 = n
      BY <2>1
    <3> QED BY <2>1, <2>2, <3>1
  <2> QED BY <2>3, <2>4, <2>5 DEF t
<1> QED BY <1>1, <1>2, <1>3

\* A walk over two sequences is two walks.
LEMMA WalkedOver ==
  ASSUME NEW S, NEW X, NEW start \in S, NEW step \in Steps(S, X), NEW s \in Seq(X), NEW t \in Seq(X)
  PROVE  Walked(step, start, s \o t) = Walked(step, Walked(step, start, s), t)
<1> DEFINE T == {u \in Seq(X) : Walked(step, start, s \o u) = Walked(step, Walked(step, start, s), u)}
<1>1. /\ Walked(step, start, s) \in S
      /\ \A u \in Seq(X) : \A e \in X :
           Walked(step, start, Append(u, e)) = step[<<Walked(step, start, u), e>>]
  BY WalkedSteps
<1> DEFINE w == Walked(step, start, s)
<1> HIDE DEF w
<1>2. /\ Walked(step, w, <<>>) = w
      /\ \A u \in Seq(X) : \A e \in X : Walked(step, w, Append(u, e)) = step[<<Walked(step, w, u), e>>]
  <2>1. w \in S
    BY <1>1 DEF w
  <2> QED BY <2>1, WalkedSteps
<1>3. <<>> \in T
  <2>1. s \o <<>> = s /\ <<>> \in Seq(X)
    OBVIOUS
  <2> QED BY <1>2, <2>1 DEF w
<1>4. ASSUME NEW u \in T, NEW e \in X PROVE Append(u, e) \in T
  <2>1. u \in Seq(X) /\ Walked(step, start, s \o u) = Walked(step, w, u)
    BY DEF w
  <2>2. s \o Append(u, e) = Append(s \o u, e) /\ s \o u \in Seq(X) /\ Append(u, e) \in Seq(X)
    BY <2>1
  <2>3. Walked(step, start, s \o Append(u, e)) = step[<<Walked(step, start, s \o u), e>>]
    BY <1>1, <2>2
  <2>4. Walked(step, w, Append(u, e)) = step[<<Walked(step, w, u), e>>]
    BY <1>2, <2>1
  <2> QED BY <2>1, <2>2, <2>3, <2>4 DEF w
<1>5. T \in SUBSET Seq(X)
  OBVIOUS
<1> HIDE DEF T
<1>6. T = Seq(X)
  BY <1>3, <1>4, <1>5, SeqInduction
<1> QED BY <1>6 DEF T

\* The walk, as the recursive function it is.
LEMMA WalkGiven ==
  ASSUME NEW S, NEW X, NEW start \in S, NEW step \in Steps(S, X), NEW s \in Seq(X)
  PROVE  \E h : /\ h = [i \in 0 .. Len(s) |-> IF i = 0 THEN start ELSE step[<<h[i - 1], s[i]>>]]
                /\ \A i \in 1 .. Len(s) : h[i - 1] \in S /\ s[i] \in X
<1> PICK h : IsWalk(h, step, start, s)
  BY WalkExists
<1> DEFINE n == Len(s)
           g == [i \in 0 .. n |-> h[i]]
<1>1. n \in Nat /\ \A i \in 1 .. n : s[i] \in X
  OBVIOUS
<1>2. \A i \in 0 .. n : h[i] \in S
  BY WalkStays
<1>3. h[0] = start /\ \A i \in 1 .. n : h[i] = step[<<h[i - 1], s[i]>>]
  BY DEF IsWalk
<1> HIDE DEF n
<1>4. \A i \in 1 .. n : i - 1 \in 0 .. n /\ i \in 0 .. n
  BY <1>1
<1>5. \A i \in 0 .. n : i = 0 \/ i \in 1 .. n
  BY <1>1
<1>6. \A i \in 0 .. n : g[i] = IF i = 0 THEN start ELSE step[<<g[i - 1], s[i]>>]
  BY <1>3, <1>4, <1>5
<1>7. g = [i \in 0 .. n |-> g[i]]
  OBVIOUS
<1>8. \A i \in 1 .. n : g[i - 1] \in S /\ s[i] \in X
  BY <1>1, <1>2, <1>4
<1> HIDE DEF g
<1>9. g = [i \in 0 .. n |-> IF i = 0 THEN start ELSE step[<<g[i - 1], s[i]>>]]
  BY <1>6, <1>7
<1> QED BY <1>8, <1>9 DEF n

-----------------------------------------------------------------------------
(* What each element of a list gives, one after the other.                 *)

Flat(op, s) == FlattenSeq([i \in DOMAIN s |-> op[s[i]]])

\* Flattening goes on by one sequence.
LEMMA FlattenLaws ==
  ASSUME NEW Y
  PROVE  /\ FlattenSeq(<<>>) = <<>>
         /\ \A ss \in Seq(Seq(Y)) : FlattenSeq(ss) \in Seq(Y)
         /\ \A ss \in Seq(Seq(Y)) : \A s \in Seq(Y) :
              FlattenSeq(Append(ss, s)) = FlattenSeq(ss) \o s
<1> DEFINE S == Seq(Y)
           step == [p \in S \X S |-> p[1] \o p[2]]
<1>1. step \in Steps(S, S) /\ <<>> \in S
  BY DEF Steps
<1>2. \A a, b \in S : step[<<a, b>>] = a \o b
  OBVIOUS
<1>3. \A b \in S : <<>> \o b = b
  OBVIOUS
<1> HIDE DEF S, step
<1>4. ASSUME NEW ss \in Seq(S) PROVE FlattenSeq(ss) = Walked(step, <<>>, ss)
  <2>1. Len(ss) \in Nat
    OBVIOUS
  <2>2. CASE Len(ss) = 0
    <3>1. ss = <<>>
      BY <2>2
    <3> QED BY <1>1, <2>2, <3>1, WalkedSteps DEF FlattenSeq
  <2>3. CASE Len(ss) # 0
    <3> DEFINE F(f) == f = [i \in 1 .. Len(ss) |-> IF i = 1 THEN ss[i] ELSE f[i - 1] \o ss[i]]
               flat == CHOOSE f : F(f)
    <3>1. FlattenSeq(ss) = flat[Len(ss)]
      BY <2>3 DEF FlattenSeq
    <3>2. PICK h : IsWalk(h, step, <<>>, ss)
      BY <1>1, WalkExists
    <3>3. /\ h[0] = <<>> /\ \A i \in 1 .. Len(ss) : h[i] = step[<<h[i - 1], ss[i]>>]
      BY <3>2 DEF IsWalk
    <3>4. \A i \in 0 .. Len(ss) : h[i] \in S
      BY <1>1, <3>2, WalkStays
    <3>5. \A i \in 1 .. Len(ss) : ss[i] \in S /\ i - 1 \in 0 .. Len(ss) /\ (i # 1 => i - 1 \in 1 .. Len(ss))
      BY <2>1
    <3>6. \A i \in 1 .. Len(ss) : h[i] = IF i = 1 THEN ss[i] ELSE h[i - 1] \o ss[i]
      <4> SUFFICES ASSUME NEW i \in 1 .. Len(ss)
                   PROVE  h[i] = IF i = 1 THEN ss[i] ELSE h[i - 1] \o ss[i]
        OBVIOUS
      <4>1. h[i - 1] \in S /\ ss[i] \in S
        BY <3>4, <3>5
      <4>2. h[i] = h[i - 1] \o ss[i]
        BY <1>2, <3>3, <4>1
      <4>3. i = 1 => h[i - 1] = <<>>
        BY <3>3
      <4> QED BY <1>3, <4>1, <4>2, <4>3
    <3> DEFINE g == [i \in 1 .. Len(ss) |-> h[i]]
    <3>7. \A i \in 1 .. Len(ss) : g[i] = IF i = 1 THEN ss[i] ELSE g[i - 1] \o ss[i]
      BY <3>5, <3>6
    <3>8. g = [i \in 1 .. Len(ss) |-> g[i]]
      OBVIOUS
    <3> HIDE DEF g
    <3>9. F(g)
      BY <3>7, <3>8
    <3>10. F(flat)
      <4>1. \E f : F(f)
        BY <3>9
      <4> HIDE DEF F
      <4> QED BY <4>1, Zenon DEF flat
    <3> DEFINE f == [i \in 0 .. Len(ss) |-> IF i = 0 THEN <<>> ELSE flat[i]]
    <3>11. \A i \in 1 .. Len(ss) : flat[i] = IF i = 1 THEN ss[i] ELSE flat[i - 1] \o ss[i]
      BY <3>10
    <3> HIDE DEF F, flat
    <3>12. f[0] = <<>> /\ f[Len(ss)] = flat[Len(ss)]
      BY <2>1, <2>3
    <3>13. ASSUME NEW i \in 1 .. Len(ss), f[i - 1] \in S PROVE f[i] = step[<<f[i - 1], ss[i]>>]
      <4>1. f[i] = flat[i] /\ f[i - 1] = IF i = 1 THEN <<>> ELSE flat[i - 1]
        BY <2>1, <3>5
      <4>2. f[i] = f[i - 1] \o ss[i]
        BY <1>3, <3>5, <3>11, <4>1
      <4> HIDE DEF f
      <4> QED BY <1>2, <3>5, <3>13, <4>2
    <3> HIDE DEF f
    <3>14. Obeys(f, S, step, <<>>, ss, Len(ss))
      BY <3>12, <3>13 DEF Obeys
    <3>15. f[Len(ss)] = Walked(step, <<>>, ss)
      BY <1>1, <3>14, WalkedIsEnd
    <3> QED BY <3>1, <3>12, <3>15
  <2> QED BY <2>2, <2>3
<1>5. FlattenSeq(<<>>) = <<>>
  BY DEF FlattenSeq
<1>6. \A ss \in Seq(S) : FlattenSeq(ss) \in S
  BY <1>1, <1>4, WalkedSteps
<1>7. ASSUME NEW ss \in Seq(S), NEW s \in S
      PROVE  FlattenSeq(Append(ss, s)) = FlattenSeq(ss) \o s
  <2>1. Append(ss, s) \in Seq(S)
    OBVIOUS
  <2>2. Walked(step, <<>>, Append(ss, s)) = step[<<Walked(step, <<>>, ss), s>>]
    BY <1>1, WalkedSteps
  <2>3. Walked(step, <<>>, ss) \in S
    BY <1>1, WalkedSteps
  <2> QED BY <1>2, <1>4, <2>1, <2>2, <2>3
<1> QED BY <1>5, <1>6, <1>7 DEF S

LEMMA FlatLaws ==
  ASSUME NEW X, NEW Y, NEW op \in [X -> Seq(Y)]
  PROVE  /\ Flat(op, <<>>) = <<>>
         /\ \A s \in Seq(X) : Flat(op, s) \in Seq(Y)
         /\ \A s \in Seq(X) : \A e \in X : Flat(op, Append(s, e)) = Flat(op, s) \o op[e]
<1> DEFINE pieces(s) == [i \in DOMAIN s |-> op[s[i]]]
           S == Seq(Y)
<1>1. \A x \in X : op[x] \in S
  OBVIOUS
<1>2. \A s : Flat(op, s) = FlattenSeq(pieces(s))
  BY DEF Flat
<1>3. pieces(<<>>) = <<>>
  OBVIOUS
<1>4. FlattenSeq(<<>>) = <<>> /\ \A ss \in Seq(S) : FlattenSeq(ss) \in S
  BY FlattenLaws
<1>5. \A ss \in Seq(S) : \A s \in S : FlattenSeq(Append(ss, s)) = FlattenSeq(ss) \o s
  BY FlattenLaws
<1> HIDE DEF S
<1>6. ASSUME NEW s \in Seq(X) PROVE pieces(s) \in Seq(S)
  BY <1>1
<1>7. ASSUME NEW s \in Seq(X), NEW e \in X PROVE pieces(Append(s, e)) = Append(pieces(s), op[e])
  <2>1. Append(s, e) \in Seq(X) /\ Len(s) \in Nat /\ Len(Append(s, e)) = Len(s) + 1
    OBVIOUS
  <2>2. DOMAIN s = 1 .. Len(s) /\ DOMAIN Append(s, e) = 1 .. Len(s) + 1
    BY <2>1
  <2> DEFINE p == pieces(s)
  <2>3. p \in Seq(S) /\ Len(p) = Len(s)
    <3>1. p = [i \in 1 .. Len(s) |-> op[s[i]]]
      BY <2>2
    <3>2. p \in Seq(S)
      BY <1>6
    <3>3. DOMAIN p = 1 .. Len(s)
      BY <3>1
    <3> HIDE DEF p
    <3> QED BY <2>1, <3>2, <3>3
  <2>4. Append(p, op[e]) = [i \in 1 .. Len(s) + 1 |-> IF i <= Len(s) THEN p[i] ELSE op[e]]
    <3> HIDE DEF p
    <3>1. op[e] \in S
      BY <1>1
    <3> QED BY <2>1, <2>3, <3>1
  <2>5. \A i \in 1 .. Len(s) + 1 : Append(s, e)[i] = IF i <= Len(s) THEN s[i] ELSE e
    <3> DEFINE t == Append(s, e)
    <3>1. (\A i \in 1 .. Len(s) : t[i] = s[i]) /\ t[Len(s) + 1] = e
      OBVIOUS
    <3> HIDE DEF t
    <3>2. \A i \in 1 .. Len(s) + 1 : i \in 1 .. Len(s) \/ (i = Len(s) + 1 /\ ~(i <= Len(s)))
      BY <2>1
    <3>3. \A i \in 1 .. Len(s) : i <= Len(s)
      BY <2>1
    <3>4. \A i \in 1 .. Len(s) + 1 : t[i] = IF i <= Len(s) THEN s[i] ELSE e
      BY <3>1, <3>2, <3>3
    <3> QED BY <3>4 DEF t
  <2> QED BY <2>1, <2>2, <2>4, <2>5
<1> HIDE DEF pieces
<1>8. Flat(op, <<>>) = <<>>
  BY <1>2, <1>3, <1>4
<1>9. \A s \in Seq(X) : Flat(op, s) \in S
  BY <1>2, <1>4, <1>6
<1>10. ASSUME NEW s \in Seq(X), NEW e \in X PROVE Flat(op, Append(s, e)) = Flat(op, s) \o op[e]
  <2>1. Flat(op, Append(s, e)) = FlattenSeq(Append(pieces(s), op[e]))
    BY <1>2, <1>7
  <2>2. Flat(op, s) = FlattenSeq(pieces(s))
    BY <1>2
  <2> QED BY <1>1, <1>5, <1>6, <2>1, <2>2
<1> QED BY <1>8, <1>9, <1>10 DEF S

\* Each element of X gives a list over Y.
Gives(X, Y, op) == op \in [X -> Seq(Y)]

\* What two lists give together is what they give one after the other.
LEMMA FlatOver ==
  ASSUME NEW X, NEW Y, NEW op, Gives(X, Y, op), NEW s \in Seq(X), NEW t \in Seq(X)
  PROVE  Flat(op, s \o t) = Flat(op, s) \o Flat(op, t)
<1> DEFINE S == Seq(Y)
           T == {u \in Seq(X) : Flat(op, s \o u) = Flat(op, s) \o Flat(op, u)}
<1>1. /\ Flat(op, <<>>) = <<>>
      /\ \A u \in Seq(X) : Flat(op, u) \in S
      /\ \A u \in Seq(X) : \A e \in X : Flat(op, Append(u, e)) = Flat(op, u) \o op[e]
  BY FlatLaws DEF Gives
<1>2. \A x \in X : op[x] \in S
  BY DEF Gives
<1>3. \A a, b, c \in S : (a \o b) \o c = a \o (b \o c)
  OBVIOUS
<1>4. \A a \in S : a \o <<>> = a
  OBVIOUS
<1>5. <<>> \in T
  <2>1. s \o <<>> = s /\ <<>> \in Seq(X)
    OBVIOUS
  <2>2. Flat(op, s) \in S
    BY <1>1
  <2> QED BY <1>1, <1>4, <2>1, <2>2
<1>6. ASSUME NEW u \in T, NEW e \in X PROVE Append(u, e) \in T
  <2>1. u \in Seq(X) /\ Flat(op, s \o u) = Flat(op, s) \o Flat(op, u)
    OBVIOUS
  <2>2. s \o Append(u, e) = Append(s \o u, e) /\ s \o u \in Seq(X) /\ Append(u, e) \in Seq(X)
    BY <2>1
  <2>3. Flat(op, s \o Append(u, e)) = Flat(op, s \o u) \o op[e]
    BY <1>1, <2>2
  <2>4. Flat(op, Append(u, e)) = Flat(op, u) \o op[e]
    BY <1>1, <2>1
  <2>5. Flat(op, s) \in S /\ Flat(op, u) \in S
    BY <1>1, <2>1
  <2>6. (Flat(op, s) \o Flat(op, u)) \o op[e] = Flat(op, s) \o (Flat(op, u) \o op[e])
    BY <1>2, <1>3, <2>5
  <2>7. Flat(op, s \o Append(u, e)) = Flat(op, s) \o Flat(op, Append(u, e))
    BY <2>1, <2>3, <2>4, <2>6, Zenon
  <2> QED BY <2>2, <2>7
<1>7. T \in SUBSET Seq(X)
  OBVIOUS
<1> HIDE DEF T
<1>8. T = Seq(X)
  BY <1>5, <1>6, <1>7, SeqInduction
<1> QED BY <1>8 DEF T

\* h gives of an element what g gives of all that f gives of it.
Composed(X, Y, Z, f, g, h) ==
  /\ f \in [X -> Seq(Y)] /\ g \in [Y -> Seq(Z)] /\ h \in [X -> Seq(Z)]
  /\ \A x \in X : h[x] = Flat(g, f[x])

\* Two passes over a list are one.
LEMMA FlatTwice ==
  ASSUME NEW X, NEW Y, NEW Z, NEW f, NEW g, NEW h, Composed(X, Y, Z, f, g, h),
         NEW s \in Seq(X)
  PROVE  Flat(g, Flat(f, s)) = Flat(h, s)
<1>9. f \in [X -> Seq(Y)] /\ g \in [Y -> Seq(Z)] /\ h \in [X -> Seq(Z)]
  BY DEF Composed
<1> DEFINE T == {u \in Seq(X) : Flat(g, Flat(f, u)) = Flat(h, u)}
<1>1. /\ Flat(f, <<>>) = <<>>
      /\ \A u \in Seq(X) : Flat(f, u) \in Seq(Y)
      /\ \A u \in Seq(X) : \A e \in X : Flat(f, Append(u, e)) = Flat(f, u) \o f[e]
  BY <1>9, FlatLaws
<1>2. /\ Flat(h, <<>>) = <<>>
      /\ \A u \in Seq(X) : \A e \in X : Flat(h, Append(u, e)) = Flat(h, u) \o h[e]
  BY <1>9, FlatLaws
<1>3. Flat(g, <<>>) = <<>>
  BY <1>9, FlatLaws
<1>8. \A a, b \in Seq(Y) : Flat(g, a \o b) = Flat(g, a) \o Flat(g, b)
  BY <1>9, FlatOver DEF Gives
<1>4. <<>> \in T
  BY <1>1, <1>2, <1>3
<1>5. ASSUME NEW u \in T, NEW e \in X PROVE Append(u, e) \in T
  <2>1. u \in Seq(X) /\ Flat(g, Flat(f, u)) = Flat(h, u) /\ Append(u, e) \in Seq(X)
    OBVIOUS
  <2>2. Flat(f, u) \in Seq(Y) /\ f[e] \in Seq(Y)
    BY <1>1, <1>9, <2>1
  <2>3. Flat(g, Flat(f, u) \o f[e]) = Flat(g, Flat(f, u)) \o Flat(g, f[e])
    BY <1>8, <2>2
  <2>4. Flat(f, Append(u, e)) = Flat(f, u) \o f[e]
    BY <1>1, <2>1
  <2>5. Flat(h, Append(u, e)) = Flat(h, u) \o h[e]
    BY <1>2, <2>1
  <2>6. h[e] = Flat(g, f[e])
    BY DEF Composed
  <2> QED BY <2>1, <2>3, <2>4, <2>5, <2>6
<1>6. T \in SUBSET Seq(X)
  OBVIOUS
<1> HIDE DEF T
<1>7. T = Seq(X)
  BY <1>4, <1>5, <1>6, SeqInduction
<1> QED BY <1>7 DEF T

LEMMA FlatAppend ==
  ASSUME NEW X, NEW Y, NEW op, Gives(X, Y, op), NEW s \in Seq(X), NEW e \in X
  PROVE  Flat(op, Append(s, e)) = Flat(op, s) \o op[e]
<1>1. op \in [X -> Seq(Y)]
  BY DEF Gives
<1>2. \A t \in Seq(X) : \A x \in X : Flat(op, Append(t, x)) = Flat(op, t) \o op[x]
  BY <1>1, FlatLaws
<1> QED BY <1>2

LEMMA FlatOfOne ==
  ASSUME NEW X, NEW Y, NEW op, Gives(X, Y, op), NEW x \in X
  PROVE  Flat(op, <<x>>) = op[x]
<1>5. op \in [X -> Seq(Y)] /\ <<>> \in Seq(X)
  BY DEF Gives
<1>6. /\ Flat(op, <<>>) = <<>>
      /\ \A s \in Seq(X) : \A e \in X : Flat(op, Append(s, e)) = Flat(op, s) \o op[e]
  BY <1>5, FlatLaws
<1>1. Flat(op, <<>>) = <<>> /\ Flat(op, Append(<<>>, x)) = Flat(op, <<>>) \o op[x]
  BY <1>5, <1>6
<1>2. <<x>> = Append(<<>>, x)
  OBVIOUS
<1>3. \A s \in Seq(Y) : <<>> \o s = s
  OBVIOUS
<1>4. op[x] \in Seq(Y)
  BY DEF Gives
<1> QED BY <1>1, <1>2, <1>3, <1>4

LEMMA FlatOfTwo ==
  ASSUME NEW X, NEW Y, NEW op, Gives(X, Y, op), NEW x \in X, NEW y \in X
  PROVE  Flat(op, <<x, y>>) = op[x] \o op[y]
<1>1. <<x>> \in Seq(X) /\ <<x, y>> = Append(<<x>>, y)
  OBVIOUS
<1>3. op \in [X -> Seq(Y)]
  BY DEF Gives
<1>4. \A s \in Seq(X) : \A e \in X : Flat(op, Append(s, e)) = Flat(op, s) \o op[e]
  BY <1>3, FlatLaws
<1>2. Flat(op, Append(<<x>>, y)) = Flat(op, <<x>>) \o op[y]
  BY <1>1, <1>4
<1> QED BY <1>1, <1>2, FlatOfOne

-----------------------------------------------------------------------------
(* Few elements.                                                           *)

\* A sequence over S holds members of S.
LEMMA ElementsIn ==
  ASSUME NEW S, NEW s \in Seq(S)
  PROVE  \A i \in 1 .. Len(s) : s[i] \in S
OBVIOUS

\* A tuple is what it is, whatever its members are.
LEMMA TwoTogether ==
  ASSUME NEW x, NEW y
  PROVE  Append(<<x>>, y) = <<x, y>>
<1>1. PICK S : x \in S /\ y \in S
  <2> WITNESS {x, y}
  <2> QED OBVIOUS
<1>2. <<x, y>> = Append(<<x>>, y)
  BY <1>1
<1> QED BY <1>2

\* And so is one of three.
LEMMA ThreeTogether ==
  ASSUME NEW x, NEW y, NEW z
  PROVE  Append(<<x, y>>, z) = <<x, y, z>>
<1>1. PICK S : x \in S /\ y \in S /\ z \in S
  <2> WITNESS {x, y, z}
  <2> QED OBVIOUS
<1>2. <<x, y, z>> = Append(<<x, y>>, z)
  BY <1>1
<1> QED BY <1>2

-----------------------------------------------------------------------------
(* A filter: what of X is in Y.                                            *)

In(X, Y) == [x \in X |-> IF x \in Y THEN <<x>> ELSE <<>>]

\* Testing a member gives it, or nothing.
LEMMA InGives ==
  ASSUME NEW X, NEW Y \in SUBSET X
  PROVE  Gives(X, Y, In(X, Y)) /\ Gives(X, X, In(X, Y))
<1>1. \A x \in X : In(X, Y)[x] = IF x \in Y THEN <<x>> ELSE <<>>
  BY DEF In
<1>2. \A y \in Y : <<y>> \in Seq(Y) /\ <<y>> \in Seq(X)
  OBVIOUS
<1>3. <<>> \in Seq(Y) /\ <<>> \in Seq(X)
  OBVIOUS
<1>4. \A x \in X : In(X, Y)[x] \in Seq(Y) /\ In(X, Y)[x] \in Seq(X)
  BY <1>1, <1>2, <1>3
<1>5. In(X, Y) = [x \in X |-> In(X, Y)[x]]
  BY DEF In
<1> QED BY <1>4, <1>5 DEF Gives

\* What a filter keeps: all of Y, nothing of the rest, part by part.
LEMMA FilterLaws ==
  ASSUME NEW X, NEW Y \in SUBSET X
  PROVE  /\ Flat(In(X, Y), <<>>) = <<>>
         /\ \A s \in Seq(X) : Flat(In(X, Y), s) \in Seq(Y)
         /\ \A s \in Seq(Y) : Flat(In(X, Y), s) = s
         /\ \A s \in Seq(X \ Y) : Flat(In(X, Y), s) = <<>>
         /\ \A s, t \in Seq(X) : Flat(In(X, Y), s \o t) = Flat(In(X, Y), s) \o Flat(In(X, Y), t)
<1> DEFINE op == In(X, Y)
<1>1. Gives(X, Y, op) /\ op \in [X -> Seq(Y)]
  BY InGives DEF Gives
<1>2. \A x \in X : op[x] = IF x \in Y THEN <<x>> ELSE <<>>
  BY DEF In
<1> HIDE DEF op
<1>3. /\ Flat(op, <<>>) = <<>>
      /\ \A s \in Seq(X) : Flat(op, s) \in Seq(Y)
      /\ \A s \in Seq(X) : \A e \in X : Flat(op, Append(s, e)) = Flat(op, s) \o op[e]
  BY <1>1, FlatLaws
<1>4. \A s \in Seq(Y) : s \in Seq(X) /\ Flat(op, s) = s
  <2> DEFINE T == {s \in Seq(Y) : s \in Seq(X) /\ Flat(op, s) = s}
  <2>1. <<>> \in T
    BY <1>3
  <2>2. ASSUME NEW s \in T, NEW e \in Y PROVE Append(s, e) \in T
    <3>1. s \in Seq(Y) /\ s \in Seq(X) /\ Flat(op, s) = s /\ e \in X
      OBVIOUS
    <3>2. Append(s, e) \in Seq(Y) /\ Append(s, e) \in Seq(X) /\ Append(s, e) = s \o <<e>>
      BY <3>1
    <3>3. op[e] = <<e>>
      BY <1>2, <3>1
    <3> QED BY <1>3, <3>1, <3>2, <3>3
  <2>3. T \in SUBSET Seq(Y)
    OBVIOUS
  <2> HIDE DEF T
  <2>4. T = Seq(Y)
    BY <2>1, <2>2, <2>3, SeqInduction
  <2> QED BY <2>4 DEF T
<1>5. \A s \in Seq(X \ Y) : s \in Seq(X) /\ Flat(op, s) = <<>>
  <2> DEFINE Z == X \ Y
             T == {s \in Seq(Z) : s \in Seq(X) /\ Flat(op, s) = <<>>}
  <2>1. <<>> \in T
    BY <1>3
  <2>2. ASSUME NEW s \in T, NEW e \in Z PROVE Append(s, e) \in T
    <3>1. s \in Seq(Z) /\ s \in Seq(X) /\ Flat(op, s) = <<>> /\ e \in X /\ e \notin Y
      OBVIOUS
    <3>2. op[e] = <<>>
      BY <1>2, <3>1
    <3> HIDE DEF Z
    <3>3. Append(s, e) \in Seq(Z) /\ Append(s, e) \in Seq(X) /\ <<>> \o <<>> = <<>>
      BY <3>1
    <3> QED BY <1>3, <3>1, <3>2, <3>3
  <2>3. T \in SUBSET Seq(Z)
    OBVIOUS
  <2> HIDE DEF T, Z
  <2>4. T = Seq(Z)
    BY <2>1, <2>2, <2>3, SeqInduction
  <2> QED BY <2>4 DEF T, Z
<1>6. \A s, t \in Seq(X) : Flat(op, s \o t) = Flat(op, s) \o Flat(op, t)
  BY <1>1, FlatOver
<1> QED BY <1>3, <1>4, <1>5, <1>6 DEF op

\* Filtering neither invents nor loses what is asked for.
LEMMA FilterHas ==
  ASSUME NEW X, NEW Y \in SUBSET X, NEW s \in Seq(X)
  PROVE  /\ \A i \in 1 .. Len(s) : s[i] \in Y => Flat(In(X, Y), s) # <<>>
         /\ \A k \in 1 .. Len(Flat(In(X, Y), s)) : \E i \in 1 .. Len(s) : s[i] = Flat(In(X, Y), s)[k]
<1> DEFINE op == In(X, Y)
           Has(u) == /\ \A i \in 1 .. Len(u) : u[i] \in Y => Flat(op, u) # <<>>
                     /\ \A k \in 1 .. Len(Flat(op, u)) : \E i \in 1 .. Len(u) : u[i] = Flat(op, u)[k]
           T == {u \in Seq(X) : Has(u)}
<1>1. Gives(X, Y, op) /\ op \in [X -> Seq(Y)]
  BY InGives DEF Gives
<1>2. \A x \in X : op[x] = IF x \in Y THEN <<x>> ELSE <<>>
  BY DEF In
<1> HIDE DEF op
<1>3. /\ Flat(op, <<>>) = <<>>
      /\ \A u \in Seq(X) : Flat(op, u) \in Seq(Y)
      /\ \A u \in Seq(X) : \A e \in X : Flat(op, Append(u, e)) = Flat(op, u) \o op[e]
  BY <1>1, FlatLaws
<1>4. <<>> \in T
  BY <1>3
<1>5. ASSUME NEW u \in T, NEW e \in X PROVE Append(u, e) \in T
  <2> DEFINE v == Append(u, e)
             f == Flat(op, u)
             g == Flat(op, v)
  <2>1. /\ v \in Seq(X) /\ u \in Seq(X) /\ Len(u) \in Nat /\ Len(v) = Len(u) + 1
        /\ \A i \in 1 .. Len(u) : v[i] = u[i]
        /\ v[Len(u) + 1] = e
    OBVIOUS
  <2>2. f \in Seq(Y) /\ g = f \o op[e]
    BY <1>3, <2>1
  <2>3. Has(u)
    OBVIOUS
  <2> HIDE DEF v, g, f
  <2>4. \A i \in 1 .. Len(u) : i \in 1 .. Len(v)
    BY <2>1
  <2>5. CASE e \in Y
    <3>1. g = f \o <<e>>
      BY <1>2, <2>2, <2>5
    <3>2. /\ Len(f) \in Nat /\ Len(g) = Len(f) + 1 /\ g # <<>>
          /\ \A k \in 1 .. Len(f) : g[k] = f[k]
          /\ g[Len(f) + 1] = e
      BY <2>2, <3>1, <2>5
    <3>3. ASSUME NEW k \in 1 .. Len(g) PROVE \E i \in 1 .. Len(v) : v[i] = g[k]
      <4>1. CASE k \in 1 .. Len(f)
        <5>1. PICK i \in 1 .. Len(u) : u[i] = f[k]
          BY <2>3, <4>1 DEF f
        <5> QED BY <2>1, <2>4, <3>2, <4>1, <5>1
      <4>2. CASE k = Len(f) + 1
        <5>1. Len(u) + 1 \in 1 .. Len(v)
          BY <2>1
        <5> QED BY <2>1, <3>2, <4>2, <5>1
      <4> QED BY <3>2, <4>1, <4>2
    <3>4. Has(v)
      BY <3>2, <3>3 DEF g
    <3> QED BY <2>1, <3>4 DEF v
  <2>6. CASE e \notin Y
    <3>1. g = f
      <4>1. op[e] = <<>>
        BY <1>2, <2>6
      <4> QED BY <2>2, <4>1
    <3>2. ASSUME NEW i \in 1 .. Len(v), v[i] \in Y PROVE g # <<>>
      <4>1. i # Len(u) + 1
        BY <2>1, <2>6, <3>2
      <4>2. i \in 1 .. Len(u) /\ u[i] \in Y
        BY <2>1, <3>2, <4>1
      <4> QED BY <2>3, <3>1, <4>2 DEF f
    <3>3. ASSUME NEW k \in 1 .. Len(g) PROVE \E i \in 1 .. Len(v) : v[i] = g[k]
      <4>1. PICK i \in 1 .. Len(u) : u[i] = f[k]
        BY <2>3, <3>1 DEF f
      <4> QED BY <2>1, <2>4, <3>1, <4>1
    <3>4. Has(v)
      BY <3>2, <3>3 DEF g
    <3> QED BY <2>1, <3>4 DEF v
  <2> QED BY <2>5, <2>6
<1>6. T \in SUBSET Seq(X)
  OBVIOUS
<1> HIDE DEF T
<1>7. T = Seq(X)
  BY <1>4, <1>5, <1>6, SeqInduction
<1> QED BY <1>7 DEF T, op
===============================================================================
