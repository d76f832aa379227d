-------------------------- MODULE Compaction_proofs --------------------------
(***************************************************************************)
(* For every value of the constants: whatever a cut keeps begins with no   *)
(* tool result, the tail of the default cut is within its budget, and what *)
(* is merged into a summary keeps its promises: the instructions of the    *)
(* active skills once, and no line of the brief dropped unsaid.            *)
(***************************************************************************)
EXTENDS Compaction, Induction, FiniteSetTheorems, TLAPS

Kinds == MessageKinds \cup {"header", "comp", "custom"}
Held == {m.v : m \in Asks \cup Says \cup Calls} \cup {""}
Stored == [k : Kinds, id : Nat, v : Held, size : Nat, kept : Nat]

Typed == entries \in Seq(Stored) /\ entries # <<>> /\ nextId \in Nat
Inv == Typed /\ entries[1].k = "header" /\ PairsKept

\* A place to cut at: behind start, and at no tool result.
Place(es, start, cut) ==
  cut \in start + 1 .. Len(es) + 1 /\ (cut <= Len(es) => es[cut].k # "tool")

-----------------------------------------------------------------------------
(* Smallest and largest members.                                           *)

LEMMA LargestIn ==
  ASSUME NEW b \in Nat, NEW S \in SUBSET (0 .. b), S # {}
  PROVE  Max(S) \in S /\ \A y \in S : Max(S) >= y
<1>1. \E x \in S : \A y \in S : x >= y
  BY LargestExists
<1> QED BY <1>1 DEF Max

LEMMA SmallestIn ==
  ASSUME NEW b \in Nat, NEW S \in SUBSET (0 .. b), S # {}
  PROVE  Min(S) \in S /\ \A y \in S : Min(S) <= y
<1> DEFINE R == {b - x : x \in S}
<1>1. PICK r \in R : \A y \in R : r >= y
  <2>1. R \in SUBSET (0 .. b) /\ R # {}
    <3>1. \A x \in S : b - x \in 0 .. b
      BY SMT
    <3>2. PICK x \in S : TRUE
      OBVIOUS
    <3>3. b - x \in R
      BY <3>2
    <3> QED BY <3>1, <3>3
  <2> QED BY <2>1, LargestExists
<1>2. PICK x \in S : r = b - x
  BY <1>1
<1>3. ASSUME NEW y \in S PROVE x <= y
  <2>1. b - y \in R
    OBVIOUS
  <2>2. r >= b - y
    BY <1>1, <2>1
  <2>3. x \in Nat /\ y \in Nat
    OBVIOUS
  <2> HIDE DEF R
  <2> QED BY <1>2, <2>2, <2>3
<1>4. \E z \in S : \A y \in S : z <= y
  BY <1>3
<1> QED BY <1>4 DEF Min

-----------------------------------------------------------------------------
(* A total is made up element by element from the newest.                  *)

LEMMA TotalSteps ==
  ASSUME NEW w \in Seq(Nat)
  PROVE  /\ TotalFrom(w, Len(w) + 1) = 0
         /\ \A i \in 1 .. Len(w) : TotalFrom(w, i) \in Nat
         /\ \A i \in 1 .. Len(w) : TotalFrom(w, i) = w[i] + TotalFrom(w, i + 1)
<1> DEFINE n == Len(w)
           r == [i \in 1 .. n |-> w[n + 1 - i]]
           step == [q \in Nat \X Nat |-> q[1] + q[2]]
           F(g) == g = [i \in 0 .. n |-> IF i = 0 THEN 0 ELSE g[i - 1] + w[n + 1 - i]]
           newest == CHOOSE g : F(g)
<1>1. n \in Nat /\ \A i \in 1 .. n : w[i] \in Nat
  OBVIOUS
<1>2. \A i : TotalFrom(w, i) = newest[n + 1 - i]
  BY DEF TotalFrom
<1> HIDE DEF newest, n
<1>3. r \in Seq(Nat) /\ Len(r) = n
  BY <1>1
<1>4. step \in Steps(Nat, Nat) /\ \A a \in Nat, b \in Nat : step[<<a, b>>] = a + b
  BY DEF Steps
<1> HIDE DEF step
<1> PICK h : IsWalk(h, step, 0, r)
  BY <1>3, <1>4, WalkExists
<1>5. \A i \in 0 .. n : h[i] \in Nat
  <2> HIDE DEF r
  <2> QED BY <1>3, <1>4, WalkStays
<1>6. h[0] = 0 /\ \A i \in 1 .. n : h[i] = h[i - 1] + w[n + 1 - i]
  <2>1. h[0] = 0 /\ \A i \in 1 .. n : h[i] = step[<<h[i - 1], r[i]>>]
    BY <1>3 DEF IsWalk
  <2>2. ASSUME NEW i \in 1 .. n PROVE h[i] = h[i - 1] + w[n + 1 - i]
    <3>1. i - 1 \in 0 .. n /\ n + 1 - i \in 1 .. n
      BY <1>1
    <3>2. r[i] = w[n + 1 - i] /\ r[i] \in Nat
      BY <1>1, <3>1
    <3>3. h[i - 1] \in Nat
      BY <1>5, <3>1
    <3>4. h[i] = step[<<h[i - 1], r[i]>>]
      BY <2>1
    <3> HIDE DEF r
    <3> QED BY <1>4, <3>2, <3>3, <3>4
  <2> QED BY <2>1, <2>2
<1>7. F([i \in 0 .. n |-> h[i]])
  <2> DEFINE g == [i \in 0 .. n |-> h[i]]
  <2>1. \A i \in 0 .. n : g[i] = IF i = 0 THEN 0 ELSE g[i - 1] + w[n + 1 - i]
    BY <1>1, <1>6
  <2>2. g = [i \in 0 .. n |-> g[i]]
    OBVIOUS
  <2> HIDE DEF g
  <2>3. F(g)
    BY <2>1, <2>2
  <2> QED BY <2>3 DEF g
<1>8. F(newest)
  <2>1. \E g : F(g)
    BY <1>7
  <2> HIDE DEF F
  <2> QED BY <2>1, Zenon DEF newest
<1>9. newest[0] = 0
  BY <1>1, <1>8
<1>10. ASSUME NEW i \in 1 .. n PROVE newest[i] = newest[i - 1] + w[n + 1 - i]
  <2>1. i \in 0 .. n /\ i # 0
    BY <1>1
  <2> QED BY <1>8, <2>1
<1> HIDE DEF F
<1>11. \A i \in 0 .. n : newest[i] \in Nat
  <2> DEFINE T == {i \in Nat : i <= n => newest[i] \in Nat}
  <2>1. 0 \in T
    BY <1>9
  <2>2. ASSUME NEW i \in T PROVE i + 1 \in T
    <3> SUFFICES ASSUME i + 1 <= n PROVE newest[i + 1] \in Nat
      OBVIOUS
    <3>1. i + 1 \in 1 .. n /\ n + 1 - (i + 1) \in 1 .. n /\ (i + 1) - 1 = i /\ i <= n
      BY <1>1
    <3>2. newest[i + 1] = newest[i] + w[n + 1 - (i + 1)]
      BY <1>10, <3>1
    <3>3. newest[i] \in Nat /\ w[n + 1 - (i + 1)] \in Nat
      BY <1>1, <3>1
    <3> QED BY <3>2, <3>3
  <2> HIDE DEF T
  <2>3. T = Nat
    BY <2>1, <2>2, SetInduction DEF T
  <2> QED BY <1>1, <2>3 DEF T
<1>12. TotalFrom(w, n + 1) = 0
  <2>1. n + 1 - (n + 1) = 0
    BY <1>1
  <2> QED BY <1>2, <1>9, <2>1
<1>13. ASSUME NEW i \in 1 .. n
       PROVE  /\ TotalFrom(w, i) \in Nat
              /\ TotalFrom(w, i) = w[i] + TotalFrom(w, i + 1)
  <2>1. /\ n + 1 - i \in 0 .. n /\ n + 1 - i \in 1 .. n
        /\ n + 1 - (i + 1) = (n + 1 - i) - 1 /\ n + 1 - (n + 1 - i) = i
        /\ n + 1 - (i + 1) \in 0 .. n
    BY <1>1
  <2>2. newest[n + 1 - i] = newest[n + 1 - (i + 1)] + w[i]
    BY <1>10, <2>1
  <2>3. newest[n + 1 - (i + 1)] \in Nat /\ newest[n + 1 - i] \in Nat /\ w[i] \in Nat
    BY <1>1, <1>11, <2>1
  <2> QED BY <1>2, <2>2, <2>3
<1> QED BY <1>12, <1>13 DEF n

LEMMA TokensTyped ==
  ASSUME NEW es \in Seq(Stored)
  PROVE  /\ \A i \in 1 .. Len(es) : TokensFrom(es, i) \in Nat
         /\ es # <<>> => TokensFrom(es, Len(es)) = Tokens(es[Len(es)])
<1> DEFINE w == [j \in 1 .. Len(es) |-> Tokens(es[j])]
<1>1. Len(es) \in Nat /\ \A j \in 1 .. Len(es) : es[j] \in Stored
  <2> HIDE DEF Stored
  <2> QED OBVIOUS
<1>2. \A j \in 1 .. Len(es) : Tokens(es[j]) \in Nat
  BY <1>1 DEF Tokens, Stored
<1>3. w \in Seq(Nat) /\ Len(w) = Len(es)
  BY <1>1, <1>2
<1>4. \A i : TokensFrom(es, i) = TotalFrom(w, i)
  BY DEF TokensFrom
<1>5. \A j \in 1 .. Len(es) : w[j] = Tokens(es[j])
  OBVIOUS
<1> HIDE DEF w
<1>6. ASSUME es # <<>> PROVE TokensFrom(es, Len(es)) = Tokens(es[Len(es)])
  <2>1. Len(es) \in 1 .. Len(es)
    BY <1>6
  <2> QED BY <1>2, <1>3, <1>4, <1>5, <2>1, TotalSteps
<1> QED BY <1>3, <1>4, <1>6, TotalSteps

\* Tokens of text are tokens of an entry that may be cut at.
LEMMA SomeCounted ==
  ASSUME NEW es \in Seq(Stored), NEW start \in 1 .. Len(es), LlmTokensFrom(es, start) > 0
  PROVE  Where(es, start, Counted) # {}
<1> DEFINE w == [j \in 1 .. Len(es) |-> LlmTokens(es[j])]
           T == {i \in start .. Len(es) : LlmTokensFrom(es, i) > 0}
<1>1. Len(es) \in Nat /\ \A j \in 1 .. Len(es) : es[j] \in Stored
  <2> HIDE DEF Stored
  <2> QED OBVIOUS
<1>2. \A j \in 1 .. Len(es) : LlmTokens(es[j]) \in Nat
  BY <1>1 DEF LlmTokens, Stored
<1>3. w \in Seq(Nat) /\ Len(w) = Len(es)
  BY <1>1, <1>2
<1>4. \A i : LlmTokensFrom(es, i) = TotalFrom(w, i)
  BY DEF LlmTokensFrom
<1>5. \A j \in 1 .. Len(es) : w[j] = LlmTokens(es[j])
  OBVIOUS
<1> HIDE DEF w
<1>6. /\ LlmTokensFrom(es, Len(es) + 1) = 0
      /\ \A i \in 1 .. Len(es) :
           LlmTokensFrom(es, i) = LlmTokens(es[i]) + LlmTokensFrom(es, i + 1)
  BY <1>3, <1>4, <1>5, TotalSteps
<1>7. PICK x \in T : \A y \in T : x >= y
  <2>1. T \in SUBSET (0 .. Len(es)) /\ T # {}
    BY <1>1
  <2> HIDE DEF T
  <2> QED BY <1>1, <2>1, LargestExists
<1>8. x + 1 \notin T /\ x \in 1 .. Len(es) /\ x >= start
  <2>1. x \in Nat /\ ~(x >= x + 1)
    BY <1>1
  <2>2. x + 1 \notin T
    <3> HIDE DEF T
    <3> QED BY <1>7, <2>1
  <2> QED BY <1>1, <2>2
<1>9. ~(LlmTokensFrom(es, x + 1) > 0)
  BY <1>1, <1>6, <1>8
<1>10. LlmTokens(es[x]) # 0
  <2>1. LlmTokensFrom(es, x) = LlmTokens(es[x]) + LlmTokensFrom(es, x + 1)
    BY <1>6, <1>8
  <2>2. LlmTokensFrom(es, x + 1) = 0
    <3>1. CASE x = Len(es)
      BY <1>6, <3>1
    <3>2. CASE x < Len(es)
      <4>1. x + 1 \in 1 .. Len(es)
        BY <1>1, <1>8, <3>2
      <4>2. LlmTokensFrom(es, x + 1) \in Nat
        BY <1>3, <1>4, <4>1, TotalSteps
      <4> QED BY <1>9, <4>2
    <3> QED BY <1>1, <1>8, <3>1, <3>2
  <2> QED BY <2>1, <2>2, <1>7
<1>11. x \in Where(es, start, Counted)
  BY <1>1, <1>8, <1>10 DEF Where, Counted, LlmTokens
<1> QED BY <1>11

-----------------------------------------------------------------------------
(* The operators that choose a cut.                                        *)

LEMMA StoredAt ==
  ASSUME NEW es \in Seq(Stored)
  PROVE  Len(es) \in Nat /\ \A i \in 1 .. Len(es) : es[i] \in Stored
<1> HIDE DEF Stored
<1> QED OBVIOUS

LEMMA LiveStartPlace ==
  ASSUME NEW es \in Seq(Stored), es # <<>>
  PROVE  LiveStart(es) \in 1 .. Len(es) + 1
<1> DEFINE comps == Where(es, 1, LAMBDA e : e.k = "comp")
           kept == Where(es, 1, LAMBDA e : e.id = es[Max(comps)].kept)
<1>1. Len(es) \in Nat /\ Len(es) >= 1
  BY StoredAt
<1>2. comps \in SUBSET (1 .. Len(es)) /\ kept \in SUBSET (1 .. Len(es))
  BY DEF Where
<1>3. LiveStart(es) = IF comps = {} THEN 2
                      ELSE IF es[Max(comps)].kept = 0 \/ kept = {} THEN Max(comps) + 1
                      ELSE Min(kept)
  BY DEF LiveStart
<1> HIDE DEF comps, kept
<1>4. comps # {} => Max(comps) \in comps
  <2>1. comps \in SUBSET (0 .. Len(es))
    BY <1>1, <1>2
  <2> QED BY <1>1, <2>1, LargestIn
<1>5. kept # {} => Min(kept) \in kept
  <2>1. kept \in SUBSET (0 .. Len(es))
    BY <1>1, <1>2
  <2> QED BY <1>1, <2>1, SmallestIn
<1>6. comps # {} => Max(comps) \in 1 .. Len(es)
  BY <1>2, <1>4
<1>7. kept # {} => Min(kept) \in 1 .. Len(es)
  BY <1>2, <1>5
<1> QED BY <1>1, <1>3, <1>6, <1>7

LEMMA TurnsFinite ==
  ASSUME NEW es \in Seq(Stored), NEW start \in 1 .. Len(es) + 1
  PROVE  /\ UserTurns(es, start) \in SUBSET (0 .. Len(es))
         /\ Cardinality(UserTurns(es, start)) \in Nat
         /\ UserTurns(es, start) # {} => Cardinality(UserTurns(es, start)) >= 1
<1>1. UserTurns(es, start) \in SUBSET (0 .. Len(es))
  BY StoredAt DEF UserTurns, Where
<1>2. IsFiniteSet(0 .. Len(es))
  BY StoredAt, FS_Interval
<1>3. IsFiniteSet(UserTurns(es, start))
  BY <1>1, <1>2, FS_Subset
<1>4. Cardinality(UserTurns(es, start)) \in Nat
  BY <1>3, FS_CardinalityType
<1>5. UserTurns(es, start) # {} => Cardinality(UserTurns(es, start)) # 0
  BY <1>3, FS_EmptySet
<1> QED BY <1>1, <1>4, <1>5

\* Whatever is to be kept, a cut of one's own is before a user's message.
LEMMA OwnCutPlace ==
  ASSUME NEW es \in Seq(Stored), NEW start \in 1 .. Len(es) + 1, NEW keep \in Nat,
         NEW cut, cut = BuildOwnCut(es, start, keep)
  PROVE  \/ cut = TooFew \/ cut = All(es)
         \/ cut \in start + 1 .. Len(es) /\ es[cut].k = "user"
<1> DEFINE turns == UserTurns(es, start)
           few == {t \in turns : Cardinality({u \in turns : u >= t}) <= keep}
<1> SUFFICES ASSUME cut # TooFew, cut # All(es)
             PROVE  cut \in start + 1 .. Len(es) /\ es[cut].k = "user"
  OBVIOUS
<1>1. turns # {} /\ keep # 0 /\ cut = Min(few) /\ ~(cut <= start)
  BY DEF BuildOwnCut
<1>2. turns \in SUBSET (0 .. Len(es)) /\ Len(es) \in Nat
  BY TurnsFinite, StoredAt
<1>3. few # {}
  <2> HIDE DEF turns
  <2>1. PICK t \in turns : \A u \in turns : t >= u
    BY <1>1, <1>2, LargestExists
  <2>2. {u \in turns : u >= t} = {t}
    <3>1. \A u \in turns : u \in Int
      BY <1>2
    <3>2. \A u \in turns : u >= t <=> u = t
      BY <2>1, <3>1
    <3> QED BY <3>2
  <2>3. Cardinality({u \in turns : u >= t}) = 1
    BY <2>2, FS_Singleton
  <2>4. t \in few
    BY <1>1, <2>3
  <2> QED BY <2>4
<1>4. cut \in turns
  <2>1. few \in SUBSET turns
    OBVIOUS
  <2> HIDE DEF few, turns
  <2>3. few \in SUBSET (0 .. Len(es))
    BY <1>2, <2>1, Zenon
  <2>2. Min(few) \in few
    BY <1>2, <1>3, <2>3, SmallestIn
  <2> QED BY <1>1, <2>1, <2>2
<1>5. cut \in start .. Len(es) /\ es[cut].k = "user"
  BY <1>4 DEF UserTurns, Where
<1> QED BY <1>1, <1>2, <1>5

LEMMA SmartKeepCounts ==
  ASSUME NEW es \in Seq(Stored), NEW start \in 1 .. Len(es) + 1
  PROVE  ResolveSmartKeep(es, start) \in Nat /\ ResolveSmartKeep(es, start) # 0
<1> DEFINE n == Cardinality(UserTurns(es, start))
           cut(k) == BuildOwnCut(es, start, k)
           real(k) == cut(k) \notin {TooFew, All(es)}
           tail(k) == TokensFrom(es, cut(k))
           grown == {k \in 1 .. n : \A j \in 2 .. k : real(j) /\ tail(j) <= MaxSmart}
<1>1. ResolveSmartKeep(es, start) = IF ~real(1) \/ tail(1) > MinSmart THEN 1 ELSE Max(grown)
  BY DEF ResolveSmartKeep
<1>2. ASSUME real(1) PROVE Max(grown) \in Nat /\ Max(grown) # 0
  <2>1. UserTurns(es, start) # {}
    BY <1>2 DEF BuildOwnCut
  <2>2. n \in Nat /\ n >= 1
    BY <2>1, TurnsFinite
  <2> HIDE DEF n, cut
  <2>3. 1 \in grown
    BY <2>2
  <2>4. grown \in SUBSET (0 .. n) /\ grown \in SUBSET (1 .. n)
    BY <2>2
  <2> HIDE DEF grown
  <2>5. Max(grown) \in grown
    BY <2>2, <2>3, <2>4, LargestIn
  <2>6. Max(grown) \in 1 .. n
    BY <2>4, <2>5
  <2> QED BY <2>2, <2>6
<1> HIDE DEF real, tail, grown
<1> QED BY <1>1, <1>2

\* A cut by budget is at no tool result, and behind it no tail reaches the
\* budget; it fails only when the session ends with results that fill it.
LEMMA BudgetCutPlace ==
  ASSUME NEW es \in Seq(Stored), NEW start \in 1 .. Len(es) + 1, NEW budget \in Nat,
         NEW again, again = FindBudgetCut(es, start, budget)
  PROVE  /\ again # 0 => /\ again \in start + 1 .. Len(es) /\ es[again].k # "tool"
                         /\ \A i \in again + 1 .. Len(es) : TokensFrom(es, i) < budget
         /\ \A j \in start + 1 .. Len(es) : TokensFrom(es, j) >= budget =>
              IF again # 0 THEN again >= j
              ELSE \E i \in j .. Len(es) : /\ TokensFrom(es, i) >= budget
                                          /\ \A m \in i .. Len(es) : es[m].k = "tool"
<1> DEFINE crossed == {i \in start .. Len(es) : TokensFrom(es, i) >= budget}
           last == Max(crossed)
           from == Max({last, start + 1})
           bounds == Where(es, from, LAMBDA e : e.k # "tool")
<1>1. again = IF crossed = {} \/ bounds = {} THEN 0 ELSE Min(bounds)
  BY DEF FindBudgetCut
<1>2. Len(es) \in Nat /\ start \in Nat /\ start >= 1
  BY StoredAt
<1>3. CASE crossed = {}
  <2>1. again = 0
    BY <1>1, <1>3
  <2>2. \A j \in start + 1 .. Len(es) : j \in start .. Len(es)
    BY <1>2
  <2>3. \A j \in start + 1 .. Len(es) : ~(TokensFrom(es, j) >= budget)
    BY <1>3, <2>2
  <2> QED BY <2>1, <2>3
<1>4. CASE crossed # {}
  <2>1. crossed \in SUBSET (0 .. Len(es))
    BY <1>2
  <2>2. last \in crossed /\ \A y \in crossed : last >= y
    <3> HIDE DEF crossed
    <3> QED BY <1>2, <1>4, <2>1, LargestIn
  <2>3. last \in start .. Len(es) /\ TokensFrom(es, last) >= budget
    BY <2>2
  <2> HIDE DEF last
  <2>4. from = IF last > start THEN last ELSE start + 1
    <3> DEFINE S == {last, start + 1}
    <3>1. S \in SUBSET (0 .. Len(es) + 1) /\ S # {} /\ Len(es) + 1 \in Nat
      BY <1>2, <2>3
    <3>2. Max(S) \in S /\ \A y \in S : Max(S) >= y
      <4> HIDE DEF S
      <4> QED BY <3>1, LargestIn
    <3>3. from \in {last, start + 1} /\ from >= last /\ from >= start + 1
      BY <3>2
    <3> HIDE DEF from
    <3> QED BY <1>2, <2>3, <3>3
  <2>5. from \in Nat /\ from >= start + 1 /\ from >= last
    BY <1>2, <2>3, <2>4
  <2> HIDE DEF from
  <2>6. \A i \in last + 1 .. Len(es) : TokensFrom(es, i) < budget
    <3> SUFFICES ASSUME NEW i \in last + 1 .. Len(es) PROVE TokensFrom(es, i) < budget
      OBVIOUS
    <3>1. i \in start .. Len(es) /\ i \in 1 .. Len(es) /\ ~(last >= i)
      BY <1>2, <2>3
    <3>2. i \notin crossed
      <4> HIDE DEF crossed
      <4> QED BY <2>2, <3>1
    <3>3. TokensFrom(es, i) \in Nat
      BY <3>1, TokensTyped
    <3>4. ~(TokensFrom(es, i) >= budget)
      BY <3>1, <3>2
    <3> QED BY <3>3, <3>4
  <2>7. \A j \in start + 1 .. Len(es) : TokensFrom(es, j) >= budget =>
          /\ from >= j /\ from = last /\ last \in j .. Len(es)
    <3> SUFFICES ASSUME NEW j \in start + 1 .. Len(es), TokensFrom(es, j) >= budget
                 PROVE  from >= j /\ from = last /\ last \in j .. Len(es)
      OBVIOUS
    <3>1. j \in crossed
      BY <1>2
    <3>2. last >= j
      <4> HIDE DEF crossed
      <4> QED BY <2>2, <3>1
    <3> QED BY <1>2, <2>3, <2>4, <3>2
  <2>8. CASE bounds = {}
    <3>1. again = 0
      BY <1>1, <2>8
    <3>2. \A m \in from .. Len(es) : es[m].k = "tool"
      BY <2>8 DEF Where
    <3> HIDE DEF bounds, crossed
    <3> QED BY <2>3, <2>7, <3>1, <3>2
  <2>9. CASE bounds # {}
    <3>1. bounds \in SUBSET (0 .. Len(es))
      BY <1>2, <2>5 DEF Where
    <3>2. Min(bounds) \in bounds
      <4> HIDE DEF bounds
      <4> QED BY <1>2, <2>9, <3>1, SmallestIn
    <3>3. again \in from .. Len(es) /\ es[again].k # "tool"
      BY <1>1, <1>4, <2>9, <3>2 DEF Where
    <3> HIDE DEF bounds, crossed
    <3>4. again # 0 /\ again \in start + 1 .. Len(es) /\ again >= last
      BY <1>2, <2>3, <2>5, <3>3
    <3>5. \A i \in again + 1 .. Len(es) : i \in last + 1 .. Len(es)
      BY <1>2, <2>3, <3>3, <3>4
    <3>6. \A j \in start + 1 .. Len(es) : TokensFrom(es, j) >= budget => again >= j
      BY <1>2, <2>5, <2>7, <3>3
    <3> QED BY <2>6, <3>3, <3>4, <3>5, <3>6
  <2> QED BY <2>8, <2>9
<1> QED BY <1>3, <1>4

LEMMA VccCutPlace ==
  ASSUME NEW es \in Seq(Stored), es # <<>>, NEW keep \in Nat \cup {-1},
         VccCut(es, keep) > LiveStart(es)
  PROVE  Place(es, LiveStart(es), VccCut(es, keep))
<1> DEFINE start == LiveStart(es)
           default == BuildOwnCut(es, start, ResolveSmartKeep(es, start))
           again == FindBudgetCut(es, start, KeepRecent)
<1>1. start \in 1 .. Len(es) + 1 /\ Len(es) \in Nat
  BY LiveStartPlace, StoredAt
<1>2. VccCut(es, keep) = IF keep >= 0 THEN BuildOwnCut(es, start, keep)
                         ELSE ApplyTailBudget(es, start, default)
  BY DEF VccCut
<1>3. VccCut(es, keep) > start
  OBVIOUS
<1> HIDE DEF start
<1>4. again # 0 => again \in start + 1 .. Len(es) /\ es[again].k # "tool"
  <2>1. KeepRecent \in Nat
    BY CompactionAssumption DEF CompactionAssumption
  <2> QED BY <1>1, <2>1, BudgetCutPlace
<1>5. ASSUME NEW n \in Nat
      PROVE  \/ BuildOwnCut(es, start, n) = TooFew \/ BuildOwnCut(es, start, n) = All(es)
             \/ /\ BuildOwnCut(es, start, n) \in start + 1 .. Len(es)
                /\ es[BuildOwnCut(es, start, n)].k = "user"
  BY <1>1, OwnCutPlace
<1>6. ResolveSmartKeep(es, start) \in Nat
  BY <1>1, SmartKeepCounts
<1>7. \/ default = TooFew \/ default = All(es)
      \/ default \in start + 1 .. Len(es) /\ es[default].k = "user"
  BY <1>5, <1>6
<1>8. ApplyTailBudget(es, start, default) \in {0, again, default}
  BY DEF ApplyTailBudget, TooFew
<1>9. \/ VccCut(es, keep) = 0 \/ VccCut(es, keep) = All(es)
      \/ VccCut(es, keep) \in start + 1 .. Len(es) /\ es[VccCut(es, keep)].k # "tool"
  <2> HIDE DEF default, again
  <2>1. CASE keep >= 0
    BY <1>2, <1>5, <2>1 DEF TooFew
  <2>2. CASE ~(keep >= 0)
    BY <1>2, <1>4, <1>7, <1>8, <2>2 DEF TooFew
  <2> QED BY <2>1, <2>2
<1>10. Place(es, start, VccCut(es, keep))
  BY <1>1, <1>3, <1>9 DEF Place, All
<1> QED BY <1>10 DEF start

LEMMA PastToolsPlace ==
  ASSUME NEW es \in Seq(Stored), NEW i \in 1 .. Len(es) + 1,
         NEW cut, cut = PastTools(es, i), cut # 0
  PROVE  cut \in i .. Len(es) + 1 /\ (cut <= Len(es) => es[cut].k # "tool")
<1> DEFINE bounds == Where(es, i, LAMBDA e : e.k # "tool")
<1>1. cut = IF i > Len(es) THEN i ELSE Min(bounds)
  BY DEF PastTools
<1>2. i > Len(es) \/ bounds # {}
  BY DEF PastTools
<1>3. Len(es) \in Nat
  BY StoredAt
<1>4. CASE i > Len(es)
  BY <1>1, <1>3, <1>4
<1>5. CASE ~(i > Len(es))
  <2>1. bounds \in SUBSET (0 .. Len(es))
    BY <1>3 DEF Where
  <2>2. Min(bounds) \in bounds
    <3> HIDE DEF bounds
    <3> QED BY <1>2, <1>3, <1>5, <2>1, SmallestIn
  <2>3. cut \in i .. Len(es) /\ es[cut].k # "tool"
    BY <1>1, <1>5, <2>2 DEF Where
  <2> QED BY <1>3, <2>3
<1> QED BY <1>4, <1>5

LEMMA CountedFinite ==
  ASSUME NEW es \in Seq(Stored), NEW start \in 1 .. Len(es) + 1
  PROVE  /\ Where(es, start, Counted) \in SUBSET (0 .. Len(es))
         /\ Cardinality(Where(es, start, Counted)) \in Nat
         /\ \A i \in Where(es, start, Counted) : i \in start .. Len(es) /\ es[i].k # "tool"
<1>1. Where(es, start, Counted) \in SUBSET (0 .. Len(es))
  BY StoredAt DEF Where
<1>2. IsFiniteSet(0 .. Len(es))
  BY StoredAt, FS_Interval
<1>3. Cardinality(Where(es, start, Counted)) \in Nat
  BY <1>1, <1>2, FS_Subset, FS_CardinalityType
<1>4. \A i \in Where(es, start, Counted) : i \in start .. Len(es) /\ es[i].k # "tool"
  BY DEF Where, Counted
<1> QED BY <1>1, <1>3, <1>4

\* A cut by the text that is kept, or else by half, when it is behind start.
LEMMA LlmCutPlace ==
  ASSUME NEW es \in Seq(Stored), es # <<>>, LlmCut(es) # 0
  PROVE  Place(es, LiveStart(es), LlmCut(es))
<1> DEFINE start == LiveStart(es)
           counted == Where(es, start, Counted)
           crossed == {i \in counted : LlmTokensFrom(es, i) >= KeepRecent}
           byTokens == FindCutPoint(es, start)
           byCount == FindCutPointByCount(es, start)
           middle == {i \in counted :
                        Cardinality({j \in counted : j <= i}) > Cardinality(counted) \div 2}
<1>1. start \in 1 .. Len(es) + 1 /\ Len(es) \in Nat
  BY LiveStartPlace, StoredAt
<1>2. LlmCut(es) > start \/ ~(LlmCut(es) <= start)
  BY DEF LlmCut
<1>3. LlmCut(es) \in {byTokens, byCount}
  BY DEF LlmCut
<1> HIDE DEF start
<1>4. /\ counted \in SUBSET (0 .. Len(es)) /\ Cardinality(counted) \in Nat
      /\ \A i \in counted : i \in start .. Len(es) /\ es[i].k # "tool"
  BY <1>1, CountedFinite
<1>5. byTokens # 0 => /\ byTokens \in start .. Len(es) + 1
                      /\ byTokens <= Len(es) => es[byTokens].k # "tool"
  <2>1. byTokens = IF start > Len(es) THEN 0
                   ELSE IF crossed # {} THEN PastTools(es, Max(crossed) + 1)
                   ELSE IF LlmTokensFrom(es, start) > 0 THEN Min(counted)
                   ELSE 0
    BY DEF FindCutPoint
  <2>2. CASE start > Len(es)
    BY <2>1, <2>2
  <2>3. CASE ~(start > Len(es)) /\ crossed # {}
    <3>1. crossed \in SUBSET counted
      OBVIOUS
    <3> HIDE DEF crossed, counted
    <3>2. crossed \in SUBSET (0 .. Len(es))
      BY <1>4, <3>1
    <3>3. Max(crossed) \in crossed
      BY <1>1, <2>3, <3>2, LargestIn
    <3>4. Max(crossed) \in start .. Len(es)
      BY <1>4, <3>1, <3>3
    <3>5. Max(crossed) + 1 \in 1 .. Len(es) + 1 /\ Max(crossed) + 1 >= start
      BY <1>1, <3>4
    <3>6. byTokens = PastTools(es, Max(crossed) + 1)
      BY <2>1, <2>3
    <3>7. byTokens # 0 => /\ byTokens \in Max(crossed) + 1 .. Len(es) + 1
                          /\ byTokens <= Len(es) => es[byTokens].k # "tool"
      BY <3>5, <3>6, PastToolsPlace
    <3> HIDE DEF byTokens
    <3> QED BY <1>1, <3>4, <3>7
  <2>4. CASE ~(start > Len(es)) /\ crossed = {} /\ LlmTokensFrom(es, start) > 0
    <3>1. byTokens = Min(counted)
      BY <2>1, <2>4
    <3>2. counted # {}
      <4>1. start \in 1 .. Len(es)
        BY <1>1, <2>4
      <4> QED BY <2>4, <4>1, SomeCounted
    <3> HIDE DEF counted, crossed
    <3>3. Min(counted) \in counted
      BY <1>1, <1>4, <3>2, SmallestIn
    <3>4. byTokens \in start .. Len(es) /\ es[byTokens].k # "tool"
      BY <1>4, <3>1, <3>3
    <3> QED BY <1>1, <3>4
  <2>5. CASE ~(start > Len(es)) /\ crossed = {} /\ ~(LlmTokensFrom(es, start) > 0)
    BY <2>1, <2>5
  <2> QED BY <2>2, <2>3, <2>4, <2>5
<1>6. byCount # 0 => byCount \in start .. Len(es) /\ es[byCount].k # "tool"
  <2>1. byCount = IF Cardinality(counted) < 2 THEN 0 ELSE Min(middle)
    BY DEF FindCutPointByCount
  <2>2. CASE Cardinality(counted) < 2
    BY <2>1, <2>2
  <2>3. CASE ~(Cardinality(counted) < 2)
    <3>1. middle \in SUBSET counted
      OBVIOUS
    <3>2. counted # {}
      BY <2>3, FS_EmptySet
    <3>3. PICK x \in counted : \A y \in counted : x >= y
      <4> HIDE DEF counted
      <4> QED BY <1>1, <1>4, <3>2, LargestExists
    <3>4. {j \in counted : j <= x} = counted
      <4> HIDE DEF counted
      <4> QED BY <1>4, <3>3
    <3>5. x \in middle
      <4>1. Cardinality({j \in counted : j <= x}) = Cardinality(counted)
        BY <3>4
      <4> DEFINE n == Cardinality(counted)
      <4>2. n \in Nat /\ ~(n < 2)
        BY <1>4, <2>3
      <4> HIDE DEF n
      <4>3. n > n \div 2
        BY <4>2
      <4> QED BY <4>1, <4>3 DEF n
    <3> HIDE DEF middle, counted
    <3>6. middle \in SUBSET (0 .. Len(es)) /\ middle # {}
      BY <1>4, <3>1, <3>5
    <3>7. Min(middle) \in middle
      BY <1>1, <3>6, SmallestIn
    <3>8. byCount = Min(middle)
      BY <2>1, <2>3
    <3> QED BY <1>4, <3>1, <3>7, <3>8
  <2> QED BY <2>2, <2>3
<1>7. Place(es, start, LlmCut(es))
  <2> HIDE DEF byTokens, byCount
  <2> QED BY <1>1, <1>2, <1>3, <1>5, <1>6 DEF Place
<1> QED BY <1>7 DEF start

-----------------------------------------------------------------------------
(* The session.                                                            *)

\* The tail of the default cut, of any session whose results follow their calls.
LEMMA TailFitsAnyway ==
  ASSUME Inv
  PROVE  TailFits
<1> DEFINE start == LiveStart(entries)
           n == Len(entries)
           cut == VccCut(entries, -1)
           own == BuildOwnCut(entries, start, ResolveSmartKeep(entries, start))
           again == FindBudgetCut(entries, start, KeepRecent)
           Fit(c) == \A i \in c + 1 .. n : TokensFrom(entries, i) < KeepRecent
           Full == Newest.k = "tool" /\ Newest.size >= KeepRecent
<1>1. entries \in Seq(Stored) /\ n \in Nat /\ n >= 1 /\ start \in 1 .. n + 1
  <2>1. entries \in Seq(Stored) /\ entries # <<>>
    BY DEF Inv, Typed
  <2> QED BY <2>1, StoredAt, LiveStartPlace
<1>2. KeepRecent \in Nat
  BY CompactionAssumption DEF CompactionAssumption
<1>3. cut = ApplyTailBudget(entries, start, own)
  BY DEF VccCut
<1>4. TailFits <=> (cut \in 3 .. n => ~Oversized(TokensFrom(entries, cut)) \/ Fit(cut) \/ Full)
  BY DEF TailFits
<1>5. own = TooFew \/ own = All(entries) \/ own \in start + 1 .. n
  BY <1>1, SmartKeepCounts, OwnCutPlace
<1>6. again # 0 => Fit(again) /\ again \in start + 1 .. n
  BY <1>1, <1>2, BudgetCutPlace
<1>7. ASSUME own \in start + 1 .. n, TokensFrom(entries, own) >= KeepRecent
      PROVE  IF again # 0 THEN again >= own
             ELSE \E i \in own .. n : /\ TokensFrom(entries, i) >= KeepRecent
                                      /\ \A m \in i .. n : entries[m].k = "tool"
  <2> HIDE DEF own, start
  <2>1. entries \in Seq(Stored) /\ start \in 1 .. Len(entries) + 1
    BY <1>1
  <2>2. \A j \in start + 1 .. n : TokensFrom(entries, j) >= KeepRecent =>
          IF again # 0 THEN again >= j
          ELSE \E i \in j .. n : /\ TokensFrom(entries, i) >= KeepRecent
                                 /\ \A m \in i .. n : entries[m].k = "tool"
    BY <1>2, <2>1, BudgetCutPlace
  <2> HIDE DEF again, n
  <2> QED BY <1>7, <2>2
<1>8. \A i \in 1 .. n : TokensFrom(entries, i) \in Nat
  BY <1>1, TokensTyped
<1>9. cut = IF own = TooFew THEN TooFew
            ELSE IF own = All(entries) THEN IF again > start THEN again ELSE own
            ELSE IF Oversized(TokensFrom(entries, own)) /\ again > own THEN again
            ELSE own
  BY <1>3 DEF ApplyTailBudget
<1> HIDE DEF start, own, again, cut, Fit, n
<1> SUFFICES ASSUME cut \in 3 .. n, Oversized(TokensFrom(entries, cut))
             PROVE  Fit(cut) \/ Full
  BY <1>4
<1>10. CASE cut = again
  <2>1. again # 0
    BY <1>1, <1>10
  <2> QED BY <1>6, <1>10, <2>1
<1>11. CASE cut # again
  <2>1. own = cut /\ own # All(entries) /\ own # TooFew
    <3>1. cut # TooFew /\ cut # All(entries)
      BY <1>1 DEF TooFew, All, n
    <3> QED BY <1>9, <1>11, <3>1
  <2>2. own \in start + 1 .. n /\ own \in 1 .. n /\ ~(again > own)
    <3>1. ~(again > own)
      BY <1>9, <1>11, <2>1
    <3> QED BY <1>1, <1>5, <2>1, <3>1
  <2>3. TokensFrom(entries, own) >= KeepRecent
    <3>1. TokensFrom(entries, own) \in Nat
      BY <1>8, <2>2
    <3> QED BY <1>2, <2>1, <3>1 DEF Oversized
  <2>4. again = 0
    <3> SUFFICES ASSUME again # 0 PROVE FALSE
      OBVIOUS
    <3>1. again >= own /\ again \in start + 1 .. n
      BY <1>6, <1>7, <2>2, <2>3
    <3> QED BY <1>1, <1>11, <2>1, <2>2, <3>1
  <2>5. PICK i \in own .. n : /\ TokensFrom(entries, i) >= KeepRecent
                              /\ \A m \in i .. n : entries[m].k = "tool"
    BY <1>7, <2>2, <2>3, <2>4
  <2>6. i \in 1 .. n /\ i >= 2
    BY <1>1, <2>2
  <2>7. i = n
    <3> SUFFICES ASSUME i # n PROVE FALSE
      OBVIOUS
    <3>1. i + 1 \in i .. n /\ i + 1 \in 1 .. n /\ i \in i .. n /\ (i + 1) - 1 = i
      BY <1>1, <2>6
    <3>2. entries[i + 1].k = "tool" /\ entries[i].k = "tool"
      BY <2>5, <3>1
    <3>3. entries[i].k = "call"
      <4>1. \A j \in 1 .. n : entries[j].k = "tool" => entries[j - 1].k = "call"
        BY DEF Inv, PairsKept, Typed, n
      <4> QED BY <3>1, <3>2, <4>1
    <3> QED BY <3>2, <3>3
  <2>8. TokensFrom(entries, n) = Tokens(entries[n]) /\ entries[n].k = "tool"
    <3>1. entries # <<>>
      BY DEF Inv, Typed
    <3> QED BY <1>1, <2>5, <2>6, <2>7, <3>1, TokensTyped DEF n
  <2>9. Newest.size >= KeepRecent /\ Newest.k = "tool"
    BY <2>5, <2>7, <2>8 DEF Tokens, IsMessage, MessageKinds, Newest, n
  <2> QED BY <2>9
<1> QED BY <1>10, <1>11

-----------------------------------------------------------------------------
(* What each step does to the session.                                     *)

LEMMA Starts == Init => Inv
<1> SUFFICES ASSUME Init PROVE Inv
  OBVIOUS
<1>1. Header \in Stored /\ Header.k = "header"
  BY DEF Header, Stored, Held, Kinds
<1>2. entries = <<Header>> /\ nextId = 2
  BY DEF Init
<1> HIDE DEF Header, Stored
<1>3. Typed
  BY <1>1, <1>2 DEF Typed
<1>4. entries[1].k = "header" /\ DOMAIN entries = {1}
  BY <1>1, <1>2
<1> QED BY <1>3, <1>4 DEF Inv, PairsKept

\* One entry more: a result only after its call.
LEMMA AddKeeps ==
  ASSUME Inv, NEW k \in Kinds, NEW v \in Held, NEW size \in Nat, Add(k, v, size),
         k = "tool" => Newest.k = "call"
  PROVE  Inv'
<1> DEFINE e == Entry(k, v, size)
           n == Len(entries)
<1>1. e \in Stored /\ e.k = k /\ nextId' \in Nat
  BY DEF Entry, Stored, Inv, Typed, Add
<1>2. entries' = Append(entries, e) /\ entries \in Seq(Stored) /\ entries # <<>>
  BY DEF Add, Inv, Typed
<1> HIDE DEF e, Stored
<1>3. /\ entries' \in Seq(Stored) /\ n \in Nat /\ n >= 1
      /\ DOMAIN entries = 1 .. n /\ DOMAIN entries' = 1 .. n + 1
      /\ \A i \in 1 .. n : entries'[i] = entries[i]
      /\ entries'[n + 1] = e
  BY <1>1, <1>2
<1>4. Typed'
  BY <1>1, <1>3 DEF Typed
<1>5. entries'[1].k = "header"
  BY <1>3 DEF Inv
<1>6. ASSUME NEW i \in DOMAIN entries', entries'[i].k = "tool" PROVE entries'[i - 1].k = "call"
  <2> HIDE DEF n
  <2>1. CASE i \in 1 .. n
    <3>1. entries[i].k = "tool"
      BY <1>3, <1>6, <2>1
    <3>2. i # 1
      BY <3>1 DEF Inv
    <3>3. i - 1 \in 1 .. n
      BY <1>3, <2>1, <3>2
    <3>4. entries[i - 1].k = "call"
      BY <1>3, <2>1, <3>1 DEF Inv, PairsKept
    <3> QED BY <1>3, <3>3, <3>4
  <2>2. CASE i = n + 1
    <3>1. entries[n].k = "call"
      BY <1>1, <1>3, <1>6, <2>2 DEF Newest, n
    <3>2. n \in 1 .. n /\ i - 1 = n
      BY <1>3, <2>2
    <3> QED BY <1>3, <3>1, <3>2
  <2> QED BY <1>3, <2>1, <2>2
<1> QED BY <1>4, <1>5, <1>6 DEF Inv, PairsKept

\* What is kept of a cut begins with no result.
LEMMA ApplyKeeps ==
  ASSUME Inv, NEW start \in Nat, start >= 1, NEW cut, Place(entries, start, cut),
         NEW text, Apply(text, cut)
  PROVE  Inv'
<1> DEFINE kept == From(entries, cut)
           n == Len(entries)
           id == IF kept = <<>> \/ kept[1].k = "custom" THEN 0 ELSE kept[1].id
           comp == [Entry("comp", "", 0) EXCEPT !.kept = id]
           m == Len(kept)
<1>1. entries' = <<Header, comp>> \o kept /\ nextId' = nextId + 1
  BY DEF Apply
<1>2. entries \in Seq(Stored) /\ n \in Nat /\ n >= 1
  <2>1. entries \in Seq(Stored) /\ entries # <<>>
    BY DEF Inv, Typed
  <2> HIDE DEF Stored
  <2> QED BY <2>1
<1>3. cut \in 2 .. n + 1 /\ (cut <= n => entries[cut].k # "tool")
  BY <1>2 DEF Place
<1>4. /\ kept \in Seq(Stored) /\ m \in Nat /\ m = n + 1 - cut
      /\ \A i \in 1 .. m : kept[i] = entries[cut + i - 1]
  <2> HIDE DEF Stored
  <2> QED BY <1>2, <1>3 DEF From
<1>5. Header \in Stored /\ comp \in Stored /\ Header.k = "header" /\ comp.k = "comp"
  <2>1. id \in Nat
    <3>1. CASE m = 0
      <4>1. kept = <<>>
        <5> HIDE DEF kept, Stored
        <5> QED BY <1>4, <3>1
      <4> QED BY <4>1
    <3>2. CASE m # 0
      <4>1. kept[1] \in Stored
        <5> HIDE DEF kept, Stored
        <5> QED BY <1>4, <3>2
      <4>2. kept[1].id \in Nat
        BY <4>1 DEF Stored
      <4> HIDE DEF kept
      <4> QED BY <4>2
    <3> QED BY <3>1, <3>2
  <2> HIDE DEF id
  <2>2. nextId \in Nat
    BY DEF Inv, Typed
  <2>3. "" \in Held /\ "comp" \in Kinds /\ "header" \in Kinds
    BY DEF Held, Kinds
  <2>4. comp \in Stored /\ comp.k = "comp"
    <3> DEFINE base == Entry("comp", "", 0)
    <3>1. base \in Stored /\ base.k = "comp"
      BY <2>2, <2>3 DEF Stored, Entry
    <3> HIDE DEF base
    <3>2. [base EXCEPT !.kept = id] \in Stored /\ [base EXCEPT !.kept = id].k = "comp"
      BY <2>1, <3>1 DEF Stored
    <3> QED BY <3>2 DEF base
  <2>5. Header \in Stored /\ Header.k = "header"
    BY <2>3 DEF Header, Stored
  <2> QED BY <2>4, <2>5
<1> HIDE DEF kept, comp, Stored, Header
<1>6. /\ entries' \in Seq(Stored) /\ Len(entries') = m + 2
      /\ entries'[1] = Header /\ entries'[2] = comp
      /\ \A i \in 3 .. m + 2 : entries'[i] = kept[i - 2]
  <2>1. <<Header, comp>> \in Seq(Stored)
    BY <1>5
  <2> QED BY <1>1, <1>4, <2>1
<1>7. Typed'
  <2>1. nextId' \in Nat
    BY <1>1 DEF Inv, Typed
  <2>2. entries' # <<>>
    BY <1>4, <1>6
  <2> QED BY <1>6, <2>1, <2>2 DEF Typed
<1>8. DOMAIN entries' = 1 .. m + 2
  BY <1>6
<1>9. ASSUME NEW i \in 1 .. m + 2, entries'[i].k = "tool" PROVE entries'[i - 1].k = "call"
  <2>1. i # 1 /\ i # 2
    BY <1>5, <1>6, <1>9
  <2>2. i \in 3 .. m + 2 /\ i - 2 \in 1 .. m
    BY <1>4, <2>1
  <2>3. entries[cut + (i - 2) - 1].k = "tool"
    BY <1>4, <1>6, <1>9, <2>2
  <2>4. i # 3
    <3>1. i = 3 => cut + (i - 2) - 1 = cut /\ cut <= n
      BY <1>2, <1>3, <1>4, <2>2
    <3> QED BY <1>3, <2>3, <3>1
  <2>5. /\ cut + (i - 2) - 1 \in 1 .. n /\ i - 1 \in 3 .. m + 2
        /\ (i - 1) - 2 \in 1 .. m
        /\ cut + ((i - 1) - 2) - 1 = (cut + (i - 2) - 1) - 1
    BY <1>2, <1>3, <1>4, <2>2, <2>4
  <2>6. entries[(cut + (i - 2) - 1) - 1].k = "call"
    <3>1. \A j \in 1 .. n : entries[j].k = "tool" => entries[j - 1].k = "call"
      BY <1>2 DEF Inv, PairsKept
    <3> QED BY <2>3, <2>5, <3>1
  <2>7. entries'[i - 1] = entries[cut + ((i - 1) - 2) - 1]
    BY <1>4, <1>6, <2>5
  <2> QED BY <2>5, <2>6, <2>7
<1> QED BY <1>5, <1>6, <1>7, <1>8, <1>9 DEF Inv, PairsKept

LEMMA StepKeeps == Inv /\ [Next]_vars => Inv'
<1> SUFFICES ASSUME Inv, [Next]_vars PROVE Inv'
  OBVIOUS
<1> USE CompactionAssumption DEF CompactionAssumption
<1>1. entries \in Seq(Stored) /\ entries # <<>> /\ nextId \in Nat
  BY DEF Inv, Typed
<1>2. LiveStart(entries) \in Nat /\ LiveStart(entries) >= 1
  BY <1>1, StoredAt, LiveStartPlace
<1>3. \A m \in Asks \cup Says \cup Calls : m.v \in Held /\ m.size \in Nat
  BY DEF Held
<1>4. "" \in Held /\ {"user", "assistant", "call", "tool", "custom"} \subseteq Kinds
  BY DEF Held, Kinds, MessageKinds
<1>5. ASSUME UNCHANGED <<entries, nextId>> PROVE Inv'
  BY <1>5 DEF Inv, Typed, PairsKept
<1>6. CASE Ask
  BY <1>3, <1>4, <1>6, AddKeeps DEF Ask
<1>7. CASE Say
  BY <1>3, <1>4, <1>7, AddKeeps DEF Say
<1>8. CASE Call
  BY <1>3, <1>4, <1>8, AddKeeps DEF Call
<1>9. CASE Answer
  <2>1. Newest \in Stored
    <3>1. Len(entries) \in 1 .. Len(entries)
      BY <1>1, StoredAt
    <3> QED BY <1>1, <3>1, StoredAt DEF Newest
  <2>2. Newest.v \in Held /\ Newest.k = "call"
    BY <1>9, <2>1 DEF Answer, Stored
  <2>3. PICK size \in Sizes : Add("tool", Newest.v, size)
    BY <1>9 DEF Answer
  <2> QED BY <1>4, <2>2, <2>3, AddKeeps
<1>10. CASE SaveTokenRate
  BY <1>4, <1>10, AddKeeps DEF SaveTokenRate
<1>11. CASE ActivateSkill
  BY <1>5, <1>11 DEF ActivateSkill
<1>12. CASE MovePlan
  BY <1>5, <1>12 DEF MovePlan
<1>13. CASE CompactVcc
  <2>1. PICK keep \in Keeps :
          /\ VccCut(entries, keep) > LiveStart(entries)
          /\ \E text : Apply(text, VccCut(entries, keep))
    BY <1>13 DEF CompactVcc
  <2>2. Place(entries, LiveStart(entries), VccCut(entries, keep))
    <3>1. keep \in Nat \cup {-1}
      OBVIOUS
    <3> QED BY <1>1, <2>1, <3>1, VccCutPlace
  <2> QED BY <1>2, <2>1, <2>2, ApplyKeeps
<1>14. CASE CompactLlm
  <2>1. LlmCut(entries) # 0 /\ \E text : Apply(text, LlmCut(entries))
    BY <1>14 DEF CompactLlm
  <2>2. Place(entries, LiveStart(entries), LlmCut(entries))
    BY <1>1, <2>1, LlmCutPlace
  <2> QED BY <1>2, <2>1, <2>2, ApplyKeeps
<1>15. CASE UNCHANGED vars
  BY <1>5, <1>15 DEF vars
<1> QED BY <1>6, <1>7, <1>8, <1>9, <1>10, <1>11, <1>12, <1>13, <1>14, <1>15 DEF Next

-----------------------------------------------------------------------------
(* Whatever was asked, answered and compacted, by either strategy and any  *)
(* keep: every tool result of the session stands right after its call, and *)
(* the tail of the next default cut is within its budget, or over it by    *)
(* its first entry alone or by one result (cut.rs: build_own_cut,          *)
(* apply_tail_budget, find_budget_cut_index; llm.rs: find_cut_point).      *)
THEOREM CutsStaySound == Spec => []CutSound
<1>1. Inv => CutSound
  BY TailFitsAnyway DEF Inv, CutSound
<1> QED BY Starts, StepKeeps, <1>1, PTL DEF Spec

-----------------------------------------------------------------------------
(* What a summary is written from: blocks, and lines of which the sort is  *)
(* all that matters here.                                                  *)

BlockKinds == {"user", "assistant", "bash", "call", "result"}
Blocks ==
  [k : BlockKinds, v : Held \cup {"output"}, id : Nat, size : Nat, answered : BOOLEAN]
adding == [p \in Seq(Blocks) \X Stored |-> Added(p[1], p[2])]

\* An entry adds a block, or fills one in.
LEMMA AddedTyped ==
  ASSUME NEW bs \in Seq(Blocks), NEW e \in Stored
  PROVE  Added(bs, e) \in Seq(Blocks)
<1> DEFINE B == Blocks
<1>1. e.v \in Held /\ e.id \in Nat /\ e.size \in Nat /\ e.k \in Kinds
  BY DEF Stored
<1>6. \A k \in BlockKinds, done \in BOOLEAN : Block(k, e, done) \in B
  <2>1. e.v \in Held \cup {"output"}
    BY <1>1
  <2> QED BY <1>1, <2>1 DEF Block, Blocks
<1>7. Block("bash", [e EXCEPT !.v = "output"], TRUE) \in B
  <2> DEFINE o == [e EXCEPT !.v = "output"]
  <2>1. o.v = "output" /\ o.id = e.id /\ o.size = e.size
    BY DEF Stored
  <2> HIDE DEF o
  <2>2. Block("bash", o, TRUE) \in B
    BY <1>1, <2>1 DEF Block, Blocks, BlockKinds
  <2> QED BY <2>2 DEF o
<1>3. ASSUME bs # <<>> PROVE [bs EXCEPT ![Len(bs)].answered = TRUE] \in Seq(B)
  <2>1. bs[Len(bs)] \in B
    <3> HIDE DEF B
    <3> QED BY <1>3 DEF B
  <2>2. [bs[Len(bs)] EXCEPT !.answered = TRUE] \in B
    BY <2>1 DEF Blocks
  <2>3. [bs EXCEPT ![Len(bs)].answered = TRUE] = [bs EXCEPT ![Len(bs)] = [bs[Len(bs)] EXCEPT !.answered = TRUE]]
    OBVIOUS
  <2> DEFINE b == [bs[Len(bs)] EXCEPT !.answered = TRUE]
  <2> HIDE DEF B, b
  <2>4. [bs EXCEPT ![Len(bs)] = b] \in Seq(B)
    BY <1>3, <2>2 DEF b, B
  <2> QED BY <2>3, <2>4 DEF b
<1>4. \A b \in B : Append(bs, b) \in Seq(B)
  <2> HIDE DEF B
  <2> QED BY DEF B
<1>8. bs \in Seq(B)
  OBVIOUS
<1>9. {"user", "assistant", "bash", "call", "result"} \subseteq BlockKinds
  BY DEF BlockKinds
<1> HIDE DEF B
<1>5. Added(bs, e) \in Seq(B)
  BY <1>3, <1>4, <1>6, <1>7, <1>8, <1>9 DEF Added
<1> QED BY <1>5 DEF B

\* The entries of a session become blocks.
LEMMA NormalizeTyped ==
  ASSUME NEW es \in Seq(Stored)
  PROVE  Normalize(es) \in Seq(Blocks)
<1> DEFINE n == Len(es)
           S == Seq(Blocks)
           F(g) == g = [i \in 0 .. n |-> IF i = 0 THEN <<>> ELSE Added(g[i - 1], es[i])]
           walk == CHOOSE g : F(g)
<1>0. adding \in Steps(S, Stored) /\ <<>> \in S
      /\ \A bs \in S, e \in Stored : adding[<<bs, e>>] = Added(bs, e)
  BY AddedTyped DEF adding, Steps
<1>1. Normalize(es) = walk[n]
  BY DEF Normalize, Through
<1> HIDE DEF S
<1>2. PICK h : /\ h = [i \in 0 .. n |-> IF i = 0 THEN <<>> ELSE adding[<<h[i - 1], es[i]>>]]
               /\ \A i \in 1 .. n : h[i - 1] \in S /\ es[i] \in Stored
  BY <1>0, WalkGiven
<1>3. n \in Nat /\ \A i \in 0 .. n : i = 0 \/ i \in 1 .. n
  OBVIOUS
<1>4. F(h)
  <2>1. \A i \in 1 .. n : adding[<<h[i - 1], es[i]>>] = Added(h[i - 1], es[i])
    BY <1>0, <1>2
  <2> HIDE DEF n
  <2>2. [i \in 0 .. n |-> IF i = 0 THEN <<>> ELSE adding[<<h[i - 1], es[i]>>]]
          = [i \in 0 .. n |-> IF i = 0 THEN <<>> ELSE Added(h[i - 1], es[i])]
    BY <1>3, <2>1
  <2> QED BY <1>2, <2>2, Zenon
<1>5. F(walk)
  <2> HIDE DEF F
  <2> QED BY <1>4, Zenon DEF walk
<1> HIDE DEF walk
<1>6. walk[0] = <<>> /\ \A i \in 1 .. n : walk[i] = Added(walk[i - 1], es[i])
  <2> HIDE DEF n
  <2> QED BY <1>3, <1>5
<1> HIDE DEF F
<1>7. \A i \in 1 .. n : walk[i - 1] \in S => walk[i] = adding[<<walk[i - 1], es[i]>>]
  <2>1. \A i \in 1 .. n : es[i] \in Stored
    BY <1>2
  <2> QED BY <1>0, <1>6, <2>1
<1>8. Obeys(walk, S, adding, <<>>, es, Len(es))
  BY <1>6, <1>7 DEF Obeys
<1>9. walk[n] \in S
  BY <1>0, <1>8, WalkedIsEnd
<1> QED BY <1>1, <1>9 DEF S

-----------------------------------------------------------------------------
(* Lists made of lists.                                                    *)

\* What is in a list of lists is in one of them.
LEMMA FlattenHas ==
  ASSUME NEW Y, NEW ss \in Seq(Seq(Y)), NEW i \in 1 .. Len(ss), ss[i] # <<>>
  PROVE  FlattenSeq(ss) # <<>>
<1> DEFINE S == Seq(Y)
           Has(u) == \A k \in 1 .. Len(u) : u[k] # <<>> => FlattenSeq(u) # <<>>
           T == {u \in Seq(S) : Has(u)}
<1>1. /\ FlattenSeq(<<>>) = <<>>
      /\ \A u \in Seq(S) : FlattenSeq(u) \in S
      /\ \A u \in Seq(S) : \A s \in S : FlattenSeq(Append(u, s)) = FlattenSeq(u) \o s
  BY FlattenLaws
<1>2. \A a, b \in S : a # <<>> \/ b # <<>> => a \o b # <<>>
  OBVIOUS
<1> HIDE DEF S
<1>3. <<>> \in T
  OBVIOUS
<1>4. ASSUME NEW u \in T, NEW s \in S PROVE Append(u, s) \in T
  <2>1. u \in Seq(S) /\ Append(u, s) \in Seq(S) /\ Has(u)
    OBVIOUS
  <2>2. FlattenSeq(Append(u, s)) = FlattenSeq(u) \o s /\ FlattenSeq(u) \in S
    BY <1>1, <2>1
  <2>3. ASSUME NEW k \in 1 .. Len(Append(u, s)), Append(u, s)[k] # <<>>
        PROVE  FlattenSeq(Append(u, s)) # <<>>
    <3>1. CASE k \in 1 .. Len(u)
      <4>1. Append(u, s)[k] = u[k]
        BY <2>1, <3>1
      <4>2. FlattenSeq(u) # <<>>
        BY <2>1, <2>3, <3>1, <4>1
      <4> QED BY <1>2, <2>2, <4>2
    <3>2. CASE k = Len(u) + 1
      <4>1. Append(u, s)[k] = s
        BY <2>1, <3>2
      <4> QED BY <1>2, <2>2, <2>3, <4>1
    <3>3. k \in 1 .. Len(u) + 1
      BY <2>1
    <3>4. Len(u) \in Nat
      BY <2>1
    <3> QED BY <3>1, <3>2, <3>3, <3>4
  <2> HIDE DEF Has
  <2>4. Has(Append(u, s))
    BY <2>3 DEF Has
  <2> QED BY <2>1, <2>4
<1>5. T \in SUBSET Seq(S)
  OBVIOUS
<1> HIDE DEF T
<1>6. T = Seq(S)
  BY <1>3, <1>4, <1>5, SeqInduction
<1> QED BY <1>6 DEF T, S

\* A filter of the code is a filter of the proofs.
LEMMA ThoseIs ==
  ASSUME NEW X, NEW Y \in SUBSET X, NEW s \in Seq(X)
  PROVE  FlattenSeq([i \in DOMAIN s |-> IF s[i] \in Y THEN <<s[i]>> ELSE <<>>]) = Flat(In(X, Y), s)
<1>1. \A i \in DOMAIN s : s[i] \in X
  OBVIOUS
<1>2. \A i \in DOMAIN s : In(X, Y)[s[i]] = IF s[i] \in Y THEN <<s[i]>> ELSE <<>>
  BY <1>1 DEF In
<1>3. [i \in DOMAIN s |-> IF s[i] \in Y THEN <<s[i]>> ELSE <<>>] = [i \in DOMAIN s |-> In(X, Y)[s[i]]]
  BY <1>2
<1> QED BY <1>3 DEF Flat

\* Whatever the pieces are, as long as each is a list.
LEMMA FlattenTyped ==
  ASSUME NEW Y, NEW n \in Nat, NEW f, \A i \in 1 .. n : f[i] \in Seq(Y)
  PROVE  /\ FlattenSeq([i \in 1 .. n |-> f[i]]) \in Seq(Y)
         /\ (\E i \in 1 .. n : f[i] # <<>>) => FlattenSeq([i \in 1 .. n |-> f[i]]) # <<>>
<1> DEFINE S == Seq(Y)
           g == [i \in 1 .. n |-> f[i]]
<1> HIDE DEF S
<1>1. g \in Seq(S) /\ Len(g) = n /\ \A i \in 1 .. n : g[i] = f[i]
  BY DEF S
<1> HIDE DEF g
<1>2. FlattenSeq(g) \in Seq(Y)
  BY <1>1, FlattenLaws DEF S
<1>3. (\E i \in 1 .. n : f[i] # <<>>) => FlattenSeq(g) # <<>>
  BY <1>1, FlattenHas DEF S
<1> QED BY <1>2, <1>3 DEF g

\* Removing repetitions keeps the first element, and adds none.
LEMMA OnceLaws ==
  ASSUME NEW X, NEW s \in Seq(X)
  PROVE  Once(s) \in Seq(X) /\ (s # <<>> => Once(s) # <<>>)
<1> DEFINE f == [i \in 1 .. Len(s) |-> IF \E j \in 1 .. i - 1 : s[j] = s[i] THEN <<>> ELSE <<s[i]>>]
<1>1. Len(s) \in Nat /\ DOMAIN s = 1 .. Len(s) /\ \A i \in 1 .. Len(s) : s[i] \in X
  OBVIOUS
<1>2. \A i \in 1 .. Len(s) : f[i] \in Seq(X)
  <2>1. <<>> \in Seq(X) /\ \A x \in X : <<x>> \in Seq(X)
    OBVIOUS
  <2> QED BY <1>1, <2>1
<1>3. s # <<>> => 1 \in 1 .. Len(s) /\ f[1] # <<>>
  OBVIOUS
<1>4. Once(s) = FlattenSeq([i \in 1 .. Len(s) |-> f[i]])
  BY <1>1 DEF Once
<1> HIDE DEF f
<1> QED BY <1>1, <1>2, <1>3, <1>4, FlattenTyped

-----------------------------------------------------------------------------
(* Lines and their sorts.                                                  *)

Sorts == {"tag", "item", "role", "line", "omitted", "rule", "plan", "skills", "prose"}
HeaderNames == {"goal", "files", "commits", "outstanding", "preferences"}
Words ==
  HeaderNames \cup BlockKinds \cup {"modified", "read", "calls", "lines", ""}
Written == [a : Sorts, h : Words, v : Nat]
Of(S) == {l \in Written : l.a \in S}
Said == Of(Sorts \ {"rule", "skills", "plan"})
Items == Of({"item"})
Transcript == Of({"role", "line", "omitted"})
FileItems == {Item("modified", 0), Item("read", 0)}
Tags == {Tag(h) : h \in HeaderNames}

\* The lines the code writes, and their sorts.
LEMMA LinesTyped ==
  /\ \A h \in HeaderNames : Tag(h) \in Said /\ Tag(h).a = "tag" /\ Tag(h).h = h
  /\ \A h \in Words, v \in Nat : Item(h, v) \in Items /\ Item(h, v).h = h
  /\ FileItems \subseteq Items
  /\ \A h \in BlockKinds, v \in Nat : Line(h, v) \in Transcript
  /\ Role("user") \in Transcript /\ Role("assistant") \in Transcript
  /\ Omitted("calls") \in Transcript /\ Omitted("lines") \in Transcript
  /\ Rule \in Written /\ Rule.a = "rule"
  /\ Items \subseteq Said /\ Transcript \subseteq Said /\ Said \subseteq Written
  /\ \A n \in Nat : /\ Skills(n) \in Written /\ Skills(n).a = "skills"
                    /\ Plan(n) \in Written /\ Plan(n).a = "plan"
                    /\ Prose(n) \in Said
<1> USE DEF Of, Said, Items, Transcript, Written, Sorts
<1>1. /\ \A h \in HeaderNames : Tag(h) \in Said /\ Tag(h).a = "tag" /\ Tag(h).h = h
  BY DEF Tag, Words
<1>2. \A h \in Words, v \in Nat : Item(h, v) \in Items /\ Item(h, v).h = h
  BY DEF Item
<1>3. FileItems \subseteq Items
  <2>1. "modified" \in Words /\ "read" \in Words /\ 0 \in Nat
    BY DEF Words
  <2> HIDE DEF Items
  <2>2. Item("modified", 0) \in Items /\ Item("read", 0) \in Items
    BY <1>2, <2>1
  <2> QED BY <2>2 DEF FileItems
<1>4. \A h \in BlockKinds, v \in Nat : Line(h, v) \in Transcript
  BY DEF Line, Words
<1>5. Role("user") \in Transcript /\ Role("assistant") \in Transcript
  BY DEF Role, Words, BlockKinds
<1>6. Omitted("calls") \in Transcript /\ Omitted("lines") \in Transcript
  BY DEF Omitted, Words
<1>7. Rule \in Written /\ Rule.a = "rule"
  BY DEF Rule, Words
<1>8. \A n \in Nat : /\ Skills(n) \in Written /\ Skills(n).a = "skills"
                     /\ Plan(n) \in Written /\ Plan(n).a = "plan"
                     /\ Prose(n) \in Said
  BY DEF Skills, Plan, Prose, Words
<1>9. Items \subseteq Said /\ Transcript \subseteq Said /\ Said \subseteq Written
  OBVIOUS
<1> QED BY <1>1, <1>2, <1>3, <1>4, <1>5, <1>6, <1>7, <1>8, <1>9

-----------------------------------------------------------------------------
(* Pieces of a list.                                                       *)

\* The smaller and the larger of two.
LEMMA OfTwo ==
  ASSUME NEW a \in Int, NEW b \in Int
  PROVE  Min({a, b}) = (IF a <= b THEN a ELSE b) /\ Max({a, b}) = (IF a >= b THEN a ELSE b)
<1>1. \A x \in {a, b} : x = a \/ x = b
  OBVIOUS
<1>2. \A x \in {a, b} : (\A y \in {a, b} : x <= y) => x = IF a <= b THEN a ELSE b
  OBVIOUS
<1>3. \A x \in {a, b} : (\A y \in {a, b} : x >= y) => x = IF a >= b THEN a ELSE b
  OBVIOUS
<1>4. \E x \in {a, b} : \A y \in {a, b} : x <= y
  OBVIOUS
<1>5. \E x \in {a, b} : \A y \in {a, b} : x >= y
  OBVIOUS
<1> QED BY <1>2, <1>3, <1>4, <1>5 DEF Min, Max

\* The first elements of a list.
LEMMA FirstTyped ==
  ASSUME NEW X, NEW s \in Seq(X), NEW n \in Nat
  PROVE  First(s, n) \in Seq(X)
<1> DEFINE k == Len(s)
           m == Min({n, k})
<1>1. k \in Nat
  OBVIOUS
<1> HIDE DEF k
<1>2. m = IF n <= k THEN n ELSE k
  BY <1>1, OfTwo
<1> HIDE DEF m
<1>3. m \in 0 .. k
  BY <1>1, <1>2
<1>4. SubSeq(s, 1, m) \in Seq(X)
  BY <1>3 DEF k
<1> QED BY <1>4 DEF First, m, k

\* The last elements of a list: n of them when there are more.
LEMMA LastOfLaws ==
  ASSUME NEW X, NEW s \in Seq(X), NEW n \in Nat
  PROVE  /\ LastOf(s, n) \in Seq(X)
         /\ n # 0 /\ s # <<>> => LastOf(s, n) # <<>>
<1> DEFINE k == Len(s)
           j == k - n + 1
           m == Max({1, j})
<1>5. k \in Nat
  OBVIOUS
<1> HIDE DEF k
<1>6. j \in Int /\ 1 \in Int
  BY <1>5
<1> HIDE DEF j
<1>7. m = IF 1 >= j THEN 1 ELSE j
  BY <1>6, OfTwo
<1>1. k \in Nat /\ m = (IF 1 >= k - n + 1 THEN 1 ELSE k - n + 1)
  BY <1>5, <1>7 DEF j
<1>2. m \in 1 .. k + 1 /\ (n # 0 /\ k # 0 => m <= k)
  BY <1>1
<1> HIDE DEF m
<1>3. SubSeq(s, m, k) \in Seq(X) /\ Len(SubSeq(s, m, k)) = IF m <= k THEN k - m + 1 ELSE 0
  BY <1>1, <1>2 DEF k
<1>4. n # 0 /\ s # <<>> => SubSeq(s, m, k) # <<>>
  <2> SUFFICES ASSUME n # 0, s # <<>> PROVE SubSeq(s, m, k) # <<>>
    OBVIOUS
  <2>1. k # 0
    BY DEF k
  <2>2. k - m + 1 > 0 /\ m <= k
    BY <1>1, <1>2, <2>1
  <2>3. Len(SubSeq(s, m, k)) # 0
    BY <1>3, <2>2
  <2>4. Len(<<>>) = 0
    OBVIOUS
  <2> QED BY <2>3, <2>4
<1> QED BY <1>3, <1>4 DEF LastOf, m, j, k

\* What holds of lists that are put together holds of all of them together.
LEMMA FlattenClosed ==
  ASSUME NEW Y, NEW S \in SUBSET Seq(Y), <<>> \in S, \A a, b \in S : a \o b \in S,
         NEW n \in Nat, NEW f, \A i \in 1 .. n : f[i] \in S
  PROVE  FlattenSeq([i \in 1 .. n |-> f[i]]) \in S
<1> DEFINE T == {u \in Seq(S) : FlattenSeq(u) \in S}
           Z == Seq(Y)
<1>1. FlattenSeq(<<>>) = <<>>
      /\ \A u \in Seq(Z) : \A s \in Z : FlattenSeq(Append(u, s)) = FlattenSeq(u) \o s
  BY FlattenLaws
<1> HIDE DEF Z
<1>2. <<>> \in T
  BY <1>1
<1>3. ASSUME NEW u \in T, NEW s \in S PROVE Append(u, s) \in T
  <2>1. u \in Seq(S) /\ Append(u, s) \in Seq(S) /\ FlattenSeq(u) \in S
    OBVIOUS
  <2>2. S \subseteq Z
    BY DEF Z
  <2>3. u \in Seq(Z) /\ s \in Z
    BY <2>1, <2>2
  <2> QED BY <1>1, <2>1, <2>3
<1>4. T \in SUBSET Seq(S)
  OBVIOUS
<1> HIDE DEF T
<1>5. T = Seq(S)
  BY <1>2, <1>3, <1>4, SeqInduction
<1>6. [i \in 1 .. n |-> f[i]] \in Seq(S)
  OBVIOUS
<1> QED BY <1>5, <1>6 DEF T

-----------------------------------------------------------------------------
(* Parts, with a rule between two that say something.                      *)

Ruled(p, q) == IF p = <<>> THEN q ELSE IF q = <<>> THEN p ELSE p \o (<<Rule>> \o q)

\* Lists of none, one or two lists.
LEMMA FlattenFew ==
  ASSUME NEW Y, NEW a \in Seq(Y), NEW b \in Seq(Y)
  PROVE  /\ FlattenSeq(<<>>) = <<>>
         /\ FlattenSeq(<<a>>) = a
         /\ FlattenSeq(<<a, b>>) = a \o b
<1> DEFINE S == Seq(Y)
<1>1. FlattenSeq(<<>>) = <<>>
      /\ \A u \in Seq(S) : \A s \in S : FlattenSeq(Append(u, s)) = FlattenSeq(u) \o s
  BY FlattenLaws
<1>2. <<>> \o a = a /\ a \in S /\ b \in S
  OBVIOUS
<1> HIDE DEF S
<1>3. <<a>> = Append(<<>>, a) /\ <<>> \in Seq(S) /\ <<a>> \in Seq(S)
  BY <1>2
<1>4. FlattenSeq(<<a>>) = a
  BY <1>1, <1>2, <1>3
<1>5. <<a, b>> = Append(<<a>>, b) /\ <<a, b>> \in Seq(S)
  BY <1>2
<1>6. FlattenSeq(<<a, b>>) = a \o b
  BY <1>1, <1>2, <1>3, <1>4, <1>5
<1> QED BY <1>1, <1>4, <1>6

\* Lists of three lists.
LEMMA FlattenThree ==
  ASSUME NEW Y, NEW ss \in Seq(Seq(Y)), Len(ss) = 3
  PROVE  FlattenSeq(ss) = (ss[1] \o ss[2]) \o ss[3]
<1> DEFINE S == Seq(Y)
           u == <<ss[1], ss[2]>>
<1>1. \A t \in Seq(S) : \A s \in S : FlattenSeq(Append(t, s)) = FlattenSeq(t) \o s
  BY FlattenLaws
<1>6. ss \in Seq(S)
  OBVIOUS
<1>2. ss[1] \in S /\ ss[2] \in S /\ ss[3] \in S
  <2> HIDE DEF S
  <2>1. \A i \in 1 .. Len(ss) : ss[i] \in S
    BY <1>6, ElementsIn
  <2>2. 1 \in 1 .. Len(ss) /\ 2 \in 1 .. Len(ss) /\ 3 \in 1 .. Len(ss) /\ 1 .. 3 = 1 .. Len(ss)
    OBVIOUS
  <2> QED BY <2>1, <2>2
<1>3. FlattenSeq(u) = ss[1] \o ss[2]
  BY <1>2, FlattenFew
<1> HIDE DEF S
<1>4. u \in Seq(S) /\ Append(u, ss[3]) = ss
  BY <1>2 DEF S
<1> HIDE DEF u
<1> QED BY <1>1, <1>2, <1>3, <1>4

\* Lists of few elements.
LEMMA FewPut ==
  ASSUME NEW Y, NEW x \in Y, NEW y \in Y
  PROVE  /\ <<x>> \o <<y>> = <<x, y>>
         /\ \A q \in Seq(Y) : /\ <<x>> \o q \in Seq(Y) /\ <<x>> \o q # <<>>
                             /\ Len(<<x>> \o q) = Len(q) + 1
                             /\ (<<x>> \o q)[1] = x
                             /\ \A i \in 1 .. Len(q) : (<<x>> \o q)[i + 1] = q[i]
<1> DEFINE s == <<x>>
<1>5. s \in Seq(Y) /\ Len(s) = 1 /\ s[1] = x
  OBVIOUS
<1>6. Append(s, y) = <<x, y>>
  BY TwoTogether
<1> HIDE DEF s
<1>1. s \o <<y>> = Append(s, y)
  <2>1. \A u \in Seq(Y) : u \o <<y>> = Append(u, y)
    OBVIOUS
  <2> QED BY <1>5, <2>1
<1>3. ASSUME NEW q \in Seq(Y)
      PROVE  /\ s \o q \in Seq(Y)
             /\ Len(s \o q) = Len(q) + 1
             /\ (s \o q)[1] = x
             /\ \A i \in 1 .. Len(q) : (s \o q)[i + 1] = q[i]
  <2>0. s \in Seq(Y) /\ q \in Seq(Y) /\ Len(q) \in Nat
    BY <1>5
  <2>1. s \o q \in Seq(Y) /\ Len(s \o q) = Len(s) + Len(q)
    BY <2>0
  <2>2. \A i \in 1 .. Len(s) + Len(q) : (s \o q)[i] = IF i <= Len(s) THEN s[i] ELSE q[i - Len(s)]
    BY <2>0
  <2>3. Len(s \o q) = Len(q) + 1
    BY <1>5, <2>0, <2>1
  <2>4. (s \o q)[1] = x
    BY <1>5, <2>0, <2>2
  <2>5. \A i \in 1 .. Len(q) : (s \o q)[i + 1] = q[i]
    <3> TAKE i \in 1 .. Len(q)
    <3>1. i + 1 \in 1 .. Len(s) + Len(q) /\ ~(i + 1 <= Len(s)) /\ i + 1 - Len(s) = i
      BY <1>5, <2>0
    <3> QED BY <2>2, <3>1
  <2> QED BY <2>1, <2>3, <2>4, <2>5
<1>4. \A q \in Seq(Y) : s \o q # <<>>
  <2> TAKE q \in Seq(Y)
  <2>1. Len(s \o q) = Len(q) + 1 /\ Len(q) \in Nat
    BY <1>3
  <2>2. Len(<<>>) = 0
    OBVIOUS
  <2> QED BY <2>1, <2>2
<1> QED BY <1>1, <1>3, <1>4, <1>5, <1>6 DEF s

Between(said) == FlattenSeq([i \in 1 .. Len(said) |-> IF i = 1 THEN said[i] ELSE <<Rule>> \o said[i]])

\* Rules between at most two parts.
LEMMA BetweenFew ==
  ASSUME NEW Y, Rule \in Y, NEW a \in Seq(Y), NEW b \in Seq(Y)
  PROVE  /\ Between(<<>>) = <<>>
         /\ Between(<<a>>) = a
         /\ Between(<<a, b>>) = a \o (<<Rule>> \o b)
<1> DEFINE rb == <<Rule>> \o b
           P(s) == [i \in 1 .. Len(s) |-> IF i = 1 THEN s[i] ELSE <<Rule>> \o s[i]]
<1>1. rb \in Seq(Y)
  BY FewPut
<1>2. P(<<>>) = <<>>
  OBVIOUS
<1>3. P(<<a>>) = <<a>>
  OBVIOUS
<1>4. P(<<a, b>>) = <<a, rb>>
  OBVIOUS
<1>6. \A s : Between(s) = FlattenSeq(P(s))
  BY DEF Between
<1> HIDE DEF rb, P
<1>7. /\ FlattenSeq(<<>>) = <<>>
      /\ FlattenSeq(<<a>>) = a
      /\ FlattenSeq(<<a, rb>>) = a \o rb
  BY <1>1, FlattenFew
<1> QED BY <1>2, <1>3, <1>4, <1>6, <1>7 DEF rb

\* Rules between three parts.
LEMMA BetweenThree ==
  ASSUME NEW Y, Rule \in Y, NEW ss \in Seq(Seq(Y)), Len(ss) = 3
  PROVE  Between(ss) = (ss[1] \o (<<Rule>> \o ss[2])) \o (<<Rule>> \o ss[3])
<1> DEFINE S == Seq(Y)
           r(i) == <<Rule>> \o ss[i]
           p == [i \in 1 .. Len(ss) |-> IF i = 1 THEN ss[i] ELSE <<Rule>> \o ss[i]]
<1>6. ss \in Seq(S)
  OBVIOUS
<1>1. \A i \in 1 .. 3 : ss[i] \in S
  <2> HIDE DEF S
  <2>1. \A i \in 1 .. Len(ss) : ss[i] \in S
    BY <1>6, ElementsIn
  <2>2. 1 \in 1 .. Len(ss) /\ 2 \in 1 .. Len(ss) /\ 3 \in 1 .. Len(ss) /\ 1 .. 3 = 1 .. Len(ss)
    OBVIOUS
  <2> QED BY <2>1, <2>2
<1>2. \A i \in 1 .. 3 : r(i) \in S
  BY <1>1, FewPut
<1>3. p \in Seq(S) /\ Len(p) = 3 /\ p[1] = ss[1] /\ p[2] = r(2) /\ p[3] = r(3)
  <2> HIDE DEF S
  <2>1. p = [i \in 1 .. 3 |-> IF i = 1 THEN ss[i] ELSE r(i)]
    OBVIOUS
  <2> HIDE DEF r, p
  <2> QED BY <1>1, <1>2, <2>1
<1>4. Between(ss) = FlattenSeq(p)
  BY DEF Between
<1> HIDE DEF p, r
<1>5. FlattenSeq(p) = (p[1] \o p[2]) \o p[3]
  BY <1>3, FlattenThree
<1> QED BY <1>3, <1>4, <1>5 DEF r

-----------------------------------------------------------------------------
(* Joining parts.                                                          *)

\* Joining two parts leaves out the empty one.
LEMMA JoinOfTwo ==
  ASSUME NEW Y, Rule \in Y, NEW p \in Seq(Y), NEW q \in Seq(Y)
  PROVE  Join(<<p, q>>) = Ruled(p, q)
<1> DEFINE S == Seq(Y)
           w(x) == IF x # <<>> THEN <<x>> ELSE <<>>
           said == Those(<<p, q>>, LAMBDA x : x # <<>>)
<1>1. \A x \in S : w(x) \in Seq(S)
  OBVIOUS
<1>2. said = FlattenSeq(<<w(p), w(q)>>)
  <2>1. [i \in DOMAIN <<p, q>> |-> IF <<p, q>>[i] # <<>> THEN <<<<p, q>>[i]>> ELSE <<>>] = <<w(p), w(q)>>
    OBVIOUS
  <2> QED BY <2>1 DEF Those
<1>3. FlattenSeq(<<w(p), w(q)>>) = w(p) \o w(q)
  <2>1. \A u, v \in Seq(S) : FlattenSeq(<<u, v>>) = u \o v
    <3> HIDE DEF S
    <3> TAKE u, v \in Seq(S)
    <3> QED BY FlattenFew
  <2>2. w(p) \in Seq(S) /\ w(q) \in Seq(S)
    BY <1>1
  <2> HIDE DEF w, S
  <2> QED BY <2>1, <2>2
<1>4. Join(<<p, q>>) = Between(said)
  BY DEF Join, Between
<1>5. /\ Between(<<>>) = <<>>
      /\ Between(<<p>>) = p
      /\ Between(<<q>>) = q
      /\ Between(<<p, q>>) = p \o (<<Rule>> \o q)
  BY BetweenFew
<1>6. said = w(p) \o w(q)
  BY <1>2, <1>3
<1> HIDE DEF said
<1>7. CASE p = <<>> /\ q = <<>>
  <2>1. said = <<>>
    BY <1>6, <1>7
  <2> QED BY <1>4, <1>5, <1>7, <2>1 DEF Ruled
<1>8. CASE p = <<>> /\ q # <<>>
  <2>1. said = <<q>>
    BY <1>6, <1>8
  <2> QED BY <1>4, <1>5, <1>8, <2>1 DEF Ruled
<1>9. CASE p # <<>> /\ q = <<>>
  <2>1. said = <<p>>
    BY <1>6, <1>9
  <2> QED BY <1>4, <1>5, <1>9, <2>1 DEF Ruled
<1>10. CASE p # <<>> /\ q # <<>>
  <2>1. said = <<p>> \o <<q>>
    BY <1>6, <1>10
  <2>2. <<p>> \o <<q>> = <<p, q>>
    BY FewPut
  <2> QED BY <1>4, <1>5, <1>10, <2>1, <2>2 DEF Ruled
<1> QED BY <1>7, <1>8, <1>9, <1>10

\* Two parts over Y, with a rule between them.
LEMMA RuledTyped ==
  ASSUME NEW Y, Rule \in Y, NEW p \in Seq(Y), NEW q \in Seq(Y)
  PROVE  Ruled(p, q) \in Seq(Y) /\ (Ruled(p, q) = <<>> <=> p = <<>> /\ q = <<>>)
<1> DEFINE rq == <<Rule>> \o q
<1>1. rq \in Seq(Y) /\ rq # <<>>
  BY FewPut
<1> HIDE DEF rq
<1>2. p \o rq \in Seq(Y) /\ p \o rq # <<>>
  BY <1>1
<1> QED BY <1>2 DEF Ruled, rq

\* Joining three parts is joining two, and the third.
LEMMA JoinOfThree ==
  ASSUME NEW Y, Rule \in Y, NEW ss \in Seq(Seq(Y)), Len(ss) = 3
  PROVE  Join(ss) = Ruled(Ruled(ss[1], ss[2]), ss[3])
<1> DEFINE S == Seq(Y)
           w(x) == IF x # <<>> THEN <<x>> ELSE <<>>
           said == Those(ss, LAMBDA x : x # <<>>)
           W == [i \in DOMAIN ss |-> w(ss[i])]
<1>1. \A x \in S : w(x) \in Seq(S)
  OBVIOUS
<1>2. said = FlattenSeq(W)
  BY DEF Those
<1>0. ss \in Seq(S)
  OBVIOUS
<1>7. ss[1] \in S /\ ss[2] \in S /\ ss[3] \in S
  <2> HIDE DEF S
  <2>1. \A i \in 1 .. Len(ss) : ss[i] \in S
    BY <1>0, ElementsIn
  <2>2. 1 \in 1 .. Len(ss) /\ 2 \in 1 .. Len(ss) /\ 3 \in 1 .. Len(ss)
    OBVIOUS
  <2> QED BY <2>1, <2>2
<1>3. said = (w(ss[1]) \o w(ss[2])) \o w(ss[3])
  <2>1. W \in Seq(Seq(S)) /\ Len(W) = 3 /\ W[1] = w(ss[1]) /\ W[2] = w(ss[2]) /\ W[3] = w(ss[3])
    <3>1. DOMAIN ss = 1 .. 3 /\ \A i \in 1 .. 3 : ss[i] \in S
      <4> HIDE DEF S
      <4>1. \A i \in 1 .. Len(ss) : ss[i] \in S
        BY <1>0, ElementsIn
      <4>2. DOMAIN ss = 1 .. Len(ss)
        OBVIOUS
      <4> QED BY <4>1, <4>2
    <3>2. \A i \in 1 .. 3 : w(ss[i]) \in Seq(S)
      BY <1>1, <3>1
    <3> HIDE DEF w, S
    <3> QED BY <3>1, <3>2
  <2> HIDE DEF W, w, S
  <2>2. FlattenSeq(W) = (W[1] \o W[2]) \o W[3]
    BY <2>1, FlattenThree
  <2> QED BY <1>2, <2>1, <2>2
<1>4. Join(ss) = Between(said)
  BY DEF Join, Between
<1>5. \A x, y \in S : /\ Between(<<>>) = <<>>
                      /\ Between(<<x>>) = x
                      /\ Between(<<x, y>>) = x \o (<<Rule>> \o y)
  <2> TAKE x, y \in S
  <2> QED BY BetweenFew
<1>6. \A x, y \in S : <<x>> \o <<y>> = <<x, y>>
  <2> HIDE DEF S
  <2> QED BY FewPut
<1>8. PICK p \in S, q \in S, r \in S : p = ss[1] /\ q = ss[2] /\ r = ss[3]
  BY <1>7
<1>9. Between(ss) = (p \o (<<Rule>> \o q)) \o (<<Rule>> \o r)
  BY <1>8, BetweenThree
<1>10. Ruled(p, q) = <<>> <=> p = <<>> /\ q = <<>>
  BY RuledTyped
<1>11. ss = <<p, q, r>>
  BY <1>8
<1>12. said = (w(p) \o w(q)) \o w(r)
  BY <1>3, <1>8
<1> HIDE DEF said, S
<1> SUFFICES Join(ss) = Ruled(Ruled(p, q), r)
  BY <1>8
<1>13. \A x : <<>> \o <<x>> = <<x>> /\ <<x>> \o <<>> = <<x>>
  OBVIOUS
<1>14. CASE p = <<>> /\ q = <<>>
  <2>1. CASE r = <<>>
    <3>1. said = <<>>
      BY <1>12, <1>14, <2>1
    <3> QED BY <1>4, <1>5, <1>8, <1>14, <2>1, <3>1 DEF Ruled
  <2>2. CASE r # <<>>
    <3>1. said = <<r>>
      BY <1>12, <1>14, <2>2
    <3> QED BY <1>4, <1>5, <1>8, <1>14, <2>2, <3>1 DEF Ruled
  <2> QED BY <2>1, <2>2
<1>15. CASE p = <<>> /\ q # <<>>
  <2>0. said = <<q>> \o w(r)
    <3>1. w(p) \o w(q) = <<q>>
      BY <1>13, <1>15
    <3> HIDE DEF w
    <3> QED BY <1>12, <3>1
  <2>1. CASE r = <<>>
    <3>1. said = <<q>>
      BY <1>13, <2>0, <2>1
    <3> QED BY <1>4, <1>5, <1>8, <1>15, <2>1, <3>1 DEF Ruled
  <2>2. CASE r # <<>>
    <3>1. said = <<q, r>>
      BY <1>6, <1>8, <2>0, <2>2
    <3> QED BY <1>4, <1>5, <1>8, <1>15, <2>2, <3>1 DEF Ruled
  <2> QED BY <2>1, <2>2
<1>16. CASE p # <<>> /\ q = <<>>
  <2>0. said = <<p>> \o w(r)
    <3>1. w(p) \o w(q) = <<p>>
      BY <1>13, <1>16
    <3> HIDE DEF w
    <3> QED BY <1>12, <3>1
  <2>1. CASE r = <<>>
    <3>1. said = <<p>>
      BY <1>13, <2>0, <2>1
    <3> QED BY <1>4, <1>5, <1>8, <1>16, <2>1, <3>1 DEF Ruled
  <2>2. CASE r # <<>>
    <3>1. said = <<p, r>>
      BY <1>6, <1>8, <2>0, <2>2
    <3> QED BY <1>4, <1>5, <1>8, <1>16, <2>2, <3>1 DEF Ruled
  <2> QED BY <2>1, <2>2
<1>17. CASE p # <<>> /\ q # <<>>
  <2>0. said = <<p, q>> \o w(r)
    <3>1. w(p) \o w(q) = <<p, q>>
      BY <1>6, <1>8, <1>17
    <3> HIDE DEF w
    <3> QED BY <1>12, <3>1
  <2>3. Ruled(p, q) = p \o (<<Rule>> \o q) /\ Ruled(p, q) # <<>>
    BY <1>10, <1>17 DEF Ruled
  <2>1. CASE r = <<>>
    <3>1. said = <<p, q>>
      BY <2>0, <2>1
    <3>2. Between(<<p, q>>) = p \o (<<Rule>> \o q)
      BY <1>5, <1>8
    <3> QED BY <1>4, <2>1, <2>3, <3>1, <3>2 DEF Ruled
  <2>2. CASE r # <<>>
    <3>1. said = ss
      <4>1. said = <<p, q>> \o <<r>>
        BY <2>0, <2>2
      <4>2. <<p, q>> \o <<r>> = Append(<<p, q>>, r)
        <5>1. \A u \in Seq(S) : u \o <<r>> = Append(u, r)
          BY <1>8
        <5>2. <<p, q>> \in Seq(S)
          BY <1>8
        <5> QED BY <5>1, <5>2
      <4>3. Append(<<p, q>>, r) = <<p, q, r>>
        BY ThreeTogether
      <4> QED BY <1>11, <4>1, <4>2, <4>3
    <3>2. Ruled(Ruled(p, q), r) = Ruled(p, q) \o (<<Rule>> \o r)
      BY <2>2, <2>3 DEF Ruled
    <3> QED BY <1>4, <1>9, <2>3, <3>1, <3>2
  <2> QED BY <2>1, <2>2
<1> QED BY <1>14, <1>15, <1>16, <1>17

-----------------------------------------------------------------------------
(* What the sections and the brief are made of.                            *)

Picked(s, T) == FlattenSeq([i \in DOMAIN s |-> IF i \in T THEN <<s[i]>> ELSE <<>>])

\* Elements picked by their places.
LEMMA PickedTyped ==
  ASSUME NEW X, NEW s \in Seq(X), NEW T
  PROVE  Picked(s, T) \in Seq(X)
<1> DEFINE f == [i \in 1 .. Len(s) |-> IF i \in T THEN <<s[i]>> ELSE <<>>]
<1>1. Len(s) \in Nat /\ DOMAIN s = 1 .. Len(s) /\ \A i \in 1 .. Len(s) : s[i] \in X
  OBVIOUS
<1>2. \A i \in 1 .. Len(s) : f[i] \in Seq(X)
  <2>1. <<>> \in Seq(X) /\ \A x \in X : <<x>> \in Seq(X)
    OBVIOUS
  <2> QED BY <1>1, <2>1
<1>3. Picked(s, T) = FlattenSeq([i \in 1 .. Len(s) |-> f[i]])
  BY <1>1 DEF Picked
<1> HIDE DEF f
<1> QED BY <1>1, <1>2, <1>3, FlattenTyped

\* The numbers of the blocks a test keeps.
LEMMA IdsTyped ==
  ASSUME NEW bs \in Seq(Blocks), NEW T
  PROVE  [i \in 1 .. Len(Picked(bs, T)) |-> Picked(bs, T)[i].id] \in Seq(Nat)
<1> DEFINE B == Blocks
           s == Picked(bs, T)
<1>1. bs \in Seq(B) /\ \A b \in B : b.id \in Nat
  BY DEF Blocks
<1> HIDE DEF B
<1>2. s \in Seq(B)
  BY <1>1, PickedTyped
<1> HIDE DEF s
<1>3. Len(s) \in Nat /\ \A i \in 1 .. Len(s) : s[i] \in B
  BY <1>2
<1>4. \A i \in 1 .. Len(s) : s[i].id \in Nat
  BY <1>1, <1>3
<1>5. [i \in 1 .. Len(s) |-> s[i].id] \in Seq(Nat)
  BY <1>3, <1>4
<1> QED BY <1>5 DEF s

\* Numbers become items of one section.
LEMMA MarkTyped ==
  ASSUME NEW s \in Seq(Nat), NEW h \in Words
  PROVE  Mark(h, s) \in Seq(Items) /\ (Mark(h, s) = <<>> <=> s = <<>>)
<1> DEFINE T == Items
           m == [i \in 1 .. Len(s) |-> Item(h, s[i])]
<1>1. \A v \in Nat : Item(h, v) \in T
  BY LinesTyped
<1>2. Len(s) \in Nat /\ \A i \in 1 .. Len(s) : s[i] \in Nat
  OBVIOUS
<1>3. \A i \in 1 .. Len(s) : Item(h, s[i]) \in T
  BY <1>1, <1>2
<1> HIDE DEF T
<1>4. m \in Seq(T) /\ Len(m) = Len(s)
  BY <1>2, <1>3
<1> HIDE DEF m
<1>5. m = <<>> <=> s = <<>>
  BY <1>4
<1> QED BY <1>4, <1>5 DEF Mark, m, T

\* Goals are numbers of blocks, or the marker.
LEMMA GoalsTyped ==
  ASSUME NEW bs \in Seq(Blocks)
  PROVE  ExtractGoals(bs) \in Seq(Nat)
<1> DEFINE B == Blocks
           asked == {i \in DOMAIN bs : bs[i].k = "user" /\ bs[i].v \in {"task", "prefer"}}
           tasks == Picked(bs, asked)
           later == {i \in DOMAIN Tail(tasks) : Tail(tasks)[i].v = "task"}
           scopes == Picked(Tail(tasks), later)
<1>1. bs \in Seq(B) /\ \A b \in B : b.id \in Nat
  BY DEF Blocks
<1> HIDE DEF B
<1>2. tasks \in Seq(B)
  BY <1>1, PickedTyped
<1>3. ExtractGoals(bs) = IF tasks = <<>> THEN <<>>
                         ELSE IF scopes = <<>> THEN <<tasks[1].id>>
                         ELSE <<tasks[1].id, 0, scopes[Len(scopes)].id>>
  <2>1. Those(bs, LAMBDA b : b.k = "user" /\ b.v \in {"task", "prefer"}) = tasks
    <3>1. [i \in DOMAIN bs |-> IF bs[i].k = "user" /\ bs[i].v \in {"task", "prefer"} THEN <<bs[i]>> ELSE <<>>]
            = [i \in DOMAIN bs |-> IF i \in asked THEN <<bs[i]>> ELSE <<>>]
      OBVIOUS
    <3> QED BY <3>1 DEF Those, Picked
  <2>2. Those(Tail(tasks), LAMBDA b : b.v = "task") = scopes
    <3> HIDE DEF tasks
    <3>1. [i \in DOMAIN Tail(tasks) |-> IF Tail(tasks)[i].v = "task" THEN <<Tail(tasks)[i]>> ELSE <<>>]
            = [i \in DOMAIN Tail(tasks) |-> IF i \in later THEN <<Tail(tasks)[i]>> ELSE <<>>]
      OBVIOUS
    <3> QED BY <3>1 DEF Those, Picked
  <2> HIDE DEF tasks, scopes
  <2> QED BY <2>1, <2>2 DEF ExtractGoals
<1>4. tasks # <<>> => scopes \in Seq(B)
  <2> HIDE DEF tasks, later
  <2>1. tasks # <<>> => Tail(tasks) \in Seq(B)
    BY <1>2
  <2> QED BY <2>1, PickedTyped
<1> HIDE DEF tasks, scopes
<1>5. tasks # <<>> => tasks[1].id \in Nat
  <2>1. tasks # <<>> => tasks[1] \in B
    BY <1>2
  <2> QED BY <1>1, <2>1
<1>6. tasks # <<>> /\ scopes # <<>> => scopes[Len(scopes)].id \in Nat
  <2>1. tasks # <<>> /\ scopes # <<>> => scopes[Len(scopes)] \in B
    BY <1>4
  <2> QED BY <1>1, <2>1
<1> QED BY <1>3, <1>5, <1>6

\* What the extractors give is items, and of files the two there are.
LEMMA SectionsTyped ==
  ASSUME NEW bs \in Seq(Blocks)
  PROVE  /\ \A h \in HeaderNames : Sections(bs)[h] \in Seq(Items)
         /\ Sections(bs).files \in Seq(FileItems)
<1> DEFINE B == Blocks
<1>0. bs \in Seq(B)
  OBVIOUS
<1>1. ExtractGoals(bs) \in Seq(Nat)
  BY GoalsTyped
<1>2. ItemCap \in Nat /\ Window \in Nat
  BY CompactionAssumption
<1>3. ExtractCommits(bs) \in Seq(Nat)
  <2> DEFINE T == {i \in DOMAIN bs : bs[i].k = "bash" /\ bs[i].v = "commit"}
             ids == [i \in 1 .. Len(Picked(bs, T)) |-> Picked(bs, T)[i].id]
  <2>1. Those(bs, LAMBDA b : b.k = "bash" /\ b.v = "commit") = Picked(bs, T)
    <3>1. [i \in DOMAIN bs |-> IF bs[i].k = "bash" /\ bs[i].v = "commit" THEN <<bs[i]>> ELSE <<>>]
            = [i \in DOMAIN bs |-> IF i \in T THEN <<bs[i]>> ELSE <<>>]
      OBVIOUS
    <3> QED BY <3>1 DEF Those, Picked
  <2>2. ids \in Seq(Nat)
    BY IdsTyped
  <2>3. Ids(bs, LAMBDA b : b.k = "bash" /\ b.v = "commit") = ids
    <3> HIDE DEF T
    <3> QED BY <2>1 DEF Ids
  <2> HIDE DEF ids
  <2> QED BY <1>2, <2>2, <2>3, LastOfLaws DEF ExtractCommits
<1>4. ExtractOutstanding(bs) \in Seq(Nat)
  <2> DEFINE last == LastOf(bs, Window)
             T == {i \in DOMAIN last : last[i].k = "assistant" /\ last[i].v = "trouble"}
             ids == [i \in 1 .. Len(Picked(last, T)) |-> Picked(last, T)[i].id]
  <2>0. last \in Seq(Blocks)
    BY <1>2, LastOfLaws
  <2> HIDE DEF last
  <2>1. Those(last, LAMBDA b : b.k = "assistant" /\ b.v = "trouble") = Picked(last, T)
    <3>1. [i \in DOMAIN last |-> IF last[i].k = "assistant" /\ last[i].v = "trouble" THEN <<last[i]>> ELSE <<>>]
            = [i \in DOMAIN last |-> IF i \in T THEN <<last[i]>> ELSE <<>>]
      OBVIOUS
    <3> QED BY <3>1 DEF Those, Picked
  <2>2. ids \in Seq(Nat)
    BY <2>0, IdsTyped
  <2>3. Ids(last, LAMBDA b : b.k = "assistant" /\ b.v = "trouble") = ids
    <3> HIDE DEF T
    <3> QED BY <2>1 DEF Ids
  <2> HIDE DEF ids
  <2>4. First(ids, ItemCap) \in Seq(Nat)
    BY <1>2, <2>2, FirstTyped
  <2> QED BY <2>3, <2>4 DEF ExtractOutstanding, last
<1>5. ExtractPreferences(bs) \in Seq(Nat)
  <2> DEFINE T == {i \in DOMAIN bs : bs[i].k = "user" /\ bs[i].v = "prefer"}
             ids == [i \in 1 .. Len(Picked(bs, T)) |-> Picked(bs, T)[i].id]
             R == {i \in DOMAIN ids : ids[i] \notin ToSet(ExtractGoals(bs))}
  <2>1. Those(bs, LAMBDA b : b.k = "user" /\ b.v = "prefer") = Picked(bs, T)
    <3>1. [i \in DOMAIN bs |-> IF bs[i].k = "user" /\ bs[i].v = "prefer" THEN <<bs[i]>> ELSE <<>>]
            = [i \in DOMAIN bs |-> IF i \in T THEN <<bs[i]>> ELSE <<>>]
      OBVIOUS
    <3> QED BY <3>1 DEF Those, Picked
  <2>2. ids \in Seq(Nat)
    BY IdsTyped
  <2>3. Ids(bs, LAMBDA b : b.k = "user" /\ b.v = "prefer") = ids
    <3> HIDE DEF T
    <3> QED BY <2>1 DEF Ids
  <2> HIDE DEF ids
  <2>4. Those(ids, LAMBDA id : id \notin ToSet(ExtractGoals(bs))) = Picked(ids, R)
    <3>1. [i \in DOMAIN ids |-> IF ids[i] \notin ToSet(ExtractGoals(bs)) THEN <<ids[i]>> ELSE <<>>]
            = [i \in DOMAIN ids |-> IF i \in R THEN <<ids[i]>> ELSE <<>>]
      OBVIOUS
    <3> QED BY <3>1 DEF Those, Picked
  <2> HIDE DEF R
  <2>5. Picked(ids, R) \in Seq(Nat)
    BY <2>2, PickedTyped
  <2>6. First(Picked(ids, R), ItemCap) \in Seq(Nat)
    BY <1>2, <2>5, FirstTyped
  <2> QED BY <2>3, <2>4, <2>6 DEF ExtractPreferences
<1>6. FileActivity(bs) \in Seq(FileItems)
  <2> DEFINE F == FileItems
             x == Item("modified", 0)
             y == Item("read", 0)
  <2>1. x \in F /\ y \in F
    BY DEF FileItems
  <2> HIDE DEF F, x, y
  <2>2. \A a, b \in Seq(F) : a \o b \in Seq(F)
    OBVIOUS
  <2>3. <<>> \in Seq(F) /\ <<x>> \in Seq(F) /\ <<y>> \in Seq(F)
    BY <2>1
  <2>4. \A c, d \in BOOLEAN : (IF c THEN <<x>> ELSE <<>>) \o (IF d THEN <<y>> ELSE <<>>) \in Seq(F)
    BY <2>2, <2>3
  <2>5. \E c, d \in BOOLEAN : FileActivity(bs) = (IF c THEN <<x>> ELSE <<>>) \o (IF d THEN <<y>> ELSE <<>>)
    <3> DEFINE c == Those(bs, LAMBDA b : b.k = "call" /\ b.v = "edit") # <<>>
               d == Those(bs, LAMBDA b : b.k = "call" /\ b.v = "read") # <<>>
    <3>1. c \in BOOLEAN /\ d \in BOOLEAN
      OBVIOUS
    <3>2. FileActivity(bs) = (IF c THEN <<x>> ELSE <<>>) \o (IF d THEN <<y>> ELSE <<>>)
      BY DEF FileActivity, x, y
    <3> HIDE DEF c, d
    <3> QED BY <3>1, <3>2
  <2> QED BY <2>4, <2>5 DEF F
<1>7. FileActivity(bs) \in Seq(Items)
  <2>1. FileItems \subseteq Items
    BY LinesTyped
  <2> DEFINE I == Items
             F == FileItems
  <2>2. F \subseteq I
    BY <2>1
  <2> HIDE DEF I, F
  <2>3. \A s \in Seq(F) : s \in Seq(I)
    BY <2>2
  <2> QED BY <1>6, <2>3 DEF F, I
<1>8. {"goal", "commits", "outstanding", "preferences"} \subseteq Words
  BY DEF Words, HeaderNames
<1>9. /\ Mark("goal", ExtractGoals(bs)) \in Seq(Items)
      /\ Mark("commits", ExtractCommits(bs)) \in Seq(Items)
      /\ Mark("outstanding", ExtractOutstanding(bs)) \in Seq(Items)
      /\ Mark("preferences", ExtractPreferences(bs)) \in Seq(Items)
  BY <1>1, <1>3, <1>4, <1>5, <1>8, MarkTyped
<1> QED BY <1>6, <1>7, <1>9 DEF Sections, HeaderNames

-----------------------------------------------------------------------------
(* A fresh summary: headed sections, and a brief.                          *)

\* The ranked selection selects blocks.
LEMMA SelectTyped ==
  ASSUME NEW bs \in Seq(Blocks)
  PROVE  SelectBrief(bs) \in Seq(Blocks)
<1> DEFINE B == Blocks
           all == [i \in DOMAIN bs |-> i]
           P == DOMAIN bs
<1>0. bs \in Seq(B)
  OBVIOUS
<1> HIDE DEF B
<1>1. P = 1 .. Len(bs) /\ Len(bs) \in Nat /\ \A i \in P : bs[i] \in B
  BY <1>0
<1>2. all \in Seq(P)
  BY <1>1
<1>3. PICK T : SelectBrief(bs) = [n \in DOMAIN Picked(all, T) |-> bs[Picked(all, T)[n]]]
  <2> DEFINE newest == Reverse(LastOf(all, RecentBlocks))
             best == SortSeq(all, LAMBDA i, j :
                       \/ Score(bs, i) > Score(bs, j)
                       \/ Score(bs, i) = Score(bs, j) /\ i > j)
             chosen == Take(bs, best, Take(bs, newest, {}))
             kept == Those(all, LAMBDA i : i \in chosen)
             T == {i \in DOMAIN all : all[i] \in chosen}
  <2>1. SelectBrief(bs) = [n \in DOMAIN kept |-> bs[kept[n]]]
    BY DEF SelectBrief
  <2> HIDE DEF chosen
  <2>2. kept = Picked(all, T)
    <3> HIDE DEF all
    <3>1. [i \in DOMAIN all |-> IF all[i] \in chosen THEN <<all[i]>> ELSE <<>>]
            = [i \in DOMAIN all |-> IF i \in T THEN <<all[i]>> ELSE <<>>]
      OBVIOUS
    <3> QED BY <3>1 DEF Those, Picked
  <2> HIDE DEF kept, T, all
  <2> QED BY <2>1, <2>2
<1> DEFINE kept == Picked(all, T)
<1> HIDE DEF all
<1>4. kept \in Seq(P)
  BY <1>2, PickedTyped
<1> HIDE DEF kept, P
<1>5. Len(kept) \in Nat /\ DOMAIN kept = 1 .. Len(kept) /\ \A n \in 1 .. Len(kept) : bs[kept[n]] \in B
  <2>1. \A n \in 1 .. Len(kept) : kept[n] \in P
    BY <1>4, ElementsIn
  <2>2. Len(kept) \in Nat /\ DOMAIN kept = 1 .. Len(kept)
    BY <1>4
  <2> QED BY <1>1, <2>1, <2>2
<1>6. [n \in DOMAIN kept |-> bs[kept[n]]] \in Seq(B)
  BY <1>5
<1> QED BY <1>3, <1>6 DEF kept, B

\* A brief is made of roles, lines and omissions.
LEMMA BriefTyped ==
  ASSUME NEW bs \in Seq(Blocks)
  PROVE  CompileBrief(bs) \in Seq(Transcript)
<1> DEFINE T == Transcript
           new(i) == i = 1 \/ Speaker(bs[i - 1]) # Speaker(bs[i])
           turn(i) == Max({j \in 1 .. i : new(j)})
           later(i) == Cardinality({j \in DOMAIN bs : /\ j > i /\ turn(j) = turn(i)
                                                      /\ bs[j].k = "call"})
           calls(i) == Cardinality({j \in DOMAIN bs : turn(j) = turn(i) /\ bs[j].k = "call"})
           line(i) ==
             CASE bs[i].k = "call" /\ later(i) >= ToolCap -> <<>>
               [] bs[i].k = "call" /\ later(i) = ToolCap - 1 /\ calls(i) > ToolCap
                  -> <<Omitted("calls"), Line(bs[i].k, bs[i].id)>>
               [] OTHER -> <<Line(bs[i].k, bs[i].id)>>
           head(i) == IF new(i) THEN <<Role(Speaker(bs[i]))>> ELSE <<>>
           f == [i \in 1 .. Len(bs) |-> head(i) \o line(i)]
<1>1. Len(bs) \in Nat /\ DOMAIN bs = 1 .. Len(bs)
      /\ \A i \in 1 .. Len(bs) : bs[i].k \in BlockKinds /\ bs[i].id \in Nat
  <2> DEFINE B == Blocks
  <2>1. \A b \in B : b.k \in BlockKinds /\ b.id \in Nat
    BY DEF Blocks
  <2>2. bs \in Seq(B)
    OBVIOUS
  <2> HIDE DEF B
  <2> QED BY <2>1, <2>2
<1>2. CompileBrief(bs) = FlattenSeq(f)
  BY <1>1 DEF CompileBrief
<1>3. \A i \in 1 .. Len(bs) : /\ Line(bs[i].k, bs[i].id) \in T
                              /\ Role(Speaker(bs[i])) \in T
                              /\ Omitted("calls") \in T
  <2> HIDE DEF T
  <2> QED BY <1>1, LinesTyped DEF Speaker, T
<1> HIDE DEF later, calls, new, T
<1>4. ASSUME NEW i \in 1 .. Len(bs) PROVE head(i) \o line(i) \in Seq(T)
  <2>1. head(i) \in Seq(T)
    BY <1>3
  <2>2. line(i) \in Seq(T)
    BY <1>3
  <2> HIDE DEF head, line
  <2> QED BY <2>1, <2>2
<1> HIDE DEF head, line
<1>5. FlattenSeq([i \in 1 .. Len(bs) |-> f[i]]) \in Seq(T)
  <2>1. \A i \in 1 .. Len(bs) : f[i] \in Seq(T)
    BY <1>4
  <2> HIDE DEF f
  <2> QED BY <1>1, <2>1, FlattenTyped
<1>6. f = [i \in 1 .. Len(bs) |-> f[i]]
  OBVIOUS
<1> QED BY <1>2, <1>5, <1>6 DEF T

Telling(h) == IF h = "files" THEN FileItems ELSE Items
Headed ==
  {s \in Seq(Said) : s = <<>> \/ /\ Len(s) >= 2
                                 /\ \E h \in HeaderNames : s[1] = Tag(h) /\ s[2] \in Telling(h)}

\* Sections that start with a heading and an item still do after others.
LEMMA HeadedClosed ==
  ASSUME NEW a \in Headed, NEW b \in Headed
  PROVE  a \o b \in Headed
<1> DEFINE S == Said
<1>1. a \in Seq(S) /\ b \in Seq(S)
  BY DEF Headed
<1> HIDE DEF S
<1>2. a \o b \in Seq(S) /\ Len(a) \in Nat /\ Len(b) \in Nat /\ Len(a \o b) = Len(a) + Len(b)
  BY <1>1
<1>3. CASE a = <<>>
  <2>1. a \o b = b
    BY <1>1, <1>3
  <2> QED BY <2>1
<1>4. CASE a # <<>>
  <2>1. Len(a) >= 2
    BY <1>4 DEF Headed
  <2>2. (a \o b)[1] = a[1] /\ (a \o b)[2] = a[2]
    BY <1>1, <2>1
  <2>3. Len(a \o b) >= 2
    BY <1>2, <2>1
  <2> QED BY <1>2, <1>4, <2>2, <2>3 DEF Headed, S
<1> QED BY <1>3, <1>4

\* A heading before its items.
LEMMA TaggedTyped ==
  ASSUME NEW Y, NEW h, Tag(h) \in Y, NEW items \in Seq(Y)
  PROVE  /\ Tagged(h, items) \in Seq(Y)
         /\ Tagged(h, items) = <<>> <=> items = <<>>
         /\ items # <<>> => /\ Len(Tagged(h, items)) >= 2
                            /\ Tagged(h, items)[1] = Tag(h)
                            /\ Tagged(h, items)[2] = items[1]
<1> DEFINE t == <<Tag(h)>> \o items
<1>1. /\ t \in Seq(Y) /\ t # <<>> /\ Len(t) = Len(items) + 1 /\ t[1] = Tag(h)
      /\ \A i \in 1 .. Len(items) : t[i + 1] = items[i]
  BY FewPut
<1> HIDE DEF t
<1>2. items # <<>> => Len(items) \in Nat /\ 1 \in 1 .. Len(items)
  OBVIOUS
<1>3. items # <<>> => Len(t) >= 2 /\ t[2] = items[1]
  BY <1>1, <1>2
<1> QED BY <1>1, <1>3 DEF Tagged, t

\* A section is empty, or a heading and an item of its own.
LEMMA TaggedHeaded ==
  ASSUME NEW h \in HeaderNames, NEW items \in Seq(Items), h = "files" => items \in Seq(FileItems)
  PROVE  Tagged(h, items) \in Headed
<1> DEFINE S == Said
           I == Items
           F == FileItems
<1>1. Tag(h) \in S /\ I \subseteq S /\ F \subseteq I
  BY LinesTyped
<1>5. items \in Seq(I) /\ (h = "files" => items \in Seq(F))
  OBVIOUS
<1> HIDE DEF S, I, F
<1>2. items \in Seq(S)
  BY <1>1, <1>5
<1>3. items # <<>> => items[1] \in I /\ (h = "files" => items[1] \in F)
  BY <1>5
<1>4. /\ Tagged(h, items) \in Seq(S)
      /\ items # <<>> => /\ Len(Tagged(h, items)) >= 2
                         /\ Tagged(h, items)[1] = Tag(h)
                         /\ Tagged(h, items)[2] = items[1]
      /\ items = <<>> => Tagged(h, items) = <<>>
  BY <1>1, <1>2, TaggedTyped
<1>6. items # <<>> => Tagged(h, items)[2] \in Telling(h)
  BY <1>3, <1>4 DEF Telling, I, F
<1> QED BY <1>4, <1>6 DEF Headed, S

\* A fresh summary is headed sections, a rule and a brief.
LEMMA FormatIs ==
  ASSUME NEW bs \in Seq(Blocks)
  PROVE  \E secs \in Headed, brief \in Seq(Transcript) : FormatSummary(bs) = Ruled(secs, brief)
<1> DEFINE data == Sections(bs)
           f == [i \in 1 .. 5 |-> Tagged(Headers[i], data[Headers[i]])]
           secs == FlattenSeq([i \in DOMAIN Headers |-> Tagged(Headers[i], data[Headers[i]])])
           brief == CompileBrief(SelectBrief(bs))
<1>1. DOMAIN Headers = 1 .. 5 /\ \A i \in 1 .. 5 : Headers[i] \in HeaderNames
  BY DEF Headers, HeaderNames
<1>2. FormatSummary(bs) = Join(<<secs, brief>>)
  BY DEF FormatSummary
<1>3. \A h \in HeaderNames : data[h] \in Seq(Items) /\ (h = "files" => data[h] \in Seq(FileItems))
  BY SectionsTyped
<1> HIDE DEF data
<1>4. \A h \in HeaderNames : Tagged(h, data[h]) \in Headed
  BY <1>3, TaggedHeaded
<1>5. \A i \in 1 .. 5 : f[i] \in Headed
  BY <1>1, <1>4
<1>6. secs = FlattenSeq([i \in 1 .. 5 |-> f[i]])
  BY <1>1
<1> HIDE DEF f, secs
<1>7. secs \in Headed
  <2> DEFINE S == Said
             H == Headed
  <2>1. H \in SUBSET Seq(S) /\ <<>> \in H /\ \A a, b \in H : a \o b \in H
    BY HeadedClosed DEF Headed
  <2>2. \A i \in 1 .. 5 : f[i] \in H
    BY <1>5
  <2> HIDE DEF S, H
  <2>3. 5 \in Nat
    OBVIOUS
  <2>4. FlattenSeq([i \in 1 .. 5 |-> f[i]]) \in H
    BY <2>1, <2>2, <2>3, FlattenClosed
  <2> QED BY <1>6, <2>4 DEF H
<1>8. brief \in Seq(Transcript)
  BY SelectTyped, BriefTyped
<1> HIDE DEF brief
<1>9. Join(<<secs, brief>>) = Ruled(secs, brief)
  <2> DEFINE W == Written
  <2>1. Rule \in W /\ secs \in Seq(W) /\ brief \in Seq(W)
    <3> DEFINE S == Said
               T == Transcript
    <3>1. S \subseteq W /\ T \subseteq W /\ Rule \in W /\ secs \in Seq(S) /\ brief \in Seq(T)
      BY <1>7, <1>8, LinesTyped DEF Headed
    <3> HIDE DEF S, T, W
    <3> QED BY <3>1
  <2> HIDE DEF W
  <2> QED BY <2>1, JoinOfTwo
<1> QED BY <1>2, <1>7, <1>8, <1>9

-----------------------------------------------------------------------------
(* Parts of a text.                                                        *)

Plain(t) == \A i \in 1 .. Len(t) : t[i] # Rule
Ended(t) == t # <<>> => t[Len(t)] # Rule

\* A piece of a list, and its elements.
LEMMA PieceOf ==
  ASSUME NEW Y, NEW s \in Seq(Y), NEW m \in Nat \ {0}, NEW n \in Nat, n <= Len(s)
  PROVE  /\ SubSeq(s, m, n) \in Seq(Y)
         /\ \A k \in 1 .. Len(SubSeq(s, m, n)) : /\ SubSeq(s, m, n)[k] = s[m + k - 1]
                                                 /\ m + k - 1 \in m .. n
         /\ m <= n => Len(SubSeq(s, m, n)) = n - m + 1
         /\ m > n => SubSeq(s, m, n) = <<>>
<1>1. Len(s) \in Nat
  OBVIOUS
<1>2. SubSeq(s, m, n) \in Seq(Y) /\ Len(SubSeq(s, m, n)) = IF m <= n THEN n - m + 1 ELSE 0
  BY <1>1
<1>3. \A k \in 1 .. (IF m <= n THEN n - m + 1 ELSE 0) : SubSeq(s, m, n)[k] = s[m + k - 1]
  BY <1>1
<1>4. m > n => SubSeq(s, m, n) = <<>>
  BY <1>2
<1> QED BY <1>2, <1>3, <1>4

\* A section of a text is a piece of it without a rule.
LEMMA SectionOfTyped ==
  ASSUME NEW Y, NEW text \in Seq(Y), NEW h
  PROVE  SectionOf(text, h) \in Seq(Y) /\ (Ended(text) => Plain(SectionOf(text, h)))
<1> DEFINE n == Len(text)
           tags == {i \in DOMAIN text : text[i] = Tag(h)}
           start == Min(tags)
           stops == {i \in start + 1 .. Len(text) :
                       IsRule(text, i) \/ (text[i].a = "tag" /\ text[i].h # h)}
           end == IF stops = {} THEN Len(text) ELSE Min(stops) - 1
           part == SubSeq(text, start + 1, end)
<1>1. SectionOf(text, h) = IF tags = {} THEN <<>> ELSE part
  BY DEF SectionOf
<1>2. n \in Nat /\ DOMAIN text = 1 .. n
  OBVIOUS
<1>3. CASE tags = {}
  BY <1>1, <1>3 DEF Plain
<1>4. CASE tags # {}
  <2>1. start \in 1 .. n
    <3>1. tags \in SUBSET (0 .. n)
      BY <1>2
    <3>2. \A i \in tags : i \in 1 .. n
      BY <1>2
    <3> HIDE DEF tags, n
    <3> QED BY <1>2, <1>4, <3>1, <3>2, SmallestIn
  <2> HIDE DEF tags, start
  <2>2. stops # {} => Min(stops) \in stops /\ \A y \in stops : Min(stops) <= y
    <3>1. stops \in SUBSET (0 .. n)
      BY <1>2, <2>1
    <3> HIDE DEF stops, n
    <3> QED BY <1>2, <3>1, SmallestIn
  <2>3. \A i \in stops : i \in start + 1 .. n
    OBVIOUS
  <2>4. \A i \in start + 1 .. n : text[i] = Rule /\ i < n => i \in stops
    BY DEF IsRule
  <2> HIDE DEF stops
  <2>5. end \in start .. n
    <3> HIDE DEF n
    <3> QED BY <1>2, <2>1, <2>2, <2>3 DEF n
  <2>6. \A i \in start + 1 .. end : i \notin stops
    <3> HIDE DEF n
    <3> QED BY <1>2, <2>1, <2>2, <2>3
  <2> HIDE DEF end
  <2>7. /\ part \in Seq(Y)
        /\ \A k \in 1 .. Len(part) : part[k] = text[start + k] /\ start + k \in start + 1 .. end
    <3>1. start + 1 \in Nat \ {0} /\ end \in Nat /\ end <= Len(text)
      BY <1>2, <2>1, <2>5
    <3>2. /\ part \in Seq(Y)
          /\ \A k \in 1 .. Len(part) : /\ part[k] = text[start + 1 + k - 1]
                                       /\ start + 1 + k - 1 \in start + 1 .. end
      BY <3>1, PieceOf
    <3> HIDE DEF part
    <3>3. \A k \in Nat : start + 1 + k - 1 = start + k
      BY <2>1
    <3>4. \A k \in 1 .. Len(part) : k \in Nat
      OBVIOUS
    <3> QED BY <3>2, <3>3, <3>4
  <2> HIDE DEF part
  <2>8. ASSUME Ended(text), NEW k \in 1 .. Len(part) PROVE part[k] # Rule
    <3>1. PICK i \in start + 1 .. end : part[k] = text[i]
      BY <2>7
    <3>2. i \in start + 1 .. n /\ i \notin stops
      BY <2>1, <2>5, <2>6, <3>1
    <3>3. CASE i < n
      BY <2>4, <3>1, <3>2, <3>3
    <3>4. CASE i = n
      <4>1. text # <<>>
        BY <1>2, <2>1
      <4> QED BY <2>8, <3>1, <3>4, <4>1 DEF Ended
    <3>5. i < n \/ i = n
      <4> HIDE DEF n
      <4> QED BY <1>2, <2>1, <3>2
    <3> QED BY <3>3, <3>4, <3>5
  <2> QED BY <1>1, <1>4, <2>7, <2>8 DEF Plain
<1> QED BY <1>3, <1>4

\* A section that says something is found where it starts the text.
LEMMA SectionStarts ==
  ASSUME NEW Y, NEW text \in Seq(Y), NEW h, Len(text) >= 2,
         text[1] = Tag(h), text[2].a = "item"
  PROVE  SectionOf(text, h) # <<>> /\ SectionOf(text, h)[1] = text[2]
<1> DEFINE n == Len(text)
           tags == {i \in DOMAIN text : text[i] = Tag(h)}
           start == Min(tags)
           stops == {i \in start + 1 .. Len(text) :
                       IsRule(text, i) \/ (text[i].a = "tag" /\ text[i].h # h)}
           end == IF stops = {} THEN Len(text) ELSE Min(stops) - 1
           part == SubSeq(text, start + 1, end)
<1>1. SectionOf(text, h) = IF tags = {} THEN <<>> ELSE part
  BY DEF SectionOf
<1>2. n \in Nat /\ DOMAIN text = 1 .. n /\ n >= 2
  OBVIOUS
<1>3. 1 \in tags
  BY <1>2
<1>4. start = 1
  <2>1. tags \in SUBSET (0 .. n) /\ tags # {}
    BY <1>2, <1>3
  <2>2. \A i \in tags : i \in 1 .. n
    BY <1>2
  <2> HIDE DEF tags, n
  <2>3. start \in tags /\ \A y \in tags : start <= y
    BY <1>2, <2>1, SmallestIn
  <2> HIDE DEF start
  <2> QED BY <1>2, <1>3, <2>2, <2>3
<1> HIDE DEF tags, start
<1>5. stops # {} => Min(stops) \in stops
  <2>1. stops \in SUBSET (0 .. n)
    BY <1>2, <1>4
  <2> HIDE DEF stops, n
  <2> QED BY <1>2, <2>1, SmallestIn
<1>6. 2 \notin stops
  <2>1. text[2] # Rule /\ text[2].a # "tag"
    <3>1. Rule.a = "rule"
      BY DEF Rule
    <3>2. text[2].a # "rule" /\ text[2].a # "tag"
      OBVIOUS
    <3> QED BY <3>1, <3>2
  <2> QED BY <2>1 DEF IsRule
<1>7. \A i \in stops : i \in 2 .. n
  BY <1>4
<1> HIDE DEF stops
<1>8. end \in 2 .. n
  <2> HIDE DEF n
  <2> QED BY <1>2, <1>5, <1>6, <1>7 DEF n
<1> HIDE DEF end
<1>9. Len(part) = end - 1 /\ \A k \in 1 .. Len(part) : part[k] = text[1 + k]
  <2>1. 2 \in Nat \ {0} /\ end \in Nat /\ end <= Len(text) /\ 2 <= end
    BY <1>2, <1>8
  <2>2. part = SubSeq(text, 2, end)
    BY <1>4
  <2>5. /\ \A k \in 1 .. Len(SubSeq(text, 2, end)) : SubSeq(text, 2, end)[k] = text[2 + k - 1]
        /\ 2 <= end => Len(SubSeq(text, 2, end)) = end - 2 + 1
    BY <2>1, PieceOf
  <2>3. /\ Len(part) = end - 2 + 1
        /\ \A k \in 1 .. Len(part) : part[k] = text[2 + k - 1]
    <3> HIDE DEF part
    <3> QED BY <2>1, <2>2, <2>5
  <2> HIDE DEF part
  <2>4. \A k \in Nat : 2 + k - 1 = 1 + k
    OBVIOUS
  <2> QED BY <2>1, <2>3, <2>4
<1> HIDE DEF part
<1>10. 1 \in 1 .. Len(part) /\ 1 + 1 = 2
  BY <1>2, <1>8, <1>9
<1>11. part[1] = text[2]
  BY <1>9, <1>10
<1>12. part # <<>>
  BY <1>10
<1> QED BY <1>1, <1>3, <1>11, <1>12

\* The last rule that separates, and what is behind it.
LEMMA RulesAre ==
  ASSUME NEW Y, NEW text \in Seq(Y), Rules(text) # {}
  PROVE  /\ Max(Rules(text)) \in 1 .. Len(text) - 1
         /\ text[Max(Rules(text))] = Rule
         /\ \A i \in Max(Rules(text)) + 1 .. Len(text) : text[i] = Rule => i = Len(text)
<1> DEFINE n == Len(text)
           rules == Rules(text)
           m == Max(rules)
<1>1. n \in Nat /\ DOMAIN text = 1 .. n
  OBVIOUS
<1>2. \A i : i \in rules <=> i \in 1 .. n /\ text[i] = Rule /\ i < n
  BY <1>1 DEF Rules, IsRule
<1>3. rules # {}
  OBVIOUS
<1> HIDE DEF rules
<1>4. m \in rules /\ \A y \in rules : m >= y
  <2>1. rules \in SUBSET (0 .. n)
    BY <1>2
  <2> HIDE DEF n
  <2> QED BY <1>1, <1>3, <2>1, LargestIn
<1> HIDE DEF m
<1>5. m \in 1 .. n - 1 /\ text[m] = Rule
  <2> HIDE DEF n
  <2> QED BY <1>1, <1>2, <1>4
<1>6. ASSUME NEW i \in m + 1 .. n, text[i] = Rule PROVE i = n
  <2> HIDE DEF n
  <2>1. CASE i < n
    <3>1. i \in rules
      BY <1>1, <1>2, <1>5, <1>6, <2>1
    <3> QED BY <1>1, <1>4, <1>5, <3>1
  <2> QED BY <1>1, <1>5, <2>1
<1> QED BY <1>5, <1>6 DEF m, rules

\* The brief of a text is a piece of it without a rule.
LEMMA BriefOfTyped ==
  ASSUME NEW Y, NEW text \in Seq(Y)
  PROVE  /\ BriefOf(text) \in Seq(Y)
         /\ Ended(text) => Plain(BriefOf(text))
         /\ Plain(text) => BriefOf(text) = <<>>
<1> DEFINE n == Len(text)
           m == Max(Rules(text))
           part == SubSeq(text, m + 1, n)
<1>1. BriefOf(text) = IF Rules(text) = {} THEN <<>> ELSE part
  BY DEF BriefOf
<1>2. CASE Rules(text) = {}
  BY <1>1, <1>2 DEF Plain
<1>3. CASE Rules(text) # {}
  <2>1. /\ m \in 1 .. n - 1 /\ text[m] = Rule
        /\ \A i \in m + 1 .. n : text[i] = Rule => i = n
    BY <1>3, RulesAre
  <2> HIDE DEF m
  <2>2. n \in Nat
    OBVIOUS
  <2>3. /\ part \in Seq(Y)
        /\ \A k \in 1 .. Len(part) : \E i \in m + 1 .. n : part[k] = text[i]
    <3>1. m + 1 \in Nat \ {0} /\ n \in Nat /\ n <= Len(text)
      BY <2>1, <2>2
    <3>2. /\ part \in Seq(Y)
          /\ \A k \in 1 .. Len(part) : /\ part[k] = text[m + 1 + k - 1]
                                       /\ m + 1 + k - 1 \in m + 1 .. n
      BY <3>1, PieceOf
    <3> HIDE DEF part, n
    <3> QED BY <3>2
  <2> HIDE DEF part
  <2>4. ~Plain(text)
    <3>1. m \in 1 .. n
      BY <2>1, <2>2
    <3> QED BY <2>1, <3>1 DEF Plain
  <2>5. ASSUME Ended(text) PROVE Plain(part)
    <3>1. text # <<>>
      BY <2>1, <2>2
    <3>2. text[n] # Rule
      BY <2>5, <3>1 DEF Ended
    <3> QED BY <2>1, <2>3, <3>2 DEF Plain
  <2> QED BY <1>1, <1>3, <2>3, <2>4, <2>5
<1> QED BY <1>2, <1>3

\* What follows the last rule of a text.
LEMMA BriefOfRuled ==
  ASSUME NEW Y, Rule \in Y, NEW p \in Seq(Y), NEW q \in Seq(Y), q # <<>>, Plain(q)
  PROVE  BriefOf(p \o (<<Rule>> \o q)) = q
<1> DEFINE rq == <<Rule>> \o q
           text == p \o rq
           c == Len(p) + 1
           n == Len(text)
           m == Max(Rules(text))
<1>1. /\ rq \in Seq(Y) /\ Len(rq) = Len(q) + 1 /\ rq[1] = Rule
      /\ \A i \in 1 .. Len(q) : rq[i + 1] = q[i]
  BY FewPut
<1> HIDE DEF rq
<1>2. Len(p) \in Nat /\ Len(q) \in Nat /\ Len(q) >= 1
  OBVIOUS
<1>3. text \in Seq(Y) /\ n = Len(p) + Len(rq)
  <2>1. rq \in Seq(Y) /\ p \in Seq(Y)
    BY <1>1
  <2>2. p \o rq \in Seq(Y)
    BY <2>1
  <2>3. Len(p \o rq) = Len(p) + Len(rq)
    BY <2>1
  <2> QED BY <2>2, <2>3
<1>4. \A i \in 1 .. Len(p) + Len(rq) : text[i] = IF i <= Len(p) THEN p[i] ELSE rq[i - Len(p)]
  <2>1. rq \in Seq(Y) /\ p \in Seq(Y)
    BY <1>1
  <2> QED BY <2>1
<1> HIDE DEF text
<1>5. n = c + Len(q) /\ c \in Nat /\ c >= 1 /\ DOMAIN text = 1 .. n
  BY <1>1, <1>2, <1>3
<1>6. text[c] = Rule
  <2>1. c \in 1 .. Len(p) + Len(rq) /\ ~(c <= Len(p)) /\ c - Len(p) = 1
    BY <1>1, <1>2
  <2> QED BY <1>1, <1>4, <2>1
<1>7. \A k \in 1 .. Len(q) : text[c + k] = q[k]
  <2> TAKE k \in 1 .. Len(q)
  <2>1. c + k \in 1 .. Len(p) + Len(rq) /\ ~(c + k <= Len(p)) /\ c + k - Len(p) = k + 1
    BY <1>1, <1>2
  <2> QED BY <1>1, <1>4, <2>1
<1> HIDE DEF c, n
<1>8. c \in Rules(text)
  BY <1>2, <1>5, <1>6 DEF Rules, IsRule, n
<1>9. /\ m \in 1 .. n - 1 /\ text[m] = Rule
      /\ \A i \in m + 1 .. n : text[i] = Rule => i = n
  BY <1>3, <1>8, RulesAre DEF n
<1> HIDE DEF m
<1>10. m = c
  <2>1. CASE m < c
    BY <1>2, <1>5, <1>6, <1>9, <2>1
  <2>2. CASE m > c
    <3>1. m - c \in 1 .. Len(q) /\ c + (m - c) = m
      BY <1>2, <1>5, <1>9, <2>2
    <3>2. q[m - c] = Rule
      BY <1>7, <1>9, <3>1
    <3> QED BY <3>1, <3>2 DEF Plain
  <2> QED BY <1>5, <1>9, <2>1, <2>2
<1>11. BriefOf(text) = SubSeq(text, c + 1, n)
  BY <1>8, <1>10 DEF BriefOf, m, n
<1> DEFINE part == SubSeq(text, c + 1, n)
<1>12. Len(part) = Len(q) /\ part \in Seq(Y) /\ \A k \in 1 .. Len(part) : part[k] = text[c + k]
  <2>1. c + 1 \in Nat \ {0} /\ n \in Nat /\ n <= Len(text) /\ c + 1 <= n
    BY <1>2, <1>5 DEF n
  <2>2. /\ part \in Seq(Y)
        /\ \A k \in 1 .. Len(part) : part[k] = text[c + 1 + k - 1]
        /\ Len(part) = n - (c + 1) + 1
    BY <1>3, <2>1, PieceOf
  <2> HIDE DEF part
  <2>3. Len(part) = Len(q)
    BY <1>2, <1>5, <2>2
  <2>4. \A k \in 1 .. Len(part) : c + 1 + k - 1 = c + k
    BY <1>5
  <2> QED BY <2>2, <2>3, <2>4
<1> HIDE DEF part
<1>13. part = q
  BY <1>7, <1>12
<1> QED BY <1>11, <1>13 DEF part, text, rq

-----------------------------------------------------------------------------
(* What a compaction takes from the summary before.                        *)

\* Taking the plan block out, or leaving a text without one alone.
LEMMA PlanTaken ==
  ASSUME NEW Y, NEW text \in Seq(Y)
  PROVE  /\ StripPlanBlock(text) \in Seq(Y)
         /\ ExtractPlanBlock(text) \in Seq({l \in Y : l.a = "plan"})
         /\ (\A i \in 1 .. Len(text) : text[i].a # "plan")
              => StripPlanBlock(text) = text /\ ExtractPlanBlock(text) = <<>>
<1> DEFINE n == Len(text)
           m == Min(PlanAt(text))
           P == {l \in Y : l.a = "plan"}
<1>1. n \in Nat /\ DOMAIN text = 1 .. n
  OBVIOUS
<1>2. \A i : i \in PlanAt(text) <=> i \in 1 .. n /\ text[i].a = "plan"
  BY <1>1 DEF PlanAt
<1>3. CASE PlanAt(text) = {}
  BY <1>3 DEF StripPlanBlock, ExtractPlanBlock
<1>4. CASE PlanAt(text) # {}
  <2>1. m \in PlanAt(text)
    <3>1. PlanAt(text) \in SUBSET (0 .. n)
      BY <1>2
    <3> HIDE DEF n
    <3> QED BY <1>1, <1>4, <3>1, SmallestIn
  <2> HIDE DEF m
  <2>2. m \in 1 .. n /\ text[m].a = "plan"
    BY <1>2, <2>1
  <2>3. text[m] \in P
    BY <2>2
  <2>4. SubSeq(text, 1, m - 1) \in Seq(Y) /\ SubSeq(text, m + 1, n) \in Seq(Y)
    <3>1. /\ 1 \in Nat \ {0} /\ m - 1 \in Nat /\ m - 1 <= Len(text)
          /\ m + 1 \in Nat \ {0} /\ n \in Nat /\ n <= Len(text)
      BY <1>1, <2>2
    <3> HIDE DEF n
    <3> QED BY <3>1, PieceOf
  <2>5. RemoveAt(text, m) \in Seq(Y)
    <3> DEFINE a == SubSeq(text, 1, m - 1)
               b == SubSeq(text, m + 1, n)
    <3>1. a \in Seq(Y) /\ b \in Seq(Y)
      BY <2>4
    <3>2. RemoveAt(text, m) = a \o b
      BY DEF RemoveAt
    <3> HIDE DEF a, b
    <3> QED BY <3>1, <3>2
  <2>6. StripPlanBlock(text) = RemoveAt(text, m) /\ ExtractPlanBlock(text) = <<text[m]>>
    BY <1>4 DEF StripPlanBlock, ExtractPlanBlock, m
  <2>7. <<text[m]>> \in Seq(P)
    <3> HIDE DEF P
    <3> QED BY <2>3
  <2> QED BY <2>2, <2>5, <2>6, <2>7
<1> QED BY <1>3, <1>4

SkillsIn(Y) == {l \in Y : l.a = "skills"}

\* Stripping the skills is a filter.
LEMMA SkillsTaken ==
  ASSUME NEW Y, NEW text \in Seq(Y)
  PROVE  /\ StripActiveSkills(text) = Flat(In(Y, Y \ SkillsIn(Y)), text)
         /\ Those(text, LAMBDA l : l.a = "skills") = Flat(In(Y, SkillsIn(Y)), text)
<1> DEFINE K == SkillsIn(Y)
           N == Y \ K
<1>1. K \in SUBSET Y /\ N \in SUBSET Y
  BY DEF SkillsIn
<1>2. \A l \in Y : /\ l \in K <=> l.a = "skills"
                   /\ l \in N <=> l.a # "skills"
  BY DEF SkillsIn
<1> HIDE DEF K, N
<1>3. \A i \in DOMAIN text : text[i] \in Y
  OBVIOUS
<1>4. [i \in DOMAIN text |-> IF text[i].a # "skills" THEN <<text[i]>> ELSE <<>>]
        = [i \in DOMAIN text |-> IF text[i] \in N THEN <<text[i]>> ELSE <<>>]
  BY <1>2, <1>3
<1>5. [i \in DOMAIN text |-> IF text[i].a = "skills" THEN <<text[i]>> ELSE <<>>]
        = [i \in DOMAIN text |-> IF text[i] \in K THEN <<text[i]>> ELSE <<>>]
  BY <1>2, <1>3
<1>6. /\ FlattenSeq([i \in DOMAIN text |-> IF text[i] \in N THEN <<text[i]>> ELSE <<>>]) = Flat(In(Y, N), text)
      /\ FlattenSeq([i \in DOMAIN text |-> IF text[i] \in K THEN <<text[i]>> ELSE <<>>]) = Flat(In(Y, K), text)
  BY <1>1, ThoseIs
<1> QED BY <1>4, <1>5, <1>6 DEF StripActiveSkills, Those, K, N

\* A merged section is over what the two were over, and says what the fresh one says.
LEMMA MergeTyped ==
  ASSUME NEW Y, Said \subseteq Y, NEW h \in HeaderNames, NEW prev \in Seq(Y), NEW fresh \in Seq(Y)
  PROVE  /\ MergeHeaderSection(h, prev, fresh) \in Seq(Y)
         /\ (fresh # <<>> /\ fresh[1] \in Telling(h)) => MergeHeaderSection(h, prev, fresh) # <<>>
<1> DEFINE both == prev \o fresh
           clean == Those(both, LAMBDA l : l.a = "item")
           Z == {l \in Y : l.a = "item"}
           last == LastOf(Once(clean), ItemCap)
<1>1. Tag(h) \in Y /\ Tag("files") \in Y /\ Item("modified", 0) \in Y /\ Item("read", 0) \in Y
  <2> DEFINE S == Said
  <2>1. Tag(h) \in S /\ Tag("files") \in S /\ Item("modified", 0) \in S /\ Item("read", 0) \in S
    <3>1. "files" \in HeaderNames
      BY DEF HeaderNames
    <3>2. FileItems \subseteq Said
      BY LinesTyped
    <3> QED BY <3>1, <3>2, LinesTyped DEF FileItems
  <2>2. S \subseteq Y
    OBVIOUS
  <2> HIDE DEF S
  <2> QED BY <2>1, <2>2
<1>2. both \in Seq(Y)
  OBVIOUS
<1>3. fresh # <<>> => \E i \in 1 .. Len(both) : both[i] = fresh[1]
  <2> SUFFICES ASSUME fresh # <<>> PROVE \E i \in 1 .. Len(both) : both[i] = fresh[1]
    OBVIOUS
  <2>1. Len(prev) \in Nat /\ Len(fresh) \in Nat /\ Len(fresh) >= 1
    OBVIOUS
  <2>2. Len(both) = Len(prev) + Len(fresh)
    OBVIOUS
  <2>3. both[Len(prev) + 1] = fresh[1]
    <3>1. Len(prev) + 1 \in 1 .. Len(prev) + Len(fresh)
      BY <2>1
    <3>2. \A i \in 1 .. Len(prev) + Len(fresh) : both[i] = IF i <= Len(prev) THEN prev[i] ELSE fresh[i - Len(prev)]
      OBVIOUS
    <3> HIDE DEF both
    <3> QED BY <2>1, <3>1, <3>2
  <2> HIDE DEF both
  <2>4. Len(prev) + 1 \in 1 .. Len(both)
    BY <2>1, <2>2
  <2> QED BY <2>3, <2>4
<1> HIDE DEF both
<1>4. clean = Flat(In(Y, Z), both)
  <2>1. [i \in DOMAIN both |-> IF both[i].a = "item" THEN <<both[i]>> ELSE <<>>]
          = [i \in DOMAIN both |-> IF both[i] \in Z THEN <<both[i]>> ELSE <<>>]
    <3>1. \A i \in DOMAIN both : both[i] \in Y
      BY <1>2
    <3> QED BY <3>1
  <2>2. Z \in SUBSET Y
    OBVIOUS
  <2> HIDE DEF Z
  <2> QED BY <1>2, <2>1, <2>2, ThoseIs DEF Those
<1> HIDE DEF clean
<1>5. /\ clean \in Seq(Y)
      /\ \A i \in 1 .. Len(both) : both[i] \in Z => clean # <<>>
  <2>1. Z \in SUBSET Y
    OBVIOUS
  <2> HIDE DEF Z
  <2>2. clean \in Seq(Z)
    BY <1>2, <1>4, <2>1, FilterLaws
  <2>3. \A s \in Seq(Z) : s \in Seq(Y)
    BY <2>1
  <2> QED BY <1>2, <1>4, <2>1, <2>2, <2>3, FilterHas
<1>6. last \in Seq(Y) /\ (clean # <<>> => last # <<>>)
  <2>1. ItemCap \in Nat /\ ItemCap # 0
    BY CompactionAssumption
  <2>2. Once(clean) \in Seq(Y) /\ (clean # <<>> => Once(clean) # <<>>)
    BY <1>5, OnceLaws
  <2> QED BY <2>1, <2>2, LastOfLaws
<1> HIDE DEF last
<1>7. Tagged(h, last) \in Seq(Y) /\ (clean # <<>> => Tagged(h, last) # <<>>)
  BY <1>1, <1>6, TaggedTyped
<1>14. \A s \in Seq(Y) : Tagged("files", s) \in Seq(Y) /\ (s # <<>> => Tagged("files", s) # <<>>)
  BY <1>1, TaggedTyped
<1>8. MergeFileLines(prev, fresh) \in Seq(Y)
  <2> DEFINE x == Item("modified", 0)
             y == Item("read", 0)
             lx == IF x \in ToSet(both) THEN <<x>> ELSE <<>>
             ly == IF y \in ToSet(both) THEN <<y>> ELSE <<>>
  <2>1. MergeFileLines(prev, fresh) = Tagged("files", lx \o ly)
    BY DEF MergeFileLines, both
  <2>2. x \in Y /\ y \in Y
    BY <1>1
  <2> HIDE DEF x, y
  <2>3. lx \in Seq(Y) /\ ly \in Seq(Y)
    BY <2>2
  <2> HIDE DEF lx, ly
  <2>4. lx \o ly \in Seq(Y)
    BY <2>3
  <2> QED BY <1>14, <2>1, <2>4
<1>9. fresh # <<>> /\ fresh[1] \in FileItems => MergeFileLines(prev, fresh) # <<>>
  <2> SUFFICES ASSUME fresh # <<>>, fresh[1] \in FileItems PROVE MergeFileLines(prev, fresh) # <<>>
    OBVIOUS
  <2> DEFINE x == Item("modified", 0)
             y == Item("read", 0)
             lx == IF x \in ToSet(both) THEN <<x>> ELSE <<>>
             ly == IF y \in ToSet(both) THEN <<y>> ELSE <<>>
  <2>1. MergeFileLines(prev, fresh) = Tagged("files", lx \o ly)
    BY DEF MergeFileLines, both
  <2>2. x \in Y /\ y \in Y /\ (fresh[1] = x \/ fresh[1] = y)
    BY <1>1 DEF FileItems
  <2>3. fresh[1] \in ToSet(both)
    <3>1. DOMAIN both = 1 .. Len(both)
      BY <1>2
    <3> QED BY <1>3, <3>1 DEF ToSet
  <2> HIDE DEF x, y
  <2>4. lx \in Seq(Y) /\ ly \in Seq(Y) /\ (lx # <<>> \/ ly # <<>>)
    BY <2>2, <2>3
  <2> HIDE DEF lx, ly
  <2>5. lx \o ly \in Seq(Y) /\ lx \o ly # <<>>
    BY <2>4
  <2> QED BY <1>14, <2>1, <2>5
<1>10. CASE h = "outstanding" \/ prev = <<>>
  <2>1. MergeHeaderSection(h, prev, fresh) = fresh
    BY <1>10 DEF MergeHeaderSection
  <2> QED BY <2>1
<1>11. CASE ~(h = "outstanding" \/ prev = <<>>) /\ fresh = <<>>
  <2>1. MergeHeaderSection(h, prev, fresh) = prev
    BY <1>11 DEF MergeHeaderSection
  <2> QED BY <1>11, <2>1
<1>12. CASE ~(h = "outstanding" \/ prev = <<>>) /\ fresh # <<>> /\ h = "files"
  <2>1. MergeHeaderSection(h, prev, fresh) = MergeFileLines(prev, fresh)
    BY <1>12 DEF MergeHeaderSection
  <2> QED BY <1>8, <1>9, <1>12, <2>1 DEF Telling
<1>13. CASE ~(h = "outstanding" \/ prev = <<>>) /\ fresh # <<>> /\ h # "files"
  <2>1. MergeHeaderSection(h, prev, fresh) = Tagged(h, last)
    BY <1>13 DEF MergeHeaderSection, last, clean, both
  <2>2. fresh[1] \in Telling(h) => clean # <<>>
    <3> SUFFICES ASSUME fresh[1] \in Telling(h) PROVE clean # <<>>
      OBVIOUS
    <3>1. fresh[1] \in Items /\ fresh[1] \in Y
      BY <1>13 DEF Telling
    <3>2. fresh[1] \in Z
      BY <3>1 DEF Items, Of
    <3> HIDE DEF Z
    <3> QED BY <1>3, <1>5, <1>13, <3>2
  <2> QED BY <1>7, <2>1, <2>2
<1> QED BY <1>10, <1>11, <1>12, <1>13

-----------------------------------------------------------------------------
(* Merging with the summary before.                                        *)

\* A capped brief: none of it, all of it, or the newest lines under a notice.
LEMMA CapIs ==
  ASSUME NEW Y, Omitted("lines") \in Y, NEW text \in Seq(Y), NEW max \in Nat
  PROVE  \/ max = 0 /\ CapBrief(text, max) = <<>>
         \/ CapBrief(text, max) = text
         \/ \E clean \in Seq(Y) : CapBrief(text, max) = <<Omitted("lines")>> \o clean
<1> DEFINE kept == LastOf(text, max)
           heads == {i \in DOMAIN kept : kept[i].a = "role"}
           clean == IF heads = {} THEN kept ELSE SubSeq(kept, Min(heads), Len(kept))
<1>1. CapBrief(text, max) = IF text = <<>> \/ max = 0 THEN <<>>
                            ELSE IF Len(text) <= max THEN text
                            ELSE <<Omitted("lines")>> \o clean
  BY DEF CapBrief
<1>2. kept \in Seq(Y)
  BY LastOfLaws
<1> HIDE DEF kept
<1>3. Len(kept) \in Nat /\ DOMAIN kept = 1 .. Len(kept)
  BY <1>2
<1>4. clean \in Seq(Y)
  <2>1. CASE heads = {}
    BY <1>2, <2>1
  <2>2. CASE heads # {}
    <3> DEFINE n == Len(kept)
    <3>1. heads \in SUBSET (0 .. n)
      BY <1>3
    <3>2. \A i \in heads : i \in 1 .. n
      BY <1>3
    <3>3. n \in Nat
      BY <1>3
    <3> HIDE DEF heads, n
    <3>6. Min(heads) \in heads
      BY <2>2, <3>1, <3>3, SmallestIn
    <3>4. Min(heads) \in Nat \ {0}
      BY <3>2, <3>3, <3>6
    <3>5. SubSeq(kept, Min(heads), n) \in Seq(Y)
      BY <1>2, <3>3, <3>4, PieceOf DEF n
    <3> QED BY <2>2, <3>5 DEF n
  <2> QED BY <2>1, <2>2
<1> HIDE DEF clean
<1> QED BY <1>1, <1>4

\* The room left for the brief before: none, all it needs, or less.
OneOf(Y, prev, fresh, brief) ==
  \/ brief = fresh /\ Len(fresh) >= BriefMax
  \/ brief = prev \o fresh
  \/ \E clean \in Seq(Y) : brief = (<<Omitted("lines")>> \o clean) \o fresh

\* The fresh brief is kept whole; the one before gets the room left.
LEMMA MergeBriefIs ==
  ASSUME NEW Y, Omitted("lines") \in Y, NEW prev \in Seq(Y), NEW fresh \in Seq(Y)
  PROVE  /\ MergeBrief(prev, fresh) \in Seq(Y)
         /\ fresh = <<>> => MergeBrief(prev, fresh) = prev
         /\ fresh # <<>> => OneOf(Y, prev, fresh, MergeBrief(prev, fresh))
<1> DEFINE room == BriefMax - Len(fresh)
           max == Max({0, room})
           cap == CapBrief(prev, max)
<1>1. Len(fresh) \in Nat /\ BriefMax \in Nat
  BY CompactionAssumption
<1>2. room \in Int /\ 0 \in Int
  BY <1>1
<1> HIDE DEF room
<1>3. max = IF 0 >= room THEN 0 ELSE room
  BY <1>2, OfTwo
<1> HIDE DEF max
<1>4. max \in Nat /\ (max = 0 => Len(fresh) >= BriefMax)
  BY <1>1, <1>2, <1>3 DEF room
<1>5. \/ max = 0 /\ cap = <<>>
      \/ cap = prev
      \/ \E clean \in Seq(Y) : cap = <<Omitted("lines")>> \o clean
  BY <1>4, CapIs
<1>6. MergeBrief(prev, fresh) = IF fresh = <<>> THEN prev ELSE cap \o fresh
  BY DEF MergeBrief, max, room
<1> HIDE DEF cap
<1>7. CASE max = 0 /\ cap = <<>>
  <2>1. <<>> \o fresh = fresh
    OBVIOUS
  <2> QED BY <1>4, <1>6, <1>7, <2>1 DEF OneOf
<1>8. CASE cap = prev
  <2>1. prev \o fresh \in Seq(Y)
    OBVIOUS
  <2> QED BY <1>6, <1>8, <2>1 DEF OneOf
<1>9. CASE \E clean \in Seq(Y) : cap = <<Omitted("lines")>> \o clean
  <2>1. PICK clean \in Seq(Y) : cap = <<Omitted("lines")>> \o clean
    BY <1>9
  <2>2. cap \in Seq(Y)
    BY <2>1, FewPut
  <2>3. cap \o fresh \in Seq(Y)
    BY <2>2
  <2> QED BY <1>6, <2>1, <2>3 DEF OneOf
<1> QED BY <1>5, <1>7, <1>8, <1>9

HeadsOf(prev, fresh) ==
  FlattenSeq([i \in DOMAIN Headers |->
    MergeHeaderSection(Headers[i], SectionOf(prev, Headers[i]), SectionOf(fresh, Headers[i]))])

\* The heads are of what the two texts are; and there are some when the fresh
\* text starts with a section that says something.
LEMMA HeadsTyped ==
  ASSUME NEW Y, Said \subseteq Y, NEW prev, NEW fresh,
         \A h \in HeaderNames : SectionOf(prev, h) \in Seq(Y) /\ SectionOf(fresh, h) \in Seq(Y)
  PROVE  /\ HeadsOf(prev, fresh) \in Seq(Y)
         /\ (\E h \in HeaderNames : /\ SectionOf(fresh, h) # <<>>
                                    /\ SectionOf(fresh, h)[1] \in Telling(h))
              => HeadsOf(prev, fresh) # <<>>
<1> DEFINE m(h) == MergeHeaderSection(h, SectionOf(prev, h), SectionOf(fresh, h))
           f == [i \in 1 .. 5 |-> m(Headers[i])]
           told(h) == SectionOf(fresh, h) # <<>> /\ SectionOf(fresh, h)[1] \in Telling(h)
<1>1. DOMAIN Headers = 1 .. 5 /\ (\A i \in 1 .. 5 : Headers[i] \in HeaderNames)
      /\ \A h \in HeaderNames : \E i \in 1 .. 5 : Headers[i] = h
  <2>1. DOMAIN Headers = 1 .. 5 /\ (\A i \in 1 .. 5 : Headers[i] \in HeaderNames)
    BY DEF Headers, HeaderNames
  <2>2. /\ Headers[1] = "goal" /\ Headers[2] = "files" /\ Headers[3] = "commits"
        /\ Headers[4] = "outstanding" /\ Headers[5] = "preferences"
    BY DEF Headers
  <2>3. 1 \in 1 .. 5 /\ 2 \in 1 .. 5 /\ 3 \in 1 .. 5 /\ 4 \in 1 .. 5 /\ 5 \in 1 .. 5
    OBVIOUS
  <2>4. ASSUME NEW h \in HeaderNames PROVE \E i \in 1 .. 5 : Headers[i] = h
    <3>1. h = "goal" \/ h = "files" \/ h = "commits" \/ h = "outstanding" \/ h = "preferences"
      BY DEF HeaderNames
    <3> QED BY <2>2, <2>3, <3>1
  <2> QED BY <2>1, <2>4
<1>2. \A h \in HeaderNames : m(h) \in Seq(Y) /\ (told(h) => m(h) # <<>>)
  BY MergeTyped
<1>3. HeadsOf(prev, fresh) = FlattenSeq([i \in 1 .. 5 |-> f[i]])
  BY <1>1 DEF HeadsOf
<1> HIDE DEF m
<1>4. \A i \in 1 .. 5 : f[i] \in Seq(Y)
  BY <1>1, <1>2
<1>5. (\E h \in HeaderNames : told(h)) => \E i \in 1 .. 5 : f[i] # <<>>
  <2> HIDE DEF told
  <2> QED BY <1>1, <1>2
<1>6. 5 \in Nat
  OBVIOUS
<1> HIDE DEF f
<1>7. /\ FlattenSeq([i \in 1 .. 5 |-> f[i]]) \in Seq(Y)
      /\ (\E i \in 1 .. 5 : f[i] # <<>>) => FlattenSeq([i \in 1 .. 5 |-> f[i]]) # <<>>
  BY <1>4, <1>6, FlattenTyped
<1> QED BY <1>3, <1>5, <1>7

\* What a compaction makes of the summary before and the fresh one.
Bared(old) == StripActiveSkills(StripPlanBlock(old))
PlansOf(old, new) == IF ExtractPlanBlock(new) # <<>> THEN ExtractPlanBlock(new) ELSE ExtractPlanBlock(old)
BriefsOf(prev, fresh) == MergeBrief(BriefOf(prev), BriefOf(fresh))

\* Merging with a summary is joining three parts of the two.
LEMMA MergeIs ==
  ASSUME NEW Y, Said \subseteq Y, Rule \in Y, NEW old, NEW new, old # <<>>,
         Bared(old) \in Seq(Y), StripPlanBlock(new) \in Seq(Y), PlansOf(old, new) \in Seq(Y)
  PROVE  /\ HeadsOf(Bared(old), StripPlanBlock(new)) \in Seq(Y)
         /\ BriefsOf(Bared(old), StripPlanBlock(new)) \in Seq(Y)
         /\ MergePrevious(old, new)
              = Ruled(Ruled(HeadsOf(Bared(old), StripPlanBlock(new)),
                            BriefsOf(Bared(old), StripPlanBlock(new))),
                      PlansOf(old, new))
<1> DEFINE prev == Bared(old)
           fresh == StripPlanBlock(new)
           plans == PlansOf(old, new)
           H == HeadsOf(prev, fresh)
           M == BriefsOf(prev, fresh)
<1>0. prev \in Seq(Y) /\ fresh \in Seq(Y) /\ plans \in Seq(Y)
  OBVIOUS
<1>1. MergePrevious(old, new) = Join(<<H, M, plans>>)
  BY DEF MergePrevious, HeadsOf, BriefsOf, Bared, PlansOf
<1> HIDE DEF prev, fresh, plans
<1>2. H \in Seq(Y)
  BY <1>0, SectionOfTyped, HeadsTyped
<1>3. Omitted("lines") \in Y
  BY LinesTyped
<1>4. BriefOf(prev) \in Seq(Y) /\ BriefOf(fresh) \in Seq(Y)
  BY <1>0, BriefOfTyped
<1>5. M \in Seq(Y)
  BY <1>3, <1>4, MergeBriefIs DEF BriefsOf
<1> HIDE DEF H, M
<1> DEFINE S == Seq(Y)
           ss == <<H, M, plans>>
<1>6. H \in S /\ M \in S /\ plans \in S
  BY <1>0, <1>2, <1>5
<1> HIDE DEF S
<1>7. ss \in Seq(S) /\ Len(ss) = 3 /\ ss[1] = H /\ ss[2] = M /\ ss[3] = plans
  BY <1>6
<1> HIDE DEF ss
<1>8. Join(ss) = Ruled(Ruled(ss[1], ss[2]), ss[3])
  BY <1>7, JoinOfThree DEF S
<1>9. MergePrevious(old, new) = Ruled(Ruled(H, M), plans)
  BY <1>1, <1>7, <1>8 DEF ss
<1> QED BY <1>2, <1>5, <1>9 DEF H, M, prev, fresh, plans

-----------------------------------------------------------------------------
(* The skills in a summary.                                                *)

Marks == SkillsIn(Written)
Unmarked == Written \ Marks
Noted == summary \in Seq(Written) /\ skills \in Nat /\ plan \in Nat /\ count \in Nat

\* Skills are one sort of line, and all else is not.
LEMMA MarksAre ==
  /\ Marks \in SUBSET Written /\ Unmarked \in SUBSET Written /\ Unmarked = Written \ Marks
  /\ Said \subseteq Unmarked /\ Rule \in Unmarked
  /\ {l \in Written : l.a = "plan"} \subseteq Unmarked
  /\ \A n \in Nat : Skills(n) \in Marks /\ Plan(n) \in Unmarked
<1>1. \A l \in Written : l \in Marks <=> l.a = "skills"
  BY DEF Marks, SkillsIn
<1>2. Marks \in SUBSET Written /\ Unmarked = Written \ Marks
  BY DEF Marks, SkillsIn, Unmarked
<1>3. Said \subseteq Unmarked
  BY <1>1, <1>2 DEF Said, Of
<1>4. Rule \in Unmarked
  BY <1>1, <1>2, LinesTyped
<1>5. \A n \in Nat : Skills(n) \in Marks /\ Plan(n) \in Unmarked
  BY <1>1, <1>2, LinesTyped
<1> QED BY <1>1, <1>2, <1>3, <1>4, <1>5

Fresh == Said \cup {Rule}

\* A merge leaves no skills of the summary before.
LEMMA MergeStrips ==
  ASSUME NEW old \in Seq(Written), NEW new \in Seq(Fresh)
  PROVE  MergePrevious(old, new) \in Seq(Unmarked)
<1> DEFINE U == Unmarked
           W == Written
           F == Fresh
           P == {l \in W : l.a = "plan"}
           bare == StripPlanBlock(old)
           H == HeadsOf(Bared(old), StripPlanBlock(new))
           M == BriefsOf(Bared(old), StripPlanBlock(new))
<1>1. F \subseteq U /\ U \subseteq W /\ P \subseteq U /\ Said \subseteq U /\ Rule \in U
      /\ Marks \in SUBSET W /\ U = W \ Marks /\ U \in SUBSET W
  BY MarksAre DEF Fresh
<1>0. old \in Seq(W) /\ new \in Seq(F)
  OBVIOUS
<1> HIDE DEF U, W, F, P
<1>2. new \in Seq(U) /\ new \in Seq(W)
  BY <1>0, <1>1
<1>3. StripPlanBlock(new) \in Seq(U) /\ bare \in Seq(W)
  BY <1>0, <1>2, PlanTaken
<1>4. PlansOf(old, new) \in Seq(U)
  <2>1. ExtractPlanBlock(new) \in Seq(P) /\ ExtractPlanBlock(old) \in Seq(P)
    BY <1>0, <1>2, PlanTaken DEF P
  <2> QED BY <1>1, <2>1 DEF PlansOf
<1>5. Bared(old) \in Seq(U)
  <2> HIDE DEF bare
  <2>1. StripActiveSkills(bare) = Flat(In(W, U), bare)
    BY <1>1, <1>3, SkillsTaken DEF Marks, W
  <2>2. \A s \in Seq(W) : Flat(In(W, U), s) \in Seq(U)
    BY <1>1, FilterLaws
  <2> QED BY <1>3, <2>1, <2>2 DEF Bared, bare
<1>6. CASE old = <<>>
  <2>1. MergePrevious(old, new) = new
    BY <1>6 DEF MergePrevious
  <2> QED BY <1>2, <2>1 DEF U
<1>7. CASE old # <<>>
  <2>2. MergePrevious(old, new) = Ruled(Ruled(H, M), PlansOf(old, new)) /\ H \in Seq(U) /\ M \in Seq(U)
    BY <1>1, <1>3, <1>4, <1>5, <1>7, MergeIs
  <2> HIDE DEF H, M
  <2>3. Ruled(H, M) \in Seq(U)
    BY <1>1, <2>2, RuledTyped
  <2>4. Ruled(Ruled(H, M), PlansOf(old, new)) \in Seq(U)
    BY <1>1, <1>4, <2>3, RuledTyped
  <2> QED BY <2>2, <2>4 DEF U
<1> QED BY <1>6, <1>7

\* A fresh summary has no skills and no plan.
LEMMA FreshTyped ==
  ASSUME NEW secs \in Headed, NEW brief \in Seq(Transcript)
  PROVE  /\ secs \in Seq(Said) /\ brief \in Seq(Said)
         /\ secs \in Seq(Fresh) /\ brief \in Seq(Fresh)
         /\ Ruled(secs, brief) \in Seq(Fresh)
<1> DEFINE S == Said
           T == Transcript
           F == Fresh
<1>1. S \subseteq F /\ T \subseteq S /\ Rule \in F /\ secs \in Seq(S) /\ brief \in Seq(T)
  BY LinesTyped DEF Headed, Fresh
<1> HIDE DEF S, T, F
<1>2. secs \in Seq(F) /\ brief \in Seq(F) /\ brief \in Seq(S)
  BY <1>1
<1>3. Ruled(secs, brief) \in Seq(F)
  BY <1>1, <1>2, RuledTyped
<1> QED BY <1>1, <1>2, <1>3 DEF S, F

\* What a vcc compaction writes, and leaves alone.
LEMMA VccGives ==
  ASSUME Inv, CompactVcc
  PROVE  /\ \E secs \in Headed, brief \in Seq(Transcript) :
              summary' = (MergePrevious(summary, Ruled(secs, brief)) \o ActiveSkills) \o HookContext
         /\ count' = count + 1 /\ UNCHANGED <<skills, plan>>
<1>1. PICK keep \in Keeps :
        LET start == LiveStart(entries)
            cut == VccCut(entries, keep)
            blocks == Normalize(SubSeq(entries, start, cut - 1))
            fresh == FormatSummary(blocks)
        IN /\ cut > start
           /\ Apply(MergePrevious(summary, fresh) \o ActiveSkills \o HookContext, cut)
  BY DEF CompactVcc
<1> DEFINE start == LiveStart(entries)
           cut == VccCut(entries, keep)
           part == SubSeq(entries, start, cut - 1)
           fresh == FormatSummary(Normalize(part))
<1>2. entries \in Seq(Stored) /\ entries # <<>>
  BY DEF Inv, Typed
<1>3. start \in Nat \ {0} /\ cut - 1 \in Nat /\ cut - 1 <= Len(entries)
  <2>1. start \in 1 .. Len(entries) + 1 /\ Len(entries) \in Nat
    BY <1>2, LiveStartPlace, StoredAt
  <2>2. keep \in Nat \cup {-1} /\ cut > start
    BY <1>1, CompactionAssumption
  <2>3. cut \in start + 1 .. Len(entries) + 1
    BY <1>2, <2>2, VccCutPlace DEF Place
  <2> HIDE DEF start, cut
  <2> QED BY <2>1, <2>3
<1>4. summary' = (MergePrevious(summary, fresh) \o ActiveSkills) \o HookContext
      /\ count' = count + 1 /\ UNCHANGED <<skills, plan>>
  BY <1>1 DEF Apply
<1>5. part \in Seq(Stored)
  <2> HIDE DEF start, cut
  <2> QED BY <1>2, <1>3, PieceOf
<1> HIDE DEF part
<1>6. Normalize(part) \in Seq(Blocks)
  BY <1>5, NormalizeTyped
<1>7. PICK secs \in Headed, brief \in Seq(Transcript) : fresh = Ruled(secs, brief)
  BY <1>6, FormatIs
<1> HIDE DEF fresh
<1> QED BY <1>4, <1>7

\* What an llm compaction writes, and leaves alone.
LEMMA LlmGives ==
  ASSUME CompactLlm
  PROVE  /\ summary' = (<<Prose(count)>> \o ActiveSkills) \o HookContext
         /\ count' = count + 1 /\ UNCHANGED <<skills, plan>>
BY DEF CompactLlm, Apply

\* What is appended to either.
LEMMA AppendedTyped ==
  ASSUME Noted
  PROVE  ActiveSkills \in Seq(Marks) /\ HookContext \in Seq(Unmarked)
<1> DEFINE K == Marks
           U == Unmarked
<1>1. Skills(skills) \in K /\ Plan(plan) \in U
  BY MarksAre DEF Noted
<1> HIDE DEF K, U
<1>2. <<Skills(skills)>> \in Seq(K) /\ <<Plan(plan)>> \in Seq(U)
  BY <1>1
<1> QED BY <1>2 DEF ActiveSkills, HookContext, K, U

\* A compaction writes a text without skills, the skills, and the plan.
LEMMA CompactionWrites ==
  ASSUME Inv, Noted, CompactVcc \/ CompactLlm
  PROVE  \E body \in Seq(Unmarked) : summary' = (body \o ActiveSkills) \o HookContext
<1>1. CASE CompactVcc
  <2>1. PICK secs \in Headed, brief \in Seq(Transcript) :
               summary' = (MergePrevious(summary, Ruled(secs, brief)) \o ActiveSkills) \o HookContext
    BY <1>1, VccGives
  <2>2. MergePrevious(summary, Ruled(secs, brief)) \in Seq(Unmarked)
    BY FreshTyped, MergeStrips DEF Noted
  <2> QED BY <2>1, <2>2
<1>2. CASE CompactLlm
  <2>1. Prose(count) \in Unmarked
    BY LinesTyped, MarksAre DEF Noted
  <2>2. <<Prose(count)>> \in Seq(Unmarked)
    <3> DEFINE U == Unmarked
    <3>1. Prose(count) \in U
      BY <2>1
    <3> HIDE DEF U
    <3>2. <<Prose(count)>> \in Seq(U)
      BY <3>1
    <3> QED BY <3>2 DEF U
  <2> QED BY <1>2, <2>2, LlmGives
<1> QED BY <1>1, <1>2

\* Of such a text the skills are those appended.
LEMMA SkillsWritten ==
  ASSUME Noted, NEW body \in Seq(Unmarked), NEW text, text = (body \o ActiveSkills) \o HookContext
  PROVE  /\ text \in Seq(Written)
         /\ Those(text, LAMBDA l : l.a = "skills") = ActiveSkills
<1> DEFINE W == Written
           K == Marks
           U == Unmarked
           op == In(W, K)
<1>1. K \in SUBSET W /\ U = W \ K /\ U \in SUBSET W
  BY MarksAre
<1>2. ActiveSkills \in Seq(K) /\ HookContext \in Seq(U)
  BY AppendedTyped
<1>3. body \in Seq(U)
  OBVIOUS
<1> HIDE DEF W, K, U
<1>4. body \in Seq(W) /\ ActiveSkills \in Seq(W) /\ HookContext \in Seq(W) /\ HookContext \in Seq(W \ K)
      /\ body \in Seq(W \ K)
  BY <1>1, <1>2, <1>3
<1>5. body \o ActiveSkills \in Seq(W)
  BY <1>4
<1>6. text \in Seq(W)
  BY <1>4, <1>5
<1>7. Those(text, LAMBDA l : l.a = "skills") = Flat(op, text)
  BY <1>6, SkillsTaken DEF K, W, Marks
<1>8. /\ \A s \in Seq(K) : Flat(op, s) = s
      /\ \A s \in Seq(W \ K) : Flat(op, s) = <<>>
      /\ \A s, t \in Seq(W) : Flat(op, s \o t) = Flat(op, s) \o Flat(op, t)
  BY <1>1, FilterLaws
<1> HIDE DEF op
<1>9. Flat(op, text) = (Flat(op, body) \o Flat(op, ActiveSkills)) \o Flat(op, HookContext)
  <2>1. Flat(op, text) = Flat(op, body \o ActiveSkills) \o Flat(op, HookContext)
    BY <1>4, <1>5, <1>8
  <2>2. Flat(op, body \o ActiveSkills) = Flat(op, body) \o Flat(op, ActiveSkills)
    BY <1>4, <1>8
  <2> QED BY <2>1, <2>2
<1>10. Flat(op, body) = <<>> /\ Flat(op, ActiveSkills) = ActiveSkills /\ Flat(op, HookContext) = <<>>
  BY <1>2, <1>4, <1>8
<1>11. (<<>> \o ActiveSkills) \o <<>> = ActiveSkills
  <2>1. \A s \in Seq(K) : <<>> \o s = s /\ s \o <<>> = s
    OBVIOUS
  <2> QED BY <1>2, <2>1
<1> QED BY <1>6, <1>7, <1>9, <1>10, <1>11 DEF W

\* The summary stays a text of the lines there are.
LEMMA NotedKept == Inv /\ Noted /\ [Next]_vars => Noted'
<1> SUFFICES ASSUME Inv, Noted, [Next]_vars PROVE Noted'
  OBVIOUS
<1>1. ASSUME UNCHANGED <<summary, skills, plan, count>> PROVE Noted'
  BY <1>1 DEF Noted
<1>2. CASE Ask \/ Say \/ Call \/ Answer \/ SaveTokenRate
  BY <1>1, <1>2 DEF Ask, Say, Call, Answer, SaveTokenRate, Add
<1>3. CASE ActivateSkill
  BY <1>3 DEF ActivateSkill, Noted
<1>4. CASE MovePlan
  BY <1>4 DEF MovePlan, Noted
<1>5. CASE CompactVcc \/ CompactLlm
  <2>1. count' = count + 1 /\ UNCHANGED <<skills, plan>>
    BY <1>5, VccGives, LlmGives
  <2>2. PICK body \in Seq(Unmarked) : summary' = (body \o ActiveSkills) \o HookContext
    BY <1>5, CompactionWrites
  <2>3. summary' \in Seq(Written)
    BY <2>2, SkillsWritten
  <2> QED BY <2>1, <2>3 DEF Noted
<1>6. CASE UNCHANGED vars
  BY <1>1, <1>6 DEF vars
<1> QED BY <1>2, <1>3, <1>4, <1>5, <1>6 DEF Next

\* Nothing else compacts.
LEMMA OnlyCompactionsCount ==
  ASSUME Noted, [Next]_vars, count' > count
  PROVE  CompactVcc \/ CompactLlm
<1>1. ASSUME count' = count PROVE FALSE
  BY <1>1 DEF Noted
<1> QED BY <1>1 DEF Next, Ask, Say, Call, Answer, SaveTokenRate, Add, ActivateSkill, MovePlan, vars

\* Whatever a compaction did, with either strategy, the summary holds the
\* instructions of the active skills once, and the current ones: vcc.rs strips
\* those of the summary before it merges and appends the active ones, and llm.rs
\* appends them to a new text.
THEOREM SkillsStayOnce == Spec => SkillsOnce
<1>1. Init => Inv /\ Noted
  <2>1. Init => Noted
    <3>1. <<>> \in Seq(Written)
      OBVIOUS
    <3> QED BY <3>1 DEF Init, Noted
  <2> QED BY <2>1, Starts
<1>2. Inv /\ Noted /\ [Next]_vars => (Inv /\ Noted)'
  BY StepKeeps, NotedKept
<1>3. Inv /\ Noted /\ [Next]_vars
        => [count' > count => Those(summary', LAMBDA l : l.a = "skills") = ActiveSkills]_vars
  <2> SUFFICES ASSUME Inv, Noted, [Next]_vars, count' > count
               PROVE  Those(summary', LAMBDA l : l.a = "skills") = ActiveSkills
    OBVIOUS
  <2>1. PICK body \in Seq(Unmarked) : summary' = (body \o ActiveSkills) \o HookContext
    BY OnlyCompactionsCount, CompactionWrites
  <2> QED BY <2>1, SkillsWritten
<1> QED BY <1>1, <1>2, <1>3, PTL DEF Spec, SkillsOnce

-----------------------------------------------------------------------------
(* A summary without a plan: what was written, and the skills behind it.   *)

\* A concatenation holds what its parts hold.
LEMMA InParts ==
  ASSUME NEW Y, NEW a \in Seq(Y), NEW b \in Seq(Y)
  PROVE  ToSet(a) \subseteq ToSet(a \o b) /\ ToSet(b) \subseteq ToSet(a \o b)
<1> DEFINE c == a \o b
<1>1. /\ c \in Seq(Y) /\ Len(a) \in Nat /\ Len(b) \in Nat /\ Len(c) = Len(a) + Len(b)
      /\ DOMAIN a = 1 .. Len(a) /\ DOMAIN b = 1 .. Len(b)
  OBVIOUS
<1>2. \A i \in 1 .. Len(a) + Len(b) : c[i] = IF i <= Len(a) THEN a[i] ELSE b[i - Len(a)]
  OBVIOUS
<1> HIDE DEF c
<1>3. DOMAIN c = 1 .. Len(c)
  BY <1>1
<1>4. \A i \in 1 .. Len(a) : i \in 1 .. Len(c) /\ c[i] = a[i]
  BY <1>1, <1>2
<1>5. \A i \in 1 .. Len(b) : Len(a) + i \in 1 .. Len(c) /\ c[Len(a) + i] = b[i]
  <2> TAKE i \in 1 .. Len(b)
  <2>1. Len(a) + i \in 1 .. Len(a) + Len(b) /\ ~(Len(a) + i <= Len(a)) /\ (Len(a) + i) - Len(a) = i
    BY <1>1
  <2> QED BY <1>1, <1>2, <2>1
<1> QED BY <1>1, <1>3, <1>4, <1>5 DEF ToSet, c

\* What is said has no rule in it, and neither have skills.
LEMMA PlainSaid ==
  /\ \A s \in Seq(Said) : Plain(s) /\ Ended(s)
  /\ \A s \in Seq(Fresh) : Plain(s) => s \in Seq(Said)
  /\ \A s \in Seq(Marks) : Plain(s)
<1> DEFINE S == Said
           F == Fresh
           K == Marks
<1>1. F = S \cup {Rule} /\ Rule \notin S /\ Rule \notin K
  BY LinesTyped DEF Fresh, Said, Of, Marks, SkillsIn
<1> HIDE DEF S, F, K
<1>2. \A s \in Seq(S) : Plain(s) /\ Ended(s)
  <2> TAKE s \in Seq(S)
  <2>1. \A i \in 1 .. Len(s) : s[i] \in S
    OBVIOUS
  <2>2. s # <<>> => Len(s) \in 1 .. Len(s)
    OBVIOUS
  <2> QED BY <1>1, <2>1, <2>2 DEF Plain, Ended
<1>3. \A s \in Seq(F) : Plain(s) => s \in Seq(S)
  <2> TAKE s \in Seq(F)
  <2>1. (\A i \in 1 .. Len(s) : s[i] \in F) /\ Len(s) \in Nat /\ s = [i \in 1 .. Len(s) |-> s[i]]
    OBVIOUS
  <2> HAVE Plain(s)
  <2>2. \A i \in 1 .. Len(s) : s[i] \in S
    BY <1>1, <2>1 DEF Plain
  <2> QED BY <2>1, <2>2
<1>4. \A s \in Seq(K) : Plain(s)
  <2> TAKE s \in Seq(K)
  <2>1. \A i \in 1 .. Len(s) : s[i] \in K
    OBVIOUS
  <2> QED BY <1>1, <2>1 DEF Plain
<1> QED BY <1>2, <1>3, <1>4 DEF S, F, K

\* What two parts are joined to ends in no rule.
LEMMA RuledEnded ==
  ASSUME NEW p \in Seq(Said), NEW q \in Seq(Said)
  PROVE  Ruled(p, q) \in Seq(Fresh) /\ Ended(Ruled(p, q))
<1> DEFINE S == Said
           F == Fresh
           rq == <<Rule>> \o q
<1>1. S \subseteq F /\ Rule \in F /\ p \in Seq(S) /\ q \in Seq(S)
  BY DEF Fresh
<1>2. \A s \in Seq(S) : Ended(s)
  BY PlainSaid
<1> HIDE DEF S, F
<1>3. p \in Seq(F) /\ q \in Seq(F)
  BY <1>1
<1>4. Ruled(p, q) \in Seq(F)
  BY <1>1, <1>3, RuledTyped
<1>5. CASE p = <<>> \/ q = <<>>
  BY <1>1, <1>2, <1>4, <1>5 DEF Ruled, F
<1>6. CASE p # <<>> /\ q # <<>>
  <2>1. /\ rq \in Seq(F) /\ Len(rq) = Len(q) + 1
        /\ \A i \in 1 .. Len(q) : rq[i + 1] = q[i]
    BY <1>1, <1>3, FewPut
  <2> HIDE DEF rq
  <2> DEFINE t == p \o rq
  <2>2. Len(p) \in Nat /\ Len(q) \in Nat /\ Len(q) >= 1
    BY <1>6
  <2>3. /\ t \in Seq(F) /\ Len(t) = Len(p) + Len(rq)
        /\ \A i \in 1 .. Len(p) + Len(rq) : t[i] = IF i <= Len(p) THEN p[i] ELSE rq[i - Len(p)]
    <3>1. p \in Seq(F) /\ rq \in Seq(F)
      BY <1>3, <2>1
    <3> QED BY <3>1
  <2> HIDE DEF t
  <2>4. t[Len(t)] = q[Len(q)]
    <3>1. /\ Len(t) \in 1 .. Len(p) + Len(rq) /\ ~(Len(t) <= Len(p))
          /\ Len(t) - Len(p) = Len(q) + 1 /\ Len(q) \in 1 .. Len(q)
      BY <2>1, <2>2, <2>3
    <3> QED BY <2>1, <2>3, <3>1
  <2>5. q[Len(q)] # Rule
    BY <1>1, <1>2, <1>6 DEF Ended
  <2>6. Ruled(p, q) = t
    BY <1>6 DEF Ruled, t, rq
  <2> QED BY <1>4, <2>4, <2>5, <2>6 DEF Ended, F
<1> QED BY <1>5, <1>6

\* Without a plan, the summary before is what its compaction wrote, and then
\* the skills: these go, and the rest is merged.
LEMMA MergeKeeps ==
  ASSUME NEW body \in Seq(Fresh), Ended(body), NEW sk \in Seq(Marks), body \o sk # <<>>,
         NEW new \in Seq(Fresh), Ended(new)
  PROVE  /\ MergePrevious(body \o sk, new)
              = Ruled(HeadsOf(body, new), BriefsOf(body, new))
         /\ HeadsOf(body, new) \in Seq(Said)
         /\ BriefOf(body) \in Seq(Said) /\ BriefOf(new) \in Seq(Said)
         /\ BriefsOf(body, new) \in Seq(Said)
<1> DEFINE W == Written
           U == Unmarked
           K == Marks
           F == Fresh
           S == Said
           H == HeadsOf(body, new)
           M == BriefsOf(body, new)
           old == body \o sk
<1>1. /\ F \subseteq U /\ U \subseteq W /\ K \subseteq W \ U /\ K \subseteq W /\ S \subseteq F /\ Rule \in F
      /\ U \in SUBSET W
  BY MarksAre DEF Fresh
<1>2. \A l \in F \cup K : l.a # "plan"
  BY LinesTyped DEF Fresh, Said, Of, Marks, SkillsIn
<1>3. body \in Seq(F) /\ sk \in Seq(K) /\ new \in Seq(F)
  OBVIOUS
<1>4. \A h : SectionOf(body, h) \in Seq(F) /\ Plain(SectionOf(body, h))
             /\ SectionOf(new, h) \in Seq(F) /\ Plain(SectionOf(new, h))
  BY SectionOfTyped
<1>5. BriefOf(body) \in Seq(F) /\ Plain(BriefOf(body)) /\ BriefOf(new) \in Seq(F) /\ Plain(BriefOf(new))
  BY BriefOfTyped
<1>6. /\ \A h : SectionOf(body, h) \in Seq(S) /\ SectionOf(new, h) \in Seq(S)
      /\ BriefOf(body) \in Seq(S) /\ BriefOf(new) \in Seq(S)
  BY <1>4, <1>5, PlainSaid
<1>7. H \in Seq(S)
  BY <1>6, HeadsTyped
<1>8. M \in Seq(S)
  BY <1>6, LinesTyped, MergeBriefIs DEF BriefsOf
<1> HIDE DEF W, U, K, F, S
<1>9. body \in Seq(U) /\ body \in Seq(W) /\ sk \in Seq(W) /\ sk \in Seq(W \ U) /\ old \in Seq(W)
  <2>1. body \in Seq(U) /\ body \in Seq(W) /\ sk \in Seq(W) /\ sk \in Seq(W \ U)
    BY <1>1, <1>3
  <2> QED BY <2>1
<1> HIDE DEF old
<1>10. \A i \in 1 .. Len(old) : old[i] \in F \cup K
  <2> DEFINE Z == F \cup K
  <2>1. body \in Seq(Z) /\ sk \in Seq(Z)
    BY <1>3
  <2> HIDE DEF Z
  <2>2. old \in Seq(Z)
    BY <2>1 DEF old
  <2> QED BY <2>2, ElementsIn DEF Z
<1>11. \A i \in 1 .. Len(new) : new[i] \in F \cup K
  BY <1>3
<1>12. StripPlanBlock(new) = new /\ ExtractPlanBlock(new) = <<>>
  BY <1>2, <1>3, <1>11, PlanTaken
<1>13. StripPlanBlock(old) = old /\ ExtractPlanBlock(old) = <<>>
  BY <1>2, <1>9, <1>10, PlanTaken
<1>14. Bared(old) = body
  <2>1. Bared(old) = Flat(In(W, U), old)
    BY <1>9, <1>13, SkillsTaken DEF Bared, U, W, Unmarked, Marks
  <2>5. \A s \in Seq(U) : Flat(In(W, U), s) = s
    BY <1>1, FilterLaws
  <2>6. \A s \in Seq(W \ U) : Flat(In(W, U), s) = <<>>
    BY <1>1, FilterLaws
  <2>7. \A s, t \in Seq(W) : Flat(In(W, U), s \o t) = Flat(In(W, U), s) \o Flat(In(W, U), t)
    BY <1>1, FilterLaws
  <2>2. /\ \A s \in Seq(U) : Flat(In(W, U), s) = s
        /\ \A s \in Seq(W \ U) : Flat(In(W, U), s) = <<>>
        /\ \A s, t \in Seq(W) : Flat(In(W, U), s \o t) = Flat(In(W, U), s) \o Flat(In(W, U), t)
    BY <2>5, <2>6, <2>7
  <2>3. Flat(In(W, U), old) = Flat(In(W, U), body) \o Flat(In(W, U), sk)
    BY <1>9, <2>2 DEF old
  <2>4. Flat(In(W, U), body) = body /\ Flat(In(W, U), sk) = <<>> /\ body \o <<>> = body
    BY <1>9, <2>2
  <2> QED BY <2>1, <2>3, <2>4
<1>15. PlansOf(old, new) = <<>>
  BY <1>12, <1>13 DEF PlansOf
<1>16. MergePrevious(old, new) = Ruled(Ruled(H, M), <<>>)
  <2>3. old # <<>>
    BY DEF old
  <2>1. /\ Said \subseteq F /\ Rule \in F /\ Bared(old) \in Seq(F)
        /\ StripPlanBlock(new) \in Seq(F) /\ PlansOf(old, new) \in Seq(F)
    BY <1>1, <1>3, <1>12, <1>14, <1>15 DEF S
  <2>2. MergePrevious(old, new)
          = Ruled(Ruled(HeadsOf(Bared(old), StripPlanBlock(new)),
                        BriefsOf(Bared(old), StripPlanBlock(new))),
                  PlansOf(old, new))
    BY <2>1, <2>3, MergeIs
  <2> QED BY <1>12, <1>14, <1>15, <2>2
<1> HIDE DEF H, M
<1>17. Ruled(Ruled(H, M), <<>>) = Ruled(H, M)
  BY DEF Ruled
<1> QED BY <1>6, <1>7, <1>8, <1>16, <1>17 DEF S, H, M, old

-----------------------------------------------------------------------------
(* The brief of the summary before.                                        *)

\* Appended skills change nothing of the brief but what follows it.
LEMMA BriefOfMarked ==
  ASSUME NEW body \in Seq(Fresh), Ended(body), NEW sk \in Seq(Marks)
  PROVE  \A l \in ToSet(BriefOf(body \o sk)) : l \in Marks \/ l \in ToSet(BriefOf(body))
<1> DEFINE W == Written
           text == body \o sk
           n == Len(body)
           r == Max(Rules(text))
           m == Max(Rules(body))
           part == SubSeq(text, r + 1, Len(text))
           own == SubSeq(body, r + 1, n)
<1>1. body \in Seq(W) /\ sk \in Seq(W) /\ Plain(sk)
  <2> DEFINE F == Fresh
             K == Marks
  <2>1. F \subseteq W /\ K \subseteq W /\ body \in Seq(F) /\ sk \in Seq(K)
    BY MarksAre DEF Fresh
  <2> HIDE DEF F, K, W
  <2>2. body \in Seq(W) /\ sk \in Seq(W)
    BY <2>1
  <2> QED BY <2>2, PlainSaid
<1> HIDE DEF W
<1>2. /\ text \in Seq(W) /\ Len(text) = n + Len(sk) /\ n \in Nat /\ Len(sk) \in Nat
      /\ \A i \in 1 .. n + Len(sk) : text[i] = IF i <= n THEN body[i] ELSE sk[i - n]
  BY <1>1, ConcatProperties
<1> HIDE DEF text
<1>3. CASE Rules(text) = {}
  <2>1. BriefOf(text) = <<>>
    BY <1>3 DEF BriefOf
  <2>2. ToSet(<<>>) = {}
    BY DEF ToSet
  <2> QED BY <2>1, <2>2 DEF text
<1>4. CASE Rules(text) # {}
  <2>1. r \in 1 .. Len(text) - 1 /\ text[r] = Rule
        /\ \A i \in r + 1 .. Len(text) : text[i] = Rule => i = Len(text)
    BY <1>2, <1>4, RulesAre
  <2> HIDE DEF r
  <2>2. r <= n
    <3>1. ASSUME r > n PROVE FALSE
      <4>1. r - n \in 1 .. Len(sk) /\ r \in 1 .. n + Len(sk) /\ ~(r <= n)
        BY <1>2, <2>1, <3>1
      <4>2. sk[r - n] = Rule
        BY <1>2, <2>1, <4>1
      <4> QED BY <1>1, <4>1, <4>2 DEF Plain
    <3> QED BY <1>2, <2>1, <3>1
  <2>3. body[r] = Rule
    BY <1>2, <2>1, <2>2
  <2>4. r < n
    <3>1. r # n
      <4>1. body # <<>>
        BY <2>1, <2>2
      <4> QED BY <2>3, <4>1 DEF Ended
    <3> QED BY <1>2, <2>1, <2>2, <3>1
  <2>5. r \in Rules(body)
    BY <1>1, <2>1, <2>3, <2>4 DEF Rules, IsRule
  <2>6. m \in 1 .. n - 1 /\ body[m] = Rule /\ \A i \in m + 1 .. n : body[i] = Rule => i = n
    BY <1>1, <2>5, RulesAre
  <2> HIDE DEF m
  <2>7. m = r
    <3>1. CASE m < r
      BY <1>2, <2>1, <2>3, <2>4, <2>6, <3>1
    <3>2. CASE m > r
      <4>1. m \in r + 1 .. Len(text) /\ m \in 1 .. n + Len(sk) /\ m <= n /\ m # Len(text)
        BY <1>2, <2>1, <2>6, <3>2
      <4> QED BY <1>2, <2>1, <2>6, <4>1
    <3> QED BY <2>1, <2>6, <3>1, <3>2
  <2>8. BriefOf(text) = part /\ BriefOf(body) = own
    BY <1>4, <2>5, <2>7 DEF BriefOf, r, m
  <2>9. r + 1 \in Nat \ {0} /\ n \in Nat /\ n <= Len(body) /\ r + 1 <= n
        /\ Len(text) \in Nat /\ r + 1 <= Len(text) /\ r \in Nat
    BY <1>2, <2>1, <2>4
  <2>10. /\ own \in Seq(W) /\ Len(own) = n - (r + 1) + 1
         /\ \A k \in 1 .. Len(own) : own[k] = body[r + 1 + k - 1]
    BY <1>1, <2>9, PieceOf
  <2>11. /\ part \in Seq(W)
         /\ \A k \in 1 .. Len(part) : /\ part[k] = text[r + 1 + k - 1]
                                      /\ r + 1 + k - 1 \in r + 1 .. Len(text)
    BY <1>2, <2>9, PieceOf
  <2> HIDE DEF own, part
  <2>12. ASSUME NEW l \in ToSet(part) PROVE l \in Marks \/ l \in ToSet(own)
    <3>1. PICK k \in 1 .. Len(part) : l = part[k]
      BY <2>11 DEF ToSet
    <3>2. PICK i \in r + 1 .. Len(text) : l = text[i]
      BY <2>11, <3>1
    <3>3. CASE i <= n
      <4>1. i - r \in 1 .. Len(own) /\ r + 1 + (i - r) - 1 = i
        BY <2>9, <2>10, <3>3
      <4>2. own[i - r] = body[i]
        BY <2>10, <4>1
      <4>3. l = body[i]
        <5>1. i \in 1 .. n + Len(sk)
          BY <1>2, <2>1
        <5> QED BY <1>2, <3>2, <3>3, <5>1
      <4>4. i - r \in DOMAIN own
        BY <2>10, <4>1
      <4> QED BY <4>2, <4>3, <4>4 DEF ToSet
    <3>4. CASE i > n
      <4>1. i - n \in 1 .. Len(sk) /\ i \in 1 .. n + Len(sk) /\ ~(i <= n)
        BY <1>2, <2>9, <3>4
      <4>2. l = sk[i - n]
        BY <1>2, <3>2, <4>1
      <4> QED BY <4>1, <4>2
    <3> QED BY <1>2, <2>9, <3>3, <3>4
  <2> QED BY <2>8, <2>12 DEF text
<1> QED BY <1>3, <1>4 DEF text

\* The lines of a brief that stand for a block.
LEMMA BriefLines ==
  ASSUME NEW text \in Seq(Written), NEW l \in ToSet(Brief(text))
  PROVE  l.a = "line" /\ l \in ToSet(BriefOf(text))
<1> DEFINE W == Written
           L == {x \in W : x.a = "line"}
           b == BriefOf(text)
<1>1. b \in Seq(W) /\ L \in SUBSET W
  BY BriefOfTyped
<1> HIDE DEF b
<1>2. Brief(text) = Flat(In(W, L), b)
  <2>1. \A i \in DOMAIN b : b[i] \in W
    BY <1>1
  <2>2. [i \in DOMAIN b |-> IF b[i].a = "line" THEN <<b[i]>> ELSE <<>>]
          = [i \in DOMAIN b |-> IF b[i] \in L THEN <<b[i]>> ELSE <<>>]
    BY <2>1
  <2>3. Brief(text) = FlattenSeq([i \in DOMAIN b |-> IF b[i].a = "line" THEN <<b[i]>> ELSE <<>>])
    BY DEF Brief, Those, b
  <2> HIDE DEF L
  <2> QED BY <1>1, <2>2, <2>3, ThoseIs
<1> DEFINE f == Flat(In(W, L), b)
<1>4. \A x \in L : x.a = "line"
  OBVIOUS
<1> HIDE DEF W, L
<1>3. f \in Seq(L)
  BY <1>1, FilterLaws
<1>5. \A k \in 1 .. Len(f) : \E i \in 1 .. Len(b) : b[i] = f[k]
  BY <1>1, FilterHas
<1> HIDE DEF f
<1>6. PICK k \in 1 .. Len(f) : l = f[k]
  BY <1>2, <1>3 DEF ToSet, f
<1>7. l \in L
  BY <1>3, <1>6
<1>8. PICK i \in 1 .. Len(b) : b[i] = l
  BY <1>5, <1>6
<1>9. i \in DOMAIN b
  BY <1>1
<1> QED BY <1>4, <1>7, <1>8, <1>9 DEF ToSet, b

\* A fresh summary that has a brief says something in its first section.
LEMMA FreshSays ==
  ASSUME NEW secs \in Headed, NEW brief \in Seq(Transcript), BriefOf(Ruled(secs, brief)) # <<>>
  PROVE  /\ BriefOf(Ruled(secs, brief)) = brief
         /\ \E h \in HeaderNames : /\ SectionOf(Ruled(secs, brief), h) # <<>>
                                   /\ SectionOf(Ruled(secs, brief), h)[1] \in Telling(h)
<1> DEFINE F == Fresh
           rb == <<Rule>> \o brief
           new == Ruled(secs, brief)
<1>1. secs \in Seq(Said) /\ brief \in Seq(Said) /\ secs \in Seq(F) /\ brief \in Seq(F) /\ new \in Seq(F)
      /\ Rule \in F
  BY FreshTyped DEF Fresh
<1>2. Plain(secs) /\ Plain(brief)
  BY <1>1, PlainSaid
<1> HIDE DEF F
<1>3. secs # <<>> /\ brief # <<>>
  <2>1. BriefOf(secs) = <<>> /\ BriefOf(brief) = <<>>
    BY <1>1, <1>2, BriefOfTyped
  <2> QED BY <2>1 DEF Ruled
<1>4. new = secs \o rb
  BY <1>3 DEF Ruled
<1>5. BriefOf(new) = brief
  BY <1>1, <1>2, <1>3, <1>4, BriefOfRuled
<1>6. PICK h \in HeaderNames : Len(secs) >= 2 /\ secs[1] = Tag(h) /\ secs[2] \in Telling(h)
  BY <1>3 DEF Headed
<1>7. rb \in Seq(F)
  BY <1>1, FewPut
<1> HIDE DEF new, rb
<1>8. Len(new) >= 2 /\ new[1] = secs[1] /\ new[2] = secs[2]
  <2>1. /\ Len(new) = Len(secs) + Len(rb) /\ Len(secs) \in Nat /\ Len(rb) \in Nat
        /\ \A i \in 1 .. Len(secs) + Len(rb) : new[i] = IF i <= Len(secs) THEN secs[i] ELSE rb[i - Len(secs)]
    BY <1>1, <1>4, <1>7, ConcatProperties
  <2>2. 1 \in 1 .. Len(secs) + Len(rb) /\ 1 <= Len(secs) /\ 2 \in 1 .. Len(secs) + Len(rb) /\ 2 <= Len(secs)
    BY <1>6, <2>1
  <2> QED BY <1>6, <2>1, <2>2
<1>9. new[2].a = "item"
  <2>1. secs[2] \in Items
    BY <1>6, LinesTyped DEF Telling
  <2> QED BY <1>8, <2>1 DEF Items, Of
<1>10. SectionOf(new, h) # <<>> /\ SectionOf(new, h)[1] = new[2]
  BY <1>1, <1>6, <1>8, <1>9, SectionStarts
<1> QED BY <1>5, <1>6, <1>8, <1>10 DEF new

\* Concatenation, regrouped around a rule.
LEMMA RuleBetween ==
  ASSUME NEW W, NEW R \in W, NEW a \in Seq(W), NEW c \in Seq(W), NEW d \in Seq(W)
  PROVE  (a \o (<<R>> \o c)) \o d = a \o (<<R>> \o (c \o d))
<1> DEFINE one == <<R>>
<1>1. one \in Seq(W)
  OBVIOUS
<1> HIDE DEF one
<1> DEFINE bc == one \o c
<1>3. bc \in Seq(W)
  BY <1>1
<1>4. bc \o d = one \o (c \o d)
  BY <1>1, ConcatAssociative
<1> HIDE DEF bc
<1>5. (a \o bc) \o d = a \o (bc \o d)
  BY <1>3, ConcatAssociative
<1> QED BY <1>4, <1>5 DEF bc, one

\* What is said after a ruled text belongs to its brief.
LEMMA BriefThen ==
  ASSUME NEW W, Rule \in W, NEW heads \in Seq(W), NEW brief \in Seq(W), NEW after \in Seq(W),
         heads # <<>>, brief # <<>>, Plain(brief), Plain(after)
  PROVE  BriefOf(Ruled(heads, brief) \o after) = brief \o after
<1> DEFINE q == brief \o after
           R == Rule
           text == Ruled(heads, brief) \o after
<1>1. /\ q \in Seq(W) /\ Len(q) = Len(brief) + Len(after) /\ Len(brief) \in Nat /\ Len(after) \in Nat
      /\ \A i \in 1 .. Len(brief) + Len(after) : q[i] = IF i <= Len(brief) THEN brief[i] ELSE after[i - Len(brief)]
  BY ConcatProperties
<1> HIDE DEF q
<1>2. Len(brief) # 0
  OBVIOUS
<1>3. q # <<>>
  BY <1>1, <1>2
<1>4. Plain(q)
  <2>1. ASSUME NEW i \in 1 .. Len(q) PROVE q[i] # Rule
    <3>1. CASE i <= Len(brief)
      <4>1. i \in 1 .. Len(brief) /\ q[i] = brief[i]
        BY <1>1, <3>1
      <4> QED BY <4>1 DEF Plain
    <3>2. CASE i > Len(brief)
      <4>1. i - Len(brief) \in 1 .. Len(after) /\ q[i] = after[i - Len(brief)]
        BY <1>1, <3>2
      <4> QED BY <4>1 DEF Plain
    <3> QED BY <1>1, <3>1, <3>2
  <2> QED BY <2>1 DEF Plain
<1>5. text = heads \o (<<Rule>> \o q)
  <2>1. Ruled(heads, brief) = heads \o (<<R>> \o brief)
    BY DEF Ruled, R
  <2>2. R \in W
    OBVIOUS
  <2> HIDE DEF R
  <2>3. (heads \o (<<R>> \o brief)) \o after = heads \o (<<R>> \o (brief \o after))
    BY <2>2, RuleBetween
  <2> QED BY <2>1, <2>3 DEF R, q, text
<1> HIDE DEF text
<1>6. BriefOf(text) = q
  BY <1>1, <1>3, <1>4, <1>5, BriefOfRuled
<1> QED BY <1>6 DEF text, q

Carried(old, text) ==
  \/ Len(BriefOf(text)) >= BriefMax
  \/ Omitted("lines") \in ToSet(BriefOf(text))
  \/ ToSet(old) \subseteq ToSet(text)

\* Merging keeps the brief before, or says that it is cut, or is full.
LEMMA MergeCarries ==
  ASSUME NEW body \in Seq(Fresh), Ended(body), NEW sk \in Seq(Marks), body \o sk # <<>>,
         NEW secs \in Headed, NEW brief \in Seq(Transcript), NEW after \in Seq(Marks)
  PROVE  Carried(BriefOf(body), MergePrevious(body \o sk, Ruled(secs, brief)) \o after)
<1> DEFINE new == Ruled(secs, brief)
           H == HeadsOf(body, new)
           M == BriefsOf(body, new)
           t == BriefOf(body)
           fb == BriefOf(new)
           W == Written
           rm == <<Rule>> \o M
           text == MergePrevious(body \o sk, new) \o after
<1> SUFFICES Carried(t, text)
  OBVIOUS
<1>1. secs \in Seq(Said) /\ brief \in Seq(Said) /\ new \in Seq(Fresh) /\ Ended(new)
  BY FreshTyped, RuledEnded
<1>2. /\ MergePrevious(body \o sk, new) = Ruled(H, M)
      /\ H \in Seq(Said) /\ t \in Seq(Said) /\ fb \in Seq(Said) /\ M \in Seq(Said)
  <2> HIDE DEF new
  <2> QED BY <1>1, MergeKeeps
<1>3. /\ H \in Seq(W) /\ t \in Seq(W) /\ fb \in Seq(W) /\ M \in Seq(W) /\ after \in Seq(W)
      /\ Rule \in W /\ Omitted("lines") \in W
  <2> DEFINE S == Said
             K == Marks
             T == Transcript
  <2>1. S \subseteq W /\ K \subseteq W /\ after \in Seq(K) /\ Rule \in W /\ Omitted("lines") \in W
        /\ H \in Seq(S) /\ t \in Seq(S) /\ fb \in Seq(S) /\ M \in Seq(S)
    BY <1>2, MarksAre, LinesTyped
  <2> HIDE DEF S, K, W, H, t, fb, M
  <2> QED BY <2>1
<1>4. Plain(M) /\ Plain(after)
  BY <1>2, PlainSaid
<1> HIDE DEF W
<1>5. (fb = <<>> => M = t) /\ (fb # <<>> => OneOf(W, t, fb, M))
  <2> HIDE DEF new, t, fb
  <2>1. M = MergeBrief(t, fb)
    BY DEF BriefsOf, t, fb
  <2> HIDE DEF M
  <2> QED BY <1>3, <2>1, MergeBriefIs
<1>6. rm \in Seq(W)
  BY <1>3, FewPut
<1>7. ToSet(M) \subseteq ToSet(text)
  <2>1. Ruled(H, M) \in Seq(W)
    BY <1>3, RuledTyped
  <2>2. ToSet(Ruled(H, M)) \subseteq ToSet(text)
    <3> HIDE DEF H, M
    <3> QED BY <1>2, <1>3, <2>1, InParts
  <2>3. ToSet(M) \subseteq ToSet(Ruled(H, M))
    <3> HIDE DEF H, M
    <3>1. <<Rule>> \in Seq(W)
      BY <1>3
    <3>2. ToSet(M) \subseteq ToSet(rm)
      BY <1>3, <3>1, InParts
    <3> HIDE DEF rm
    <3>3. ToSet(rm) \subseteq ToSet(H \o rm)
      BY <1>3, <1>6, InParts
    <3>4. ToSet(<<>>) = {}
      BY DEF ToSet
    <3> QED BY <3>2, <3>3, <3>4 DEF Ruled, rm
  <2> QED BY <2>2, <2>3
<1>8. CASE fb = <<>>
  BY <1>5, <1>7, <1>8 DEF Carried
<1>9. CASE fb # <<>>
  <2>1. fb = brief /\ \E h \in HeaderNames : /\ SectionOf(new, h) # <<>>
                                             /\ SectionOf(new, h)[1] \in Telling(h)
    BY <1>9, FreshSays
  <2>2. H # <<>>
    <3>1. \A h : SectionOf(body, h) \in Seq(Fresh) /\ SectionOf(new, h) \in Seq(Fresh)
      BY <1>1, SectionOfTyped
    <3> HIDE DEF new
    <3>2. Said \subseteq Fresh
      BY DEF Fresh
    <3> QED BY <2>1, <3>1, <3>2, HeadsTyped
  <2> HIDE DEF H, t, fb, M, new
  <2>3. M # <<>>
    <3>1. \A a, b \in Seq(W) : b # <<>> => a \o b # <<>>
      OBVIOUS
    <3>2. \A clean \in Seq(W) : <<Omitted("lines")>> \o clean \in Seq(W)
      BY <1>3, FewPut
    <3> QED BY <1>3, <1>5, <1>9, <3>1, <3>2 DEF OneOf
  <2> DEFINE q == M \o after
  <2>7. BriefOf(text) = q
    <3> HIDE DEF text
    <3>1. text = Ruled(H, M) \o after
      BY <1>2 DEF text
    <3>2. Rule \in W /\ H \in Seq(W) /\ M \in Seq(W) /\ after \in Seq(W)
      BY <1>3
    <3> QED BY <1>4, <2>2, <2>3, <3>1, <3>2, BriefThen
  <2>8. Len(q) = Len(M) + Len(after) /\ Len(M) \in Nat /\ Len(after) \in Nat
    BY <1>3, ConcatProperties
  <2>9. ToSet(M) \subseteq ToSet(q)
    BY <1>3, InParts
  <2> HIDE DEF q, text
  <2>10. CASE M = fb /\ Len(fb) >= BriefMax
    <3>1. BriefMax \in Nat
      BY CompactionAssumption
    <3>2. Len(q) >= BriefMax
      BY <2>8, <2>10, <3>1
    <3> QED BY <2>7, <3>2 DEF Carried
  <2>11. CASE M = t \o fb
    <3>1. ToSet(t) \subseteq ToSet(M)
      BY <1>3, <2>11, InParts
    <3> QED BY <1>7, <3>1 DEF Carried, t
  <2>12. CASE \E clean \in Seq(W) : M = (<<Omitted("lines")>> \o clean) \o fb
    <3> DEFINE o == Omitted("lines")
               one == <<o>>
    <3>1. PICK clean \in Seq(W) : M = (one \o clean) \o fb
      BY <2>12
    <3>2. one \in Seq(W) /\ o \in ToSet(one)
      <4>1. o \in W /\ DOMAIN one = {1} /\ one[1] = o
        BY <1>3
      <4> HIDE DEF o
      <4> QED BY <4>1 DEF ToSet
    <3> HIDE DEF o, one
    <3>3. one \o clean \in Seq(W)
      BY <3>1, <3>2
    <3>4. o \in ToSet(one \o clean)
      BY <3>1, <3>2, InParts
    <3>5. o \in ToSet(M)
      BY <1>3, <3>1, <3>3, <3>4, InParts
    <3> QED BY <2>7, <2>9, <3>5 DEF Carried, o
  <2> QED BY <1>5, <1>9, <2>10, <2>11, <2>12 DEF OneOf
<1> QED BY <1>8, <1>9 DEF text, new

-----------------------------------------------------------------------------
(* The form of the summary, and what it keeps of the brief.                *)

\* While no hook has reported a plan, a summary is what its compaction wrote,
\* which ends in no rule, and the skills after it.
Kept ==
  plan = 0 => \E body \in Seq(Fresh), sk \in Seq(Marks) : summary = body \o sk /\ Ended(body)

\* Without a plan nothing is appended behind the skills.
LEMMA WithoutPlan ==
  ASSUME Noted, plan = 0, NEW body \in Seq(Fresh)
  PROVE  (body \o ActiveSkills) \o HookContext = body \o ActiveSkills
<1> DEFINE W == Written
           K == Marks
           F == Fresh
           both == body \o ActiveSkills
<1>1. ActiveSkills \in Seq(K) /\ body \in Seq(F) /\ F \subseteq W /\ K \subseteq W
  BY AppendedTyped, MarksAre DEF Fresh
<1> HIDE DEF W, K, F
<1>2. body \in Seq(W) /\ ActiveSkills \in Seq(W)
  BY <1>1
<1>3. both \in Seq(W)
  BY <1>2
<1> HIDE DEF both
<1>4. both \o <<>> = both
  BY <1>3
<1>5. HookContext = <<>>
  BY DEF HookContext
<1> QED BY <1>4, <1>5 DEF both

\* What a merge writes ends in no rule.
LEMMA MergeEnds ==
  ASSUME NEW body \in Seq(Fresh), Ended(body), NEW sk \in Seq(Marks),
         NEW secs \in Headed, NEW brief \in Seq(Transcript)
  PROVE  /\ MergePrevious(body \o sk, Ruled(secs, brief)) \in Seq(Fresh)
         /\ Ended(MergePrevious(body \o sk, Ruled(secs, brief)))
<1> DEFINE new == Ruled(secs, brief)
           old == body \o sk
<1>1. new \in Seq(Fresh) /\ Ended(new)
  BY FreshTyped, RuledEnded
<1>2. CASE old = <<>>
  <2>1. MergePrevious(old, new) = new
    BY <1>2 DEF MergePrevious
  <2> QED BY <1>1, <2>1
<1>3. CASE old # <<>>
  <2> DEFINE H == HeadsOf(body, new)
             M == BriefsOf(body, new)
  <2>1. MergePrevious(body \o sk, new) = Ruled(H, M) /\ H \in Seq(Said) /\ M \in Seq(Said)
    <3> HIDE DEF new
    <3> QED BY <1>1, <1>3, MergeKeeps
  <2> HIDE DEF H, M
  <2>2. Ruled(H, M) \in Seq(Fresh) /\ Ended(Ruled(H, M))
    BY <2>1, RuledEnded
  <2> QED BY <2>1, <2>2
<1> QED BY <1>2, <1>3

\* The form of the summary, through every step.
LEMMA KeptKept ==
  ASSUME Inv, Noted, Kept, [Next]_vars
  PROVE  Kept'
<1>1. CASE Ask \/ Say \/ Call \/ Answer \/ SaveTokenRate
  <2>1. UNCHANGED <<summary, plan>>
    BY <1>1 DEF Ask, Say, Call, Answer, SaveTokenRate, Add
  <2> QED BY <2>1 DEF Kept
<1>2. CASE ActivateSkill
  BY <1>2 DEF ActivateSkill, Kept
<1>3. CASE MovePlan
  <2>1. plan' # 0
    BY <1>3 DEF MovePlan, Noted
  <2> QED BY <2>1 DEF Kept
<1>4. CASE CompactVcc
  <2>1. PICK secs \in Headed, brief \in Seq(Transcript) :
               summary' = (MergePrevious(summary, Ruled(secs, brief)) \o ActiveSkills) \o HookContext
    BY <1>4, VccGives
  <2>2. plan' = plan
    BY <1>4, VccGives
  <2>3. ASSUME plan = 0
        PROVE  \E b \in Seq(Fresh), s \in Seq(Marks) : summary' = b \o s /\ Ended(b)
    <3>1. PICK body \in Seq(Fresh), sk \in Seq(Marks) : summary = body \o sk /\ Ended(body)
      BY <2>3 DEF Kept
    <3> DEFINE b == MergePrevious(body \o sk, Ruled(secs, brief))
    <3>2. b \in Seq(Fresh) /\ Ended(b)
      BY <3>1, MergeEnds
    <3>3. summary' = (b \o ActiveSkills) \o HookContext
      BY <2>1, <3>1
    <3> HIDE DEF b
    <3>4. summary' = b \o ActiveSkills
      BY <2>3, <3>2, <3>3, WithoutPlan
    <3> QED BY <3>2, <3>4, AppendedTyped
  <2> QED BY <2>2, <2>3 DEF Kept
<1>5. CASE CompactLlm
  <2>1. summary' = (<<Prose(count)>> \o ActiveSkills) \o HookContext /\ plan' = plan
    BY <1>5, LlmGives
  <2> DEFINE b == <<Prose(count)>>
  <2>2. b \in Seq(Fresh) /\ Ended(b)
    <3> DEFINE S == Said
               p == Prose(count)
    <3>1. p \in S
      BY LinesTyped DEF Noted
    <3> HIDE DEF S, p
    <3>2. <<p>> \in Seq(S)
      BY <3>1
    <3>3. S \subseteq Fresh
      BY DEF S, Fresh
    <3>4. <<p>> \in Seq(Fresh)
      BY <3>2, <3>3
    <3> QED BY <3>2, <3>4, PlainSaid DEF S, p
  <2> HIDE DEF b
  <2>3. ASSUME plan = 0 PROVE summary' = b \o ActiveSkills
    BY <2>1, <2>2, <2>3, WithoutPlan DEF b
  <2> QED BY <2>1, <2>2, <2>3, AppendedTyped DEF Kept
<1>6. CASE UNCHANGED vars
  BY <1>6 DEF vars, Kept
<1> QED BY <1>1, <1>2, <1>3, <1>4, <1>5, <1>6 DEF Next

\* A compaction carries the brief, or says that it is cut, or is full.
LEMMA Carries ==
  ASSUME Inv, Noted, Kept, CompactVcc \/ CompactLlm,
         Briefed(summary), plan = 0, summary'[1].a # "prose"
  PROVE  \/ Len(BriefOf(summary')) >= BriefMax
         \/ Omitted("lines") \in ToSet(BriefOf(summary'))
         \/ ToSet(Brief(summary)) \subseteq ToSet(summary')
<1>1. CASE CompactLlm
  <2> DEFINE p == Prose(count)
             K == Written
  <2>1. summary' = (<<p>> \o ActiveSkills) \o HookContext
    BY <1>1, LlmGives
  <2>2. p \in K /\ ActiveSkills \in Seq(K) /\ HookContext = <<>> /\ p.a = "prose"
    <3>1. ActiveSkills \in Seq(K)
      <4> DEFINE M == Marks
      <4>1. ActiveSkills \in Seq(M) /\ M \subseteq K
        BY AppendedTyped, MarksAre
      <4> HIDE DEF M, K
      <4> QED BY <4>1
    <3>2. p \in K
      BY LinesTyped DEF Noted
    <3> QED BY <3>1, <3>2 DEF HookContext, Prose
  <2> HIDE DEF p, K
  <2> DEFINE f == <<p>> \o ActiveSkills
  <2>3. f \in Seq(K) /\ f[1] = p
    BY <2>2
  <2> HIDE DEF f
  <2>4. f \o <<>> = f
    BY <2>3
  <2>5. summary' = f
    BY <2>1, <2>2, <2>4 DEF f
  <2> QED BY <2>2, <2>3, <2>5
<1>2. CASE CompactVcc
  <2>1. PICK secs \in Headed, brief \in Seq(Transcript) :
               summary' = (MergePrevious(summary, Ruled(secs, brief)) \o ActiveSkills) \o HookContext
    BY <1>2, VccGives
  <2>2. PICK body \in Seq(Fresh), sk \in Seq(Marks) : summary = body \o sk /\ Ended(body)
    BY DEF Kept
  <2>3. summary # <<>> /\ summary \in Seq(Written)
    <3>1. BriefOf(<<>>) = <<>>
      BY DEF BriefOf, Rules
    <3> QED BY <3>1 DEF Briefed, Noted
  <2> DEFINE b == MergePrevious(body \o sk, Ruled(secs, brief))
  <2>4. summary' = b \o ActiveSkills
    <3>1. b \in Seq(Fresh)
      BY <2>2, MergeEnds
    <3>2. summary' = (b \o ActiveSkills) \o HookContext
      BY <2>1, <2>2
    <3> HIDE DEF b
    <3> QED BY <3>1, <3>2, WithoutPlan
  <2>5. Carried(BriefOf(body), summary')
    <3>1. ActiveSkills \in Seq(Marks)
      BY AppendedTyped
    <3>2. Carried(BriefOf(body), b \o ActiveSkills)
      <4>1. body \o sk # <<>>
        BY <2>2, <2>3
      <4> QED BY <2>2, <3>1, <4>1, MergeCarries
    <3> HIDE DEF b
    <3> QED BY <2>4, <3>2
  <2>6. ToSet(Brief(summary)) \subseteq ToSet(BriefOf(body))
    <3>1. ASSUME NEW l \in ToSet(Brief(summary)) PROVE l \in ToSet(BriefOf(body))
      <4>1. l.a = "line" /\ l \in ToSet(BriefOf(summary))
        BY <2>3, BriefLines
      <4>2. l \notin Marks
        BY <4>1 DEF Marks, SkillsIn
      <4>3. \A x \in ToSet(BriefOf(body \o sk)) : x \in Marks \/ x \in ToSet(BriefOf(body))
        BY <2>2, BriefOfMarked
      <4> QED BY <2>2, <4>1, <4>2, <4>3
    <3> QED BY <3>1
  <2> QED BY <2>5, <2>6 DEF Carried
<1> QED BY <1>1, <1>2

\* Between two vcc compactions no line of the brief disappears unsaid: merge.rs
\* keeps the brief before whole, or writes that lines were omitted, or the new
\* brief alone fills the limit. It needs that a summary is a text that ends in
\* no rule and the skills behind it, so that a rule the code splits at is one
\* it wrote, and that the skills stripped are no lines of the brief.
THEOREM BriefStaysCarried == Spec => BriefCarried
<1>1. Init => Inv /\ Noted /\ Kept
  <2>1. Init => Noted
    <3>1. <<>> \in Seq(Written)
      OBVIOUS
    <3> QED BY <3>1 DEF Init, Noted
  <2>2. Init => Kept
    <3>1. <<>> \in Seq(Fresh) /\ <<>> \in Seq(Marks) /\ <<>> \o <<>> = <<>> /\ Ended(<<>>)
      BY DEF Ended
    <3> QED BY <3>1 DEF Init, Kept
  <2> QED BY <2>1, <2>2, Starts
<1>2. Inv /\ Noted /\ Kept /\ [Next]_vars => (Inv /\ Noted /\ Kept)'
  BY StepKeeps, NotedKept, KeptKept
<1>3. Inv /\ Noted /\ Kept /\ [Next]_vars
        => [count' > count /\ Briefed(summary) /\ plan = 0 /\ summary'[1].a # "prose" =>
              \/ Len(BriefOf(summary')) >= BriefMax
              \/ Omitted("lines") \in ToSet(BriefOf(summary'))
              \/ ToSet(Brief(summary)) \subseteq ToSet(summary')]_vars
  <2> SUFFICES ASSUME Inv, Noted, Kept, [Next]_vars, count' > count,
                      Briefed(summary), plan = 0, summary'[1].a # "prose"
               PROVE  \/ Len(BriefOf(summary')) >= BriefMax
                      \/ Omitted("lines") \in ToSet(BriefOf(summary'))
                      \/ ToSet(Brief(summary)) \subseteq ToSet(summary')
    OBVIOUS
  <2> QED BY OnlyCompactionsCount, Carries
<1> QED BY <1>1, <1>2, <1>3, PTL DEF Spec, BriefCarried
===============================================================================
