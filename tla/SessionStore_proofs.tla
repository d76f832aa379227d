------------------------- MODULE SessionStore_proofs --------------------------
(***************************************************************************)
(* What the session store promises, for any number of sessions, entries    *)
(* and faulty writes.                                                      *)
(***************************************************************************)
EXTENDS SessionStore, Induction, FiniteSetTheorems

Line == Entry \cup {Bad}
File == [lines : Seq(Line), open : BOOLEAN, utf8 : BOOLEAN]

LEMMA LineFacts ==
  /\ Bad \notin Entry
  /\ Bad.kind = "bad"
  /\ \A s \in Sessions : Header(s) \in Entry /\ Header(s).id = s /\ Header(s).kind = "session"
                         /\ Header(s).kept = 0
  /\ \A e \in Entry : /\ e.kind \in {"session", "talk", "tool", "compaction", "custom"}
                      /\ e.id \in Sessions \cup Nat /\ e.kept \in Nat
  /\ \A s \in Sessions : s \notin Nat /\ s # 0
<1>1. /\ Bad \notin Entry /\ Bad.kind = "bad"
  BY DEF Bad, Entry
<1> QED BY <1>1, StoreAssumption DEF Entry, Header, Plain

-----------------------------------------------------------------------------
(* Parsed, Scan and Messages as walks over a sequence.                     *)

ParsedStep ==
  [p \in Seq(Entry) \X Line |-> IF p[2] = Bad THEN p[1] ELSE Append(p[1], p[2])]

\* Reading a file line by line: a line that does not parse adds nothing, any
\* other adds its entry.
LEMMA ParsedSteps ==
  /\ Parsed(<<>>) = <<>>
  /\ \A ls \in Seq(Line) : Parsed(ls) \in Seq(Entry)
  /\ \A ls \in Seq(Line) : Parsed(Append(ls, Bad)) = Parsed(ls)
  /\ \A ls \in Seq(Line) : \A e \in Entry : Parsed(Append(ls, e)) = Append(Parsed(ls), e)
<1> DEFINE E == Entry
<1>1. \A p \in Seq(E), e \in Line : e # Bad => Append(p, e) \in Seq(E)
  BY DEF Line
<1> HIDE DEF E
<1>2. ParsedStep \in Steps(Seq(Entry), Line)
  <2> SUFFICES ASSUME NEW p \in Seq(E), NEW e \in Line
               PROVE  (IF e = Bad THEN p ELSE Append(p, e)) \in Seq(E)
    BY DEF ParsedStep, Steps, E
  <2> QED BY <1>1
<1>3. <<>> \in Seq(Entry)
  OBVIOUS
<1>4. ASSUME NEW ls \in Seq(Line) PROVE Parsed(ls) = Walked(ParsedStep, <<>>, ls)
  <2> DEFINE F(g) == g = [n \in 0..Len(ls) |->
                            IF n = 0 THEN <<>>
                            ELSE IF ls[n] = Bad THEN g[n - 1] ELSE Append(g[n - 1], ls[n])]
             good == CHOOSE g : F(g)
  <2>0. Len(ls) \in Nat /\ \A n \in 1..Len(ls) : ls[n] \in Line
    OBVIOUS
  <2>1. Parsed(ls) = good[Len(ls)]
    BY DEF Parsed
  <2> PICK h : IsWalk(h, ParsedStep, <<>>, ls)
    BY <1>2, <1>3, WalkExists
  <2>2. \A n \in 0..Len(ls) : h[n] \in Seq(E)
    BY <1>2, <1>3, WalkStays DEF E
  <2>3. \A p \in Seq(E), e \in Line : ParsedStep[<<p, e>>] = IF e = Bad THEN p ELSE Append(p, e)
    BY DEF ParsedStep, E
  <2> DEFINE walk == [n \in 0..Len(ls) |-> h[n]]
  <2>4. F(walk)
    <3>1. walk[0] = <<>>
      BY <2>0 DEF IsWalk
    <3>2. ASSUME NEW n \in 1..Len(ls)
          PROVE  walk[n] = IF ls[n] = Bad THEN walk[n - 1] ELSE Append(walk[n - 1], ls[n])
      <4>1. n \in 0..Len(ls) /\ n - 1 \in 0..Len(ls)
        BY <2>0
      <4>2. h[n] = ParsedStep[<<h[n - 1], ls[n]>>]
        BY DEF IsWalk
      <4>3. h[n - 1] \in Seq(E) /\ ls[n] \in Line
        BY <2>0, <2>2, <4>1
      <4>4. h[n] = IF ls[n] = Bad THEN h[n - 1] ELSE Append(h[n - 1], ls[n])
        BY <2>3, <4>2, <4>3
      <4> QED BY <4>1, <4>4
    <3>3. walk = [n \in 0..Len(ls) |-> walk[n]]
      OBVIOUS
    <3> HIDE DEF walk
    <3>4. \A n \in 0..Len(ls) : walk[n] =
            IF n = 0 THEN <<>>
            ELSE IF ls[n] = Bad THEN walk[n - 1] ELSE Append(walk[n - 1], ls[n])
      BY <2>0, <3>1, <3>2
    <3> QED BY <3>3, <3>4
  <2> HIDE DEF walk
  <2>5. F(good)
    <3>1. \E g : F(g)
      BY <2>4
    <3> HIDE DEF F
    <3> QED BY <3>1, Zenon
  <2> HIDE DEF good
  <2>6. Obeys(good, Seq(Entry), ParsedStep, <<>>, ls, Len(ls))
    <3>1. good[0] = <<>>
      BY <2>0, <2>5
    <3>2. ASSUME NEW i \in 1..Len(ls), good[i - 1] \in Seq(E)
          PROVE  good[i] = ParsedStep[<<good[i - 1], ls[i]>>]
      <4>1. good[i] = IF ls[i] = Bad THEN good[i - 1] ELSE Append(good[i - 1], ls[i])
        <5>1. i \in 0..Len(ls) /\ i # 0
          BY <2>0
        <5> QED BY <2>5, <5>1
      <4> HIDE DEF F
      <4> QED BY <2>0, <2>3, <3>2, <4>1
    <3> QED BY <3>1, <3>2 DEF Obeys, E
  <2> HIDE DEF F
  <2>7. good[Len(ls)] = Walked(ParsedStep, <<>>, ls)
    <3> DEFINE S == Seq(Entry)
               start == <<>>
    <3>1. ParsedStep \in Steps(S, Line) /\ start \in S
      BY <1>2, <1>3
    <3>2. Obeys(good, S, ParsedStep, start, ls, Len(ls))
      BY <2>6
    <3> HIDE DEF S, start
    <3>3. good[Len(ls)] = Walked(ParsedStep, start, ls)
      BY <3>1, <3>2, WalkedIsEnd
    <3> QED BY <3>3 DEF start
  <2> QED BY <2>1, <2>7
<1>5. /\ Walked(ParsedStep, <<>>, <<>>) = <<>>
      /\ \A ls \in Seq(Line) : Walked(ParsedStep, <<>>, ls) \in Seq(Entry)
      /\ \A ls \in Seq(Line) : \A e \in Line :
           Walked(ParsedStep, <<>>, Append(ls, e)) = ParsedStep[<<Walked(ParsedStep, <<>>, ls), e>>]
  BY <1>2, <1>3, WalkedSteps
<1>6. /\ <<>> \in Seq(Line)
      /\ \A ls \in Seq(Line), e \in Line : Append(ls, e) \in Seq(Line)
      /\ Bad \in Line /\ \A e \in Entry : e \in Line /\ e # Bad
  BY LineFacts DEF Line
<1>7. \A ls \in Seq(Line) : Parsed(ls) \in Seq(Entry)
  BY <1>4, <1>5
<1>8. ASSUME NEW ls \in Seq(Line), NEW e \in Line
      PROVE  Parsed(Append(ls, e)) = IF e = Bad THEN Parsed(ls) ELSE Append(Parsed(ls), e)
  <2>1. Parsed(ls) \in Seq(E)
    BY <1>7 DEF E
  <2>2. Parsed(Append(ls, e)) = ParsedStep[<<Parsed(ls), e>>]
    BY <1>4, <1>5, <1>6
  <2> QED BY <2>1, <2>2 DEF ParsedStep, E
<1> QED BY <1>4, <1>5, <1>6, <1>7, <1>8

ScanStates == [out : Seq(Entry), skip : Nat]
ScanStep == [p \in ScanStates \X Entry |-> ContextStep(p[1], p[2])]

\* build_context_from_entries goes over the entries one by one.
LEMMA ScanWalk ==
  /\ ScanStep \in Steps(ScanStates, Entry)
  /\ \A m \in Seq(Entry) : Scan(m) = Walked(ScanStep, Nothing, m)
<1> DEFINE S == ScanStates
           X == Entry
           start == Nothing
<1>1. ScanStep \in Steps(S, X) /\ start \in S
  <2>1. Nothing \in ScanStates
    BY DEF Nothing, ScanStates
  <2>2. ASSUME NEW p \in ScanStates, NEW e \in Entry PROVE ContextStep(p, e) \in ScanStates
    <3>1. p.out \in Seq(Entry) /\ p.skip \in Nat /\ e.kept \in Nat
      BY LineFacts DEF ScanStates
    <3>2. Append(p.out, e) \in Seq(Entry)
      BY <3>1
    <3> QED BY <3>1, <3>2 DEF ContextStep, ScanStates
  <2> QED BY <2>1, <2>2 DEF ScanStep, Steps
<1>2. \A p \in S, e \in X : ScanStep[<<p, e>>] = ContextStep(p, e)
  BY DEF ScanStep
<1> SUFFICES ASSUME NEW m \in Seq(X) PROVE Scan(m) = Walked(ScanStep, start, m)
  BY <1>1
<1> DEFINE F(g) == g = [n \in 0..Len(m) |-> IF n = 0 THEN Nothing ELSE ContextStep(g[n - 1], m[n])]
           scan == CHOOSE g : F(g)
<1>3. Scan(m) = scan[Len(m)]
  BY DEF Scan
<1>4. Len(m) \in Nat /\ \A n \in 1..Len(m) : m[n] \in X
  <2> HIDE DEF X
  <2> QED OBVIOUS
<1> HIDE DEF S, X
<1> PICK h : IsWalk(h, ScanStep, start, m)
  BY <1>1, WalkExists
<1>5. \A n \in 0..Len(m) : h[n] \in S
  BY <1>1, WalkStays
<1> DEFINE walk == [n \in 0..Len(m) |-> h[n]]
<1>6. F(walk)
  <2>1. walk[0] = start
    BY <1>4 DEF IsWalk
  <2>2. ASSUME NEW n \in 1..Len(m) PROVE walk[n] = ContextStep(walk[n - 1], m[n])
    <3>1. n \in 0..Len(m) /\ n - 1 \in 0..Len(m)
      BY <1>4
    <3>2. h[n] = ScanStep[<<h[n - 1], m[n]>>]
      BY DEF IsWalk
    <3>3. h[n - 1] \in S /\ m[n] \in X
      BY <1>4, <1>5, <3>1
    <3>4. h[n] = ContextStep(h[n - 1], m[n])
      BY <1>2, <3>2, <3>3
    <3> QED BY <3>1, <3>4
  <2>3. walk = [n \in 0..Len(m) |-> walk[n]]
    OBVIOUS
  <2> HIDE DEF walk
  <2>4. \A n \in 0..Len(m) : walk[n] = IF n = 0 THEN Nothing ELSE ContextStep(walk[n - 1], m[n])
    BY <1>4, <2>1, <2>2
  <2> QED BY <2>3, <2>4
<1> HIDE DEF walk
<1>7. F(scan)
  <2>1. \E g : F(g)
    BY <1>6
  <2> HIDE DEF F
  <2> QED BY <2>1, Zenon
<1> HIDE DEF scan
<1>8. Obeys(scan, S, ScanStep, start, m, Len(m))
  <2>1. scan[0] = start
    BY <1>4, <1>7
  <2>2. ASSUME NEW i \in 1..Len(m), scan[i - 1] \in S
        PROVE  scan[i] = ScanStep[<<scan[i - 1], m[i]>>]
    <3>1. scan[i] = ContextStep(scan[i - 1], m[i])
      <4>1. i \in 0..Len(m) /\ i # 0
        BY <1>4
      <4> QED BY <1>7, <4>1
    <3> HIDE DEF F
    <3> QED BY <1>2, <1>4, <2>2, <3>1
  <2> HIDE DEF F
  <2> QED BY <2>1, <2>2 DEF Obeys
<1> HIDE DEF F, start
<1>9. scan[Len(m)] = Walked(ScanStep, start, m)
  BY <1>1, <1>8, WalkedIsEnd
<1> QED BY <1>3, <1>9

TalkStep ==
  [p \in Seq(Entry) \X Entry |-> IF IsMessage(p[2]) THEN Append(p[1], p[2]) ELSE p[1]]

\* The messages among the entries, found one by one.
LEMMA MessagesWalk ==
  /\ TalkStep \in Steps(Seq(Entry), Entry)
  /\ \A m \in Seq(Entry) : Messages(m) = Walked(TalkStep, <<>>, m)
<1> DEFINE S == Seq(Entry)
           X == Entry
           start == <<>>
<1>1. TalkStep \in Steps(S, X) /\ start \in S
  <2> HIDE DEF X
  <2>1. \A p \in Seq(X), e \in X : (IF IsMessage(e) THEN Append(p, e) ELSE p) \in Seq(X)
    OBVIOUS
  <2> QED BY <2>1 DEF TalkStep, Steps, X
<1>2. \A p \in S, e \in X : TalkStep[<<p, e>>] = IF IsMessage(e) THEN Append(p, e) ELSE p
  BY DEF TalkStep
<1> SUFFICES ASSUME NEW m \in Seq(X) PROVE Messages(m) = Walked(TalkStep, start, m)
  BY <1>1
<1> DEFINE F(g) == g = [n \in 0..Len(m) |->
                          IF n = 0 THEN <<>>
                          ELSE IF IsMessage(m[n]) THEN Append(g[n - 1], m[n]) ELSE g[n - 1]]
           talk == CHOOSE g : F(g)
<1>3. Messages(m) = talk[Len(m)]
  BY DEF Messages
<1>4. Len(m) \in Nat /\ \A n \in 1..Len(m) : m[n] \in X
  <2> HIDE DEF X
  <2> QED OBVIOUS
<1> HIDE DEF S, X
<1> PICK h : IsWalk(h, TalkStep, start, m)
  BY <1>1, WalkExists
<1>5. \A n \in 0..Len(m) : h[n] \in S
  BY <1>1, WalkStays
<1> DEFINE walk == [n \in 0..Len(m) |-> h[n]]
<1>6. F(walk)
  <2>1. walk[0] = start
    BY <1>4 DEF IsWalk
  <2>2. ASSUME NEW n \in 1..Len(m)
        PROVE  walk[n] = IF IsMessage(m[n]) THEN Append(walk[n - 1], m[n]) ELSE walk[n - 1]
    <3>1. n \in 0..Len(m) /\ n - 1 \in 0..Len(m)
      BY <1>4
    <3>2. h[n] = TalkStep[<<h[n - 1], m[n]>>]
      BY DEF IsWalk
    <3>3. h[n - 1] \in S /\ m[n] \in X
      BY <1>4, <1>5, <3>1
    <3>4. h[n] = IF IsMessage(m[n]) THEN Append(h[n - 1], m[n]) ELSE h[n - 1]
      BY <1>2, <3>2, <3>3
    <3> QED BY <3>1, <3>4
  <2>3. walk = [n \in 0..Len(m) |-> walk[n]]
    OBVIOUS
  <2> HIDE DEF walk
  <2>4. \A n \in 0..Len(m) : walk[n] =
          IF n = 0 THEN <<>> ELSE IF IsMessage(m[n]) THEN Append(walk[n - 1], m[n]) ELSE walk[n - 1]
    BY <1>4, <2>1, <2>2
  <2> QED BY <2>3, <2>4
<1> HIDE DEF walk
<1>7. F(talk)
  <2>1. \E g : F(g)
    BY <1>6
  <2> HIDE DEF F
  <2> QED BY <2>1, Zenon
<1> HIDE DEF talk
<1>8. Obeys(talk, S, TalkStep, start, m, Len(m))
  <2>1. talk[0] = start
    BY <1>4, <1>7
  <2>2. ASSUME NEW i \in 1..Len(m), talk[i - 1] \in S
        PROVE  talk[i] = TalkStep[<<talk[i - 1], m[i]>>]
    <3>1. talk[i] = IF IsMessage(m[i]) THEN Append(talk[i - 1], m[i]) ELSE talk[i - 1]
      <4>1. i \in 0..Len(m) /\ i # 0
        BY <1>4
      <4> QED BY <1>7, <4>1
    <3> HIDE DEF F
    <3> QED BY <1>2, <1>4, <2>2, <3>1
  <2> HIDE DEF F
  <2> QED BY <2>1, <2>2 DEF Obeys
<1> HIDE DEF F, start
<1>9. talk[Len(m)] = Walked(TalkStep, start, m)
  BY <1>1, <1>8, WalkedIsEnd
<1> QED BY <1>3, <1>9
LEMMA ScanSteps ==
  /\ Scan(<<>>) = Nothing
  /\ \A m \in Seq(Entry) : Scan(m) \in ScanStates
  /\ \A m \in Seq(Entry) : \A e \in Entry : Scan(Append(m, e)) = ContextStep(Scan(m), e)
<1>1. Nothing \in ScanStates
  BY DEF Nothing, ScanStates
<1>2. /\ Walked(ScanStep, Nothing, <<>>) = Nothing
      /\ \A m \in Seq(Entry) : Walked(ScanStep, Nothing, m) \in ScanStates
      /\ \A m \in Seq(Entry) : \A e \in Entry :
           Walked(ScanStep, Nothing, Append(m, e)) = ScanStep[<<Walked(ScanStep, Nothing, m), e>>]
  BY <1>1, ScanWalk, WalkedSteps
<1>3. \A m \in Seq(Entry) : Scan(m) = Walked(ScanStep, Nothing, m)
  BY ScanWalk
<1>4. /\ <<>> \in Seq(Entry)
      /\ \A m \in Seq(Entry) : \A e \in Entry : Append(m, e) \in Seq(Entry)
  <2> DEFINE X == Entry
  <2>1. <<>> \in Seq(X) /\ \A m \in Seq(X) : \A e \in X : Append(m, e) \in Seq(X)
    <3> HIDE DEF X
    <3> QED OBVIOUS
  <2> QED BY <2>1
<1>5. \A s \in ScanStates, e \in Entry : ScanStep[<<s, e>>] = ContextStep(s, e)
  BY DEF ScanStep
<1>6. Scan(<<>>) = Nothing
  BY <1>2, <1>3, <1>4
<1>7. ASSUME NEW m \in Seq(Entry) PROVE Scan(m) \in ScanStates
  BY <1>2, <1>3
<1>8. ASSUME NEW m \in Seq(Entry), NEW e \in Entry
      PROVE  Scan(Append(m, e)) = ContextStep(Scan(m), e)
  <2>1. Append(m, e) \in Seq(Entry)
    BY <1>4
  <2>2. Scan(Append(m, e)) = ScanStep[<<Scan(m), e>>]
    BY <1>2, <1>3, <2>1
  <2> QED BY <1>5, <1>7, <2>2
<1> QED BY <1>6, <1>7, <1>8

LEMMA MessagesSteps ==
  /\ Messages(<<>>) = <<>>
  /\ \A m \in Seq(Entry) : Messages(m) \in Seq(Entry)
  /\ \A m \in Seq(Entry) : \A e \in Entry :
       Messages(Append(m, e)) = IF IsMessage(e) THEN Append(Messages(m), e) ELSE Messages(m)
<1> DEFINE X == Entry
           S == Seq(Entry)
           none == <<>>
<1>1. none \in S /\ none \in Seq(X) /\ \A m \in Seq(X) : \A e \in X : Append(m, e) \in Seq(X)
  <2>1. none \in Seq(X) /\ \A m \in Seq(X) : \A e \in X : Append(m, e) \in Seq(X)
    <3> HIDE DEF X
    <3> QED OBVIOUS
  <2> QED BY <2>1
<1>2. TalkStep \in Steps(S, X) /\ \A m \in Seq(X) : Messages(m) = Walked(TalkStep, none, m)
  BY MessagesWalk
<1>3. \A p \in S, e \in X : TalkStep[<<p, e>>] = IF IsMessage(e) THEN Append(p, e) ELSE p
  BY DEF TalkStep
<1>7. S = Seq(X)
  OBVIOUS
<1>8. X = Entry
  OBVIOUS
<1> HIDE DEF S, X
<1>4. Walked(TalkStep, none, <<>>) = none /\ \A m \in Seq(X) : Walked(TalkStep, none, m) \in S
  <2> HIDE DEF none
  <2> QED BY <1>1, <1>2, WalkedSteps
<1>5. \A m \in Seq(X) : \A e \in X :
        Walked(TalkStep, none, Append(m, e)) = TalkStep[<<Walked(TalkStep, none, m), e>>]
  <2> HIDE DEF none
  <2> QED BY <1>1, <1>2, WalkedSteps
<1>6. /\ Messages(none) = none
      /\ \A m \in Seq(X) : Messages(m) \in S
      /\ \A m \in Seq(X) : \A e \in X :
           Messages(Append(m, e)) = IF IsMessage(e) THEN Append(Messages(m), e) ELSE Messages(m)
  <2>1. Messages(none) = none
    BY <1>1, <1>2, <1>4
  <2>2. \A m \in Seq(X) : Messages(m) \in S
    BY <1>2, <1>4
  <2>3. ASSUME NEW m \in Seq(X), NEW e \in X
        PROVE Messages(Append(m, e)) = IF IsMessage(e) THEN Append(Messages(m), e) ELSE Messages(m)
    <3>1. Messages(Append(m, e)) = TalkStep[<<Messages(m), e>>]
      BY <1>1, <1>2, <1>5
    <3> QED BY <1>3, <2>2, <3>1
  <2> QED BY <2>1, <2>2, <2>3
<1> QED BY <1>6, <1>7, <1>8

\* Sequences of entries, as facts that do not look into an entry.
LEMMA EntrySeqs ==
  /\ <<>> \in Seq(Entry)
  /\ \A m \in Seq(Entry) : Len(m) \in Nat /\ DOMAIN m = 1..Len(m) /\ \A i \in 1..Len(m) : m[i] \in Entry
  /\ \A m \in Seq(Entry) : \A e \in Entry :
       /\ Append(m, e) \in Seq(Entry) /\ Len(Append(m, e)) = Len(m) + 1
       /\ Append(m, e)[Len(m) + 1] = e
       /\ \A i \in 1..Len(m) : Append(m, e)[i] = m[i]
  /\ \A a, b \in Seq(Entry) : a \o b \in Seq(Entry)
  /\ \A e \in Entry : <<e>> \in Seq(Entry) /\ <<e>> = Append(<<>>, e)
<1> DEFINE X == Entry
<1> HIDE DEF X
<1>1. /\ <<>> \in Seq(X)
      /\ \A m \in Seq(X) : Len(m) \in Nat /\ DOMAIN m = 1..Len(m) /\ \A i \in 1..Len(m) : m[i] \in X
      /\ \A m \in Seq(X) : \A e \in X :
           /\ Append(m, e) \in Seq(X) /\ Len(Append(m, e)) = Len(m) + 1
           /\ Append(m, e)[Len(m) + 1] = e
           /\ \A i \in 1..Len(m) : Append(m, e)[i] = m[i]
      /\ \A e \in X : <<e>> \in Seq(X) /\ <<e>> = Append(<<>>, e)
  OBVIOUS
<1>2. \A a, b \in Seq(X) : a \o b \in Seq(X)
  OBVIOUS
<1> QED BY <1>1, <1>2 DEF X

LEMMA MessagesConcat ==
  ASSUME NEW a \in Seq(Entry)
  PROVE  \A b \in Seq(Entry) : Messages(a \o b) = Messages(a) \o Messages(b)
<1> DEFINE X == Entry
           T == {b \in Seq(X) : Messages(a \o b) = Messages(a) \o Messages(b)}
<1>0. a \in Seq(X) /\ \A m \in Seq(X) : Messages(m) \in Seq(X)
  BY MessagesSteps
<1>1. \A m \in Seq(X) : \A e \in X :
        Messages(Append(m, e)) = IF IsMessage(e) THEN Append(Messages(m), e) ELSE Messages(m)
  BY MessagesSteps
<1>8. X = Entry
  OBVIOUS
<1> HIDE DEF X
<1>2. <<>> \in T
  <2>1. a \o <<>> = a /\ Messages(a) \o <<>> = Messages(a) /\ <<>> \in Seq(X)
    BY <1>0, ConcatEmptySeq
  <2> QED BY <2>1, MessagesSteps
<1>3. ASSUME NEW b \in T, NEW e \in X PROVE Append(b, e) \in T
  <2>1. b \in Seq(X) /\ Append(b, e) \in Seq(X) /\ Messages(a \o b) = Messages(a) \o Messages(b)
    OBVIOUS
  <2>2. a \o Append(b, e) = Append(a \o b, e) /\ a \o b \in Seq(X)
    BY <1>0, <2>1
  <2>3. Messages(a \o Append(b, e)) =
          IF IsMessage(e) THEN Append(Messages(a \o b), e) ELSE Messages(a \o b)
    BY <1>1, <2>2
  <2>4. Messages(Append(b, e)) = IF IsMessage(e) THEN Append(Messages(b), e) ELSE Messages(b)
    BY <1>1, <2>1
  <2>5. Messages(a) \o Append(Messages(b), e) = Append(Messages(a) \o Messages(b), e)
    BY <1>0, <2>1
  <2>6. Messages(a \o Append(b, e)) = Messages(a) \o Messages(Append(b, e))
    BY <2>1, <2>3, <2>4, <2>5
  <2> QED BY <2>1, <2>6
<1> HIDE DEF T
<1>4. T \in SUBSET Seq(X)
  BY DEF T
<1>5. T = Seq(X)
  BY <1>2, <1>3, <1>4, SeqInduction
<1> QED BY <1>5, <1>8 DEF T

LEMMA MessagesOne ==
  ASSUME NEW e \in Entry
  PROVE  Messages(<<e>>) = IF IsMessage(e) THEN <<e>> ELSE <<>>
BY EntrySeqs, MessagesSteps

NoCompaction(m) == \A i \in 1..Len(m) : m[i].kind # "compaction"

\* Past the last compaction the context takes every message and nothing else.
LEMMA ScanTail ==
  ASSUME NEW p \in Seq(Entry), Scan(p).skip = 0
  PROVE  \A s \in Seq(Entry) : NoCompaction(s) =>
           Scan(p \o s).out = Scan(p).out \o Messages(s) /\ Scan(p \o s).skip = 0
<1> DEFINE X == Entry
           Good(s) == Scan(p \o s).out = Scan(p).out \o Messages(s) /\ Scan(p \o s).skip = 0
           T == {s \in Seq(X) : NoCompaction(s) => Good(s)}
<1>0. /\ p \in Seq(X) /\ \A m \in Seq(X) : Messages(m) \in Seq(X) /\ Scan(m).out \in Seq(X)
      /\ \A m \in Seq(X) : Scan(m) \in ScanStates
  BY MessagesSteps, ScanSteps DEF ScanStates
<1>1. \A m \in Seq(X) : \A e \in X :
        /\ Messages(Append(m, e)) = IF IsMessage(e) THEN Append(Messages(m), e) ELSE Messages(m)
        /\ Scan(Append(m, e)) = ContextStep(Scan(m), e)
  BY MessagesSteps, ScanSteps
<1>2. \A s \in ScanStates, e \in X : s.skip = 0 /\ e.kind # "compaction" =>
        /\ ContextStep(s, e).out = IF IsMessage(e) THEN Append(s.out, e) ELSE s.out
        /\ ContextStep(s, e).skip = 0
  BY DEF ContextStep, ScanStates, IsMessage
<1>8. X = Entry
  OBVIOUS
<1> HIDE DEF X
<1>9. \A a, b \in Seq(X) : \A e \in X : a \o Append(b, e) = Append(a \o b, e)
  OBVIOUS
<1>3. <<>> \in T
  <2>1. p \o <<>> = p /\ Scan(p).out \o <<>> = Scan(p).out /\ <<>> \in Seq(X)
    BY <1>0, ConcatEmptySeq
  <2> QED BY <2>1, MessagesSteps
<1>4. ASSUME NEW s \in T, NEW e \in X PROVE Append(s, e) \in T
  <2>1. s \in Seq(X) /\ Append(s, e) \in Seq(X) /\ p \o s \in Seq(X)
    BY <1>0
  <2> SUFFICES ASSUME NoCompaction(Append(s, e)) PROVE Good(Append(s, e))
    BY <2>1
  <2>2. NoCompaction(s) /\ e.kind # "compaction"
    <3>1. /\ Len(Append(s, e)) = Len(s) + 1 /\ Len(s) \in Nat
          /\ \A i \in 1..Len(s) : Append(s, e)[i] = s[i]
          /\ Append(s, e)[Len(s) + 1] = e
      BY <2>1
    <3> QED BY <3>1 DEF NoCompaction
  <2>3. Good(s)
    BY <2>2
  <2>4. p \o Append(s, e) = Append(p \o s, e)
    BY <1>0, <1>9, <2>1
  <2>5. Scan(p \o Append(s, e)) = ContextStep(Scan(p \o s), e)
    BY <1>1, <2>1, <2>4
  <2>6. /\ Scan(p \o Append(s, e)).out =
            IF IsMessage(e) THEN Append(Scan(p \o s).out, e) ELSE Scan(p \o s).out
        /\ Scan(p \o Append(s, e)).skip = 0
    <3> DEFINE a == Scan(p \o s)
               b == Scan(p \o Append(s, e))
    <3>1. a \in ScanStates /\ a.skip = 0 /\ e.kind # "compaction" /\ b = ContextStep(a, e)
      BY <1>0, <2>1, <2>2, <2>3, <2>5
    <3> HIDE DEF a, b
    <3>2. b.out = (IF IsMessage(e) THEN Append(a.out, e) ELSE a.out) /\ b.skip = 0
      BY <1>2, <3>1
    <3> QED BY <3>2 DEF a, b
  <2>7. Scan(p).out \o Append(Messages(s), e) = Append(Scan(p).out \o Messages(s), e)
    <3>1. Scan(p).out \in Seq(X) /\ Messages(s) \in Seq(X)
      BY <1>0, <2>1
    <3> QED BY <1>9, <3>1, Zenon
  <2>8. Messages(Append(s, e)) = IF IsMessage(e) THEN Append(Messages(s), e) ELSE Messages(s)
    BY <1>1, <2>1
  <2> QED BY <2>3, <2>6, <2>7, <2>8
<1> HIDE DEF T
<1>5. T \in SUBSET Seq(X)
  BY DEF T
<1>6. T = Seq(X)
  BY <1>3, <1>4, <1>5, SeqInduction
<1> QED BY <1>6, <1>8 DEF T

-----------------------------------------------------------------------------
(* Sequences in two parts.                                                 *)

LEMMA Parts ==
  ASSUME NEW X, NEW m \in Seq(X), NEW k \in 0..Len(m)
  PROVE  /\ SubSeq(m, 1, k) \in Seq(X) /\ SubSeq(m, k + 1, Len(m)) \in Seq(X)
         /\ Len(SubSeq(m, 1, k)) = k /\ Len(SubSeq(m, k + 1, Len(m))) = Len(m) - k
         /\ \A i \in 1..k : SubSeq(m, 1, k)[i] = m[i]
         /\ \A i \in 1..(Len(m) - k) : SubSeq(m, k + 1, Len(m))[i] = m[k + i]
         /\ m = SubSeq(m, 1, k) \o SubSeq(m, k + 1, Len(m))
<1>1. Len(m) \in Nat /\ k \in Int /\ k + 1 \in Int /\ Len(m) \in Int /\ 1 \in Int
  OBVIOUS
<1>2. (\A i \in 1..k : m[i] \in X) /\ (\A i \in (k + 1)..Len(m) : m[i] \in X)
  OBVIOUS
<1>3. /\ SubSeq(m, 1, k) \in Seq(X)
      /\ Len(SubSeq(m, 1, k)) = IF 1 <= k THEN k - 1 + 1 ELSE 0
      /\ \A i \in 1..(k - 1 + 1) : SubSeq(m, 1, k)[i] = m[1 + i - 1]
  BY <1>1, <1>2, SubSeqProperties
<1>4. /\ SubSeq(m, k + 1, Len(m)) \in Seq(X)
      /\ Len(SubSeq(m, k + 1, Len(m))) = IF k + 1 <= Len(m) THEN Len(m) - (k + 1) + 1 ELSE 0
      /\ \A i \in 1..(Len(m) - (k + 1) + 1) : SubSeq(m, k + 1, Len(m))[i] = m[(k + 1) + i - 1]
  BY <1>1, <1>2, SubSeqProperties
<1>5. SubSeq(m, 1, k) \o SubSeq(m, k + 1, Len(m)) = SubSeq(m, 1, Len(m))
  <2>1. 1 \in 1..(Len(m) + 1) /\ k \in (1 - 1)..Len(m) /\ Len(m) \in k..Len(m)
    BY <1>1
  <2> QED BY <2>1, ConcatAdjacentSubSeq
<1>6. SubSeq(m, 1, Len(m)) = m
  BY SubSeqFull
<1>7. Len(SubSeq(m, 1, k)) = k /\ Len(SubSeq(m, k + 1, Len(m))) = Len(m) - k
  BY <1>1, <1>3, <1>4
<1>8. \A i \in 1..k : SubSeq(m, 1, k)[i] = m[i]
  <2> TAKE i \in 1..k
  <2>1. i \in 1..(k - 1 + 1) /\ 1 + i - 1 = i
    BY <1>1
  <2> QED BY <1>3, <2>1
<1>9. \A i \in 1..(Len(m) - k) : SubSeq(m, k + 1, Len(m))[i] = m[k + i]
  <2> TAKE i \in 1..(Len(m) - k)
  <2>1. i \in 1..(Len(m) - (k + 1) + 1) /\ (k + 1) + i - 1 = k + i
    BY <1>1
  <2> QED BY <1>4, <2>1
<1> QED BY <1>3, <1>4, <1>5, <1>6, <1>7, <1>8, <1>9

LEMMA FirstParts ==
  ASSUME NEW X, NEW m \in Seq(X), NEW k \in 1..Len(m)
  PROVE  SubSeq(m, 1, 0) = <<>> /\ SubSeq(m, 1, k) = Append(SubSeq(m, 1, k - 1), m[k])
<1>0. Len(m) \in Nat /\ k \in 0..Len(m) /\ k - 1 \in 0..Len(m) /\ m[k] \in X
  OBVIOUS
<1> DEFINE a == SubSeq(m, 1, k)
           b == SubSeq(m, 1, k - 1)
<1>1. a \in Seq(X) /\ Len(a) = k /\ \A i \in 1..k : a[i] = m[i]
  BY <1>0, Parts
<1>2. b \in Seq(X) /\ Len(b) = k - 1 /\ \A i \in 1..(k - 1) : b[i] = m[i]
  BY <1>0, Parts
<1> HIDE DEF a, b
<1>3. /\ Append(b, m[k]) \in Seq(X) /\ Len(Append(b, m[k])) = Len(b) + 1
      /\ \A i \in 1..Len(b) : Append(b, m[k])[i] = b[i]
      /\ Append(b, m[k])[Len(b) + 1] = m[k]
  BY <1>0, <1>2
<1>4. \A i \in 1..Len(a) : a[i] = Append(b, m[k])[i]
  <2> TAKE i \in 1..Len(a)
  <2>1. CASE i = k
    BY <1>0, <1>1, <1>2, <1>3, <2>1
  <2>2. CASE i \in 1..(k - 1)
    BY <1>0, <1>1, <1>2, <1>3, <2>2
  <2>3. i = k \/ i \in 1..(k - 1)
    BY <1>0, <1>1
  <2> QED BY <2>1, <2>2, <2>3
<1>5. Len(a) = Len(Append(b, m[k]))
  BY <1>0, <1>1, <1>2, <1>3
<1>6. a = Append(b, m[k])
  BY <1>1, <1>3, <1>4, <1>5, SeqEqual
<1>7. SubSeq(m, 1, 0) = <<>>
  BY SubSeqEmpty
<1> QED BY <1>6, <1>7 DEF a, b

LEMMA SuffixOfConcat ==
  ASSUME NEW X, NEW a \in Seq(X), NEW b \in Seq(X)
  PROVE  IsSuffix(b, a \o b)
<1> DEFINE c == a \o b
           n == Len(b)
           rb == Reverse(b)
           rc == Reverse(c)
<1>1. /\ c \in Seq(X) /\ Len(c) = Len(a) + n /\ Len(a) \in Nat /\ n \in Nat
      /\ \A i \in 1..n : c[Len(a) + i] = b[i]
  OBVIOUS
<1> HIDE DEF c, n
<1>2. rb \in Seq(X) /\ Len(rb) = n /\ \A i \in 1..n : rb[i] = b[(n - i) + 1]
  <2>1. rb = [i \in 1..n |-> b[(n - i) + 1]]
    BY DEF Reverse, n
  <2>2. \A i \in 1..n : b[(n - i) + 1] \in X
    BY <1>1 DEF n
  <2> QED BY <1>1, <2>1, <2>2
<1>3. rc \in Seq(X) /\ Len(rc) = Len(c) /\ \A i \in 1..Len(c) : rc[i] = c[(Len(c) - i) + 1]
  <2>1. rc = [i \in 1..Len(c) |-> c[(Len(c) - i) + 1]]
    BY DEF Reverse
  <2>2. \A i \in 1..Len(c) : c[(Len(c) - i) + 1] \in X
    BY <1>1
  <2> HIDE DEF rc
  <2>3. Len(c) \in Nat
    BY <1>1
  <2>4. rc \in Seq(X) /\ Len(rc) = Len(c)
    BY <2>1, <2>2, <2>3
  <2> QED BY <2>1, <2>4
<1> HIDE DEF rb, rc
<1>4. \A i \in 1..n : rb[i] = rc[i]
  <2> TAKE i \in 1..n
  <2>1. (n - i) + 1 \in 1..n /\ (Len(c) - i) + 1 = Len(a) + ((n - i) + 1) /\ i \in 1..Len(c)
    BY <1>1
  <2>2. c[Len(a) + ((n - i) + 1)] = b[(n - i) + 1]
    BY <1>1, <2>1
  <2> QED BY <1>2, <1>3, <2>1, <2>2
<1>5. n \in 0..Len(rb) /\ n \in 0..Len(rc)
  BY <1>1, <1>2, <1>3
<1> DEFINE p == SubSeq(rb, 1, n)
           q == SubSeq(rc, 1, n)
<1>6. p \in Seq(X) /\ Len(p) = n /\ \A i \in 1..n : p[i] = rb[i]
  BY <1>2, <1>5, Parts
<1>7. q \in Seq(X) /\ Len(q) = n /\ \A i \in 1..n : q[i] = rc[i]
  BY <1>3, <1>5, Parts
<1> HIDE DEF p, q
<1>8. p = q
  BY <1>4, <1>6, <1>7, SeqEqual
<1>9. IsPrefix(rb, rc)
  BY <1>1, <1>2, <1>3, <1>8 DEF IsPrefix, p, q
<1> QED BY <1>9 DEF IsSuffix, rb, rc, c

-----------------------------------------------------------------------------
(* What a session that loads, or is in memory, looks like.                 *)

\* A summary is the second entry, and what it keeps starts right after it;
\* only the first entry is named by a session.
Wellformed(m) ==
  /\ \A i \in 1..Len(m) : m[i].kind = "compaction" =>
       i = 2 /\ (m[2].kept # 0 => Len(m) >= 3 /\ m[3].id = m[2].kept)
  /\ \A i \in 2..Len(m) : m[i].id \in Nat

HasSummary(m) == Len(m) >= 2 /\ m[2].kind = "compaction"
Opening(m) == IF HasSummary(m) THEN <<m[2]>> ELSE <<>>

LEMMA ContextAfter ==
  ASSUME NEW p \in Seq(Entry), NEW s \in Seq(Entry), NEW o \in Seq(Entry),
         Scan(p).skip = 0, Scan(p).out = o \o Messages(p), NoCompaction(s)
  PROVE  Context(p \o s) = o \o Messages(p \o s)
<1>1. Scan(p \o s).out = Scan(p).out \o Messages(s)
  BY ScanTail
<1>2. Messages(p \o s) = Messages(p) \o Messages(s)
  BY MessagesConcat
<1>3. Messages(p) \in Seq(Entry) /\ Messages(s) \in Seq(Entry)
  BY MessagesSteps
<1>4. (o \o Messages(p)) \o Messages(s) = o \o (Messages(p) \o Messages(s))
  <2> DEFINE X == Entry
             a == Messages(p)
             b == Messages(s)
  <2>1. o \in Seq(X) /\ a \in Seq(X) /\ b \in Seq(X)
    BY <1>3
  <2> HIDE DEF X, a, b
  <2>2. (o \o a) \o b = o \o (a \o b)
    BY <2>1, ConcatAssociative
  <2> QED BY <2>2 DEF a, b
<1>5. Context(p \o s) = (o \o Messages(p)) \o Messages(s)
  BY <1>1 DEF Context
<1> QED BY <1>2, <1>4, <1>5

LEMMA SummaryFirst ==
  ASSUME NEW a \in Entry, NEW c \in Entry, a.kind # "compaction", ~IsMessage(a),
         c.kind = "compaction"
  PROVE  LET p == Append(Append(<<>>, a), c)
         IN /\ p \in Seq(Entry) /\ Messages(p) = <<>>
            /\ Scan(p).out = <<c>> /\ Scan(p).skip = c.kept
<1> DEFINE q == Append(<<>>, a)
           p == Append(q, c)
<1>1. q \in Seq(Entry) /\ p \in Seq(Entry) /\ <<>> \in Seq(Entry)
  BY EntrySeqs
<1>2. ~IsMessage(c)
  BY DEF IsMessage
<1>3. Messages(p) = <<>>
  <2>1. Messages(q) = <<>>
    BY <1>1, MessagesSteps
  <2> HIDE DEF q
  <2> QED BY <1>1, <1>2, <2>1, MessagesSteps
<1>4. Nothing.out = <<>> /\ Nothing.skip = 0
  BY DEF Nothing
<1>5. Scan(q).out = <<>> /\ Scan(q).skip = 0
  <2>1. Scan(q) = ContextStep(Nothing, a)
    BY <1>1, ScanSteps
  <2>2. ContextStep(Nothing, a) = [Nothing EXCEPT !.skip = 0]
    BY <1>4 DEF ContextStep
  <2>3. [Nothing EXCEPT !.skip = 0].out = <<>> /\ [Nothing EXCEPT !.skip = 0].skip = 0
    BY DEF Nothing
  <2> QED BY <2>1, <2>2, <2>3
<1> HIDE DEF q
<1>6. Scan(p) = ContextStep(Scan(q), c)
  BY <1>1, ScanSteps
<1>7. ContextStep(Scan(q), c) = [out |-> Append(<<>>, c), skip |-> c.kept]
  <2>1. ContextStep(Scan(q), c) = [out |-> Append(Scan(q).out, c), skip |-> c.kept]
    BY <1>2, <1>5 DEF ContextStep
  <2> QED BY <1>5, <2>1
<1> QED BY <1>1, <1>3, <1>6, <1>7 DEF q

LEMMA SummaryResumes ==
  ASSUME NEW p \in Seq(Entry), NEW c \in Entry, NEW d \in Entry, Scan(p).out = <<c>>,
         Messages(p) = <<>>, Scan(p).skip = d.id, d.kind # "compaction"
  PROVE  LET q == Append(p, d)
         IN q \in Seq(Entry) /\ Scan(q).skip = 0 /\ Scan(q).out = <<c>> \o Messages(q)
<1> DEFINE q == Append(p, d)
<1>1. q \in Seq(Entry) /\ Scan(q) = ContextStep(Scan(p), d) /\ Scan(p) \in ScanStates
      /\ Messages(q) = IF IsMessage(d) THEN Append(<<>>, d) ELSE <<>>
  <2>1. <<>> \in Seq(Entry) /\ q \in Seq(Entry)
    BY EntrySeqs
  <2>2. Scan(q) = ContextStep(Scan(p), d) /\ Scan(p) \in ScanStates
    BY ScanSteps
  <2>3. Messages(q) = IF IsMessage(d) THEN Append(Messages(p), d) ELSE Messages(p)
    BY MessagesSteps
  <2> QED BY <2>1, <2>2, <2>3
<1>2. Scan(q).skip = 0 /\ Scan(q).out = IF IsMessage(d) THEN Append(<<c>>, d) ELSE <<c>>
  BY <1>1 DEF ContextStep, ScanStates
<1>3. Append(<<c>>, d) = <<c>> \o Append(<<>>, d) /\ <<c>> \o <<>> = <<c>>
  <2> DEFINE X == Entry
  <2>1. c \in X /\ d \in X
    OBVIOUS
  <2> HIDE DEF X
  <2> QED BY <2>1
<1> HIDE DEF q
<1> QED BY <1>1, <1>2, <1>3 DEF q

LEMMA Entries ==
  ASSUME NEW m \in Seq(Entry), NEW k \in 0..Len(m), \A i \in (k + 1)..Len(m) : m[i].kind # "compaction"
  PROVE  /\ SubSeq(m, 1, k) \in Seq(Entry) /\ SubSeq(m, k + 1, Len(m)) \in Seq(Entry)
         /\ m = SubSeq(m, 1, k) \o SubSeq(m, k + 1, Len(m))
         /\ NoCompaction(SubSeq(m, k + 1, Len(m)))
<1> DEFINE X == Entry
           b == SubSeq(m, k + 1, Len(m))
<1>1. m \in Seq(X)
  OBVIOUS
<1> HIDE DEF X
<1>2. /\ SubSeq(m, 1, k) \in Seq(X) /\ b \in Seq(X)
      /\ m = SubSeq(m, 1, k) \o b
      /\ Len(b) = Len(m) - k /\ \A i \in 1..(Len(m) - k) : b[i] = m[k + i]
  BY <1>1, Parts
<1>3. Len(m) \in Nat
  BY <1>1
<1> HIDE DEF b
<1>4. NoCompaction(b)
  <2> SUFFICES ASSUME NEW i \in 1..(Len(m) - k) PROVE b[i].kind # "compaction"
    BY <1>2 DEF NoCompaction
  <2>1. b[i] = m[k + i] /\ k + i \in (k + 1)..Len(m)
    BY <1>2, <1>3
  <2> QED BY <2>1
<1> QED BY <1>2, <1>4 DEF b, X

\* The context of a session is its summary and all of its messages.
LEMMA ContextForm ==
  ASSUME NEW m \in Seq(Entry), Wellformed(m), m # <<>> => ~IsMessage(m[1])
  PROVE  Context(m) = Opening(m) \o Messages(m)
<1>0. Len(m) \in Nat /\ \A i \in 1..Len(m) : m[i] \in Entry
  BY EntrySeqs
<1>1. CASE ~HasSummary(m)
  <2>1. NoCompaction(m)
    BY <1>0, <1>1 DEF HasSummary, Wellformed, NoCompaction
  <2>2. <<>> \in Seq(Entry) /\ Scan(<<>>).skip = 0 /\ Scan(<<>>).out = <<>> /\ Messages(<<>>) = <<>>
    BY EntrySeqs, ScanSteps, MessagesSteps DEF Nothing
  <2>3. Context(<<>> \o m) = <<>> \o Messages(<<>> \o m)
    <3>1. Scan(<<>>).out = <<>> \o Messages(<<>>)
      BY <2>2
    <3> QED BY <2>1, <2>2, <3>1, ContextAfter
  <2>4. <<>> \o m = m
    <3> DEFINE X == Entry
    <3>1. m \in Seq(X)
      OBVIOUS
    <3> HIDE DEF X
    <3> QED BY <3>1, ConcatEmptySeq
  <2> QED BY <1>1, <2>3, <2>4 DEF Opening
<1>2. CASE HasSummary(m)
  <2> DEFINE c == m[2]
             p == SubSeq(m, 1, 2)
  <2>1. /\ 1 \in 1..Len(m) /\ 2 \in 1..Len(m) /\ 2 \in 0..Len(m) /\ c.kind = "compaction"
        /\ m[1] \in Entry /\ c \in Entry /\ m[1].kind # "compaction" /\ m # <<>>
    BY <1>0, <1>2 DEF HasSummary, Wellformed
  <2>2. p = Append(Append(<<>>, m[1]), c)
    <3> DEFINE X == Entry
    <3>1. m \in Seq(X)
      OBVIOUS
    <3> HIDE DEF X
    <3>2. SubSeq(m, 1, 0) = <<>> /\ SubSeq(m, 1, 1) = Append(SubSeq(m, 1, 1 - 1), m[1])
      BY <2>1, <3>1, FirstParts
    <3>3. SubSeq(m, 1, 2) = Append(SubSeq(m, 1, 2 - 1), m[2])
      BY <2>1, <3>1, FirstParts
    <3>4. 1 - 1 = 0 /\ 2 - 1 = 1
      OBVIOUS
    <3> HIDE DEF c
    <3>5. SubSeq(m, 1, 1) = Append(<<>>, m[1])
      BY <3>2, <3>4, Zenon
    <3>6. SubSeq(m, 1, 2) = Append(SubSeq(m, 1, 1), m[2])
      BY <3>3, <3>4, Zenon
    <3> QED BY <3>5, <3>6, Zenon DEF c
  <2>3. p \in Seq(Entry) /\ Messages(p) = <<>> /\ Scan(p).out = <<c>> /\ Scan(p).skip = c.kept
    BY <2>1, <2>2, SummaryFirst
  <2>4. Opening(m) = <<c>> /\ <<c>> \in Seq(Entry)
    BY <1>2, <2>1, EntrySeqs DEF Opening
  <2> HIDE DEF c, p
  <2>5. CASE c.kept = 0
    <3> DEFINE s == SubSeq(m, 2 + 1, Len(m))
    <3>1. \A i \in (2 + 1)..Len(m) : m[i].kind # "compaction"
      BY <1>0 DEF Wellformed
    <3>2. s \in Seq(Entry) /\ m = p \o s /\ NoCompaction(s)
      BY <2>1, <3>1, Entries DEF p
    <3>3. Scan(p).out = <<c>> \o Messages(p)
      BY <2>3
    <3> HIDE DEF s
    <3>4. Context(p \o s) = <<c>> \o Messages(p \o s)
      BY <2>3, <2>4, <2>5, <3>2, <3>3, ContextAfter
    <3> QED BY <2>4, <3>2, <3>4
  <2>6. CASE c.kept # 0
    <3> DEFINE s == SubSeq(m, 3 + 1, Len(m))
               q == SubSeq(m, 1, 3)
    <3>1. 3 \in 1..Len(m) /\ 3 \in 0..Len(m) /\ m[3].id = c.kept /\ m[3] \in Entry
          /\ m[3].kind # "compaction"
      BY <1>0, <2>1, <2>6 DEF Wellformed, c
    <3>2. \A i \in (3 + 1)..Len(m) : m[i].kind # "compaction"
      BY <1>0 DEF Wellformed
    <3>3. s \in Seq(Entry) /\ m = q \o s /\ NoCompaction(s)
      BY <3>1, <3>2, Entries
    <3>4. q = Append(p, m[3])
      <4> DEFINE X == Entry
      <4>1. m \in Seq(X)
        OBVIOUS
      <4> HIDE DEF X
      <4>2. SubSeq(m, 1, 3) = Append(SubSeq(m, 1, 3 - 1), m[3])
        BY <3>1, <4>1, FirstParts
      <4> QED BY <4>2 DEF p
    <3>5. q \in Seq(Entry) /\ Scan(q).skip = 0 /\ Scan(q).out = <<c>> \o Messages(q)
      <4> HIDE DEF q
      <4> DEFINE d == m[3]
      <4>1. d \in Entry /\ d.kind # "compaction" /\ Scan(p).skip = d.id /\ q = Append(p, d)
        BY <2>3, <3>1, <3>4
      <4> HIDE DEF d
      <4>2. LET r == Append(p, d)
            IN r \in Seq(Entry) /\ Scan(r).skip = 0 /\ Scan(r).out = <<c>> \o Messages(r)
        BY <2>1, <2>3, <4>1, SummaryResumes
      <4> QED BY <4>1, <4>2
    <3> HIDE DEF s, q
    <3>6. Context(q \o s) = <<c>> \o Messages(q \o s)
      BY <2>4, <3>3, <3>5, ContextAfter
    <3> QED BY <2>4, <3>3, <3>6
  <2> QED BY <2>5, <2>6
<1> QED BY <1>1, <1>2

-----------------------------------------------------------------------------
(* What is read from a file.                                               *)

LEMMA LineSeqs ==
  /\ \A m \in Seq(Entry) : m \in Seq(Line)
  /\ \A e \in Entry : e \in Line /\ e # Bad
  /\ Bad \in Line
  /\ \A ls \in Seq(Line) : Len(ls) \in Nat /\ (ls # <<>> => Len(ls) >= 1)
                           /\ \A i \in 1..Len(ls) : ls[i] \in Line
  /\ \A ls \in Seq(Line) : \A e \in Line :
       /\ Append(ls, e) \in Seq(Line) /\ Len(Append(ls, e)) = Len(ls) + 1
       /\ Append(ls, e) # <<>>
       /\ Append(ls, e)[Len(ls) + 1] = e
       /\ \A i \in 1..Len(ls) : Append(ls, e)[i] = ls[i]
       /\ Front(Append(ls, e)) = ls
  /\ \A ls \in Seq(Line) : ls # <<>> =>
       /\ Front(ls) \in Seq(Line) /\ ls[Len(ls)] \in Line
       /\ ls = Append(Front(ls), ls[Len(ls)])
<1> DEFINE X == Line
           Y == Entry
<1>1. Y \subseteq X /\ Bad \in X /\ Bad \notin Y
  BY LineFacts DEF Line
<1> HIDE DEF X, Y
<1>2. \A m \in Seq(Y) : m \in Seq(X)
  BY <1>1
<1>3. \A ls \in Seq(X) : Len(ls) \in Nat /\ (ls # <<>> => Len(ls) >= 1)
                         /\ \A i \in 1..Len(ls) : ls[i] \in X
  OBVIOUS
<1>4. ASSUME NEW ls \in Seq(X), ls # <<>>
      PROVE  Front(ls) \in Seq(X) /\ ls[Len(ls)] \in X /\ ls = Append(Front(ls), ls[Len(ls)])
  <2>1. Len(ls) \in 1..Len(ls) /\ Len(ls) - 1 \in 0..Len(ls)
    BY <1>3, <1>4
  <2>2. SubSeq(ls, 1, Len(ls)) = Append(SubSeq(ls, 1, Len(ls) - 1), ls[Len(ls)])
    BY <2>1, FirstParts
  <2>3. SubSeq(ls, 1, Len(ls)) = ls
    BY SubSeqFull
  <2>4. SubSeq(ls, 1, Len(ls) - 1) \in Seq(X)
    BY <2>1, Parts
  <2>5. ls[Len(ls)] \in X
    BY <1>3, <2>1
  <2> QED BY <2>2, <2>3, <2>4, <2>5 DEF Front
<1>5. ASSUME NEW ls \in Seq(X), NEW e \in X
      PROVE  /\ Append(ls, e) \in Seq(X) /\ Len(Append(ls, e)) = Len(ls) + 1
             /\ Append(ls, e) # <<>>
             /\ Append(ls, e)[Len(ls) + 1] = e
             /\ \A i \in 1..Len(ls) : Append(ls, e)[i] = ls[i]
             /\ Front(Append(ls, e)) = ls
  <2> DEFINE a == Append(ls, e)
  <2>1. /\ a \in Seq(X) /\ Len(a) = Len(ls) + 1 /\ a # <<>> /\ a[Len(ls) + 1] = e
        /\ \A i \in 1..Len(ls) : a[i] = ls[i]
    OBVIOUS
  <2> HIDE DEF a
  <2>2. Front(a) \in Seq(X) /\ a = Append(Front(a), a[Len(a)]) /\ a[Len(a)] = e
    BY <1>3, <1>4, <2>1
  <2>3. Append(Front(a), e) = Append(ls, e) => Front(a) = ls
    BY <2>2, AppendInjective
  <2> QED BY <2>1, <2>2, <2>3 DEF a
<1> QED BY <1>1, <1>2, <1>3, <1>4, <1>5 DEF X, Y

\* A file without a torn line loads to what was written.
LEMMA ParsedAll ==
  \A m \in Seq(Entry) : Parsed(m) = m
<1> DEFINE X == Entry
           T == {m \in Seq(X) : Parsed(m) = m}
<1>1. <<>> \in T
  BY EntrySeqs, ParsedSteps
<1>2. ASSUME NEW m \in T, NEW e \in X PROVE Append(m, e) \in T
  <2>1. m \in Seq(Entry) /\ m \in Seq(Line) /\ Parsed(m) = m
    BY LineSeqs
  <2>2. Parsed(Append(m, e)) = Append(Parsed(m), e)
    BY <2>1, ParsedSteps
  <2> QED BY <2>1, <2>2, EntrySeqs
<1> HIDE DEF T
<1>3. T \in SUBSET Seq(X)
  BY DEF T
<1> HIDE DEF X
<1>4. T = Seq(X)
  BY <1>1, <1>2, <1>3, SeqInduction
<1> QED BY <1>4 DEF T, X

\* The first line of a file, when it parses, is the first entry.
LEMMA ParsedFirst ==
  \A ls \in Seq(Line) : ls # <<>> /\ ls[1] # Bad => Parsed(ls) # <<>> /\ Parsed(ls)[1] = ls[1]
<1> DEFINE X == Line
           P(ls) == ls # <<>> /\ ls[1] # Bad => Parsed(ls) # <<>> /\ Parsed(ls)[1] = ls[1]
           T == {ls \in Seq(X) : P(ls)}
<1>1. <<>> \in T
  <2>1. <<>> \in Seq(X)
    <3> HIDE DEF X
    <3> QED OBVIOUS
  <2> QED BY <2>1
<1>2. ASSUME NEW ls \in T, NEW e \in X PROVE Append(ls, e) \in T
  <2> DEFINE a == Append(ls, e)
             q == Parsed(ls)
  <2>1. /\ ls \in Seq(Line) /\ a \in Seq(Line) /\ Len(ls) \in Nat
        /\ (ls # <<>> => Len(ls) >= 1)
        /\ a[Len(ls) + 1] = e /\ \A i \in 1..Len(ls) : a[i] = ls[i]
    BY LineSeqs
  <2>2. q \in Seq(Entry) /\ Parsed(a) = IF e = Bad THEN q ELSE Append(q, e)
    BY <2>1, ParsedSteps DEF Line
  <2>3. e # Bad => e \in Entry
    BY DEF Line
  <2>4. P(ls)
    OBVIOUS
  <2> HIDE DEF a
  <2> SUFFICES ASSUME a[1] # Bad PROVE Parsed(a) # <<>> /\ Parsed(a)[1] = a[1]
    BY <2>1 DEF a
  <2>5. CASE ls = <<>>
    <3>1. Len(ls) = 0 /\ a[1] = e /\ q = <<>>
      BY <2>1, <2>5, ParsedSteps
    <3>2. Parsed(a) = Append(<<>>, e) /\ e \in Entry
      BY <2>2, <2>3, <3>1
    <3>3. Append(<<>>, e) # <<>> /\ Append(<<>>, e)[1] = e
      OBVIOUS
    <3> QED BY <3>1, <3>2, <3>3
  <2>6. CASE ls # <<>>
    <3>1. a[1] = ls[1] /\ q # <<>> /\ q[1] = ls[1]
      BY <2>1, <2>4, <2>6
    <3>2. CASE e = Bad
      BY <2>2, <3>1, <3>2
    <3>3. CASE e # Bad
      <4> HIDE DEF q
      <4>1. Len(q) \in Nat /\ Len(q) >= 1
        <5> DEFINE Z == Entry
        <5>1. q \in Seq(Z)
          BY <2>2
        <5> HIDE DEF Z
        <5> QED BY <3>1, <5>1
      <4>2. Append(q, e)[1] = q[1] /\ Len(Append(q, e)) = Len(q) + 1
        BY <2>2, <2>3, <3>3, <4>1, EntrySeqs
      <4>3. Append(q, e) # <<>>
        <5>1. Len(<<>>) = 0
          OBVIOUS
        <5> QED BY <4>1, <4>2, <5>1
      <4> QED BY <2>2, <3>1, <3>3, <4>2, <4>3
    <3> QED BY <3>2, <3>3
  <2> QED BY <2>5, <2>6
<1> HIDE DEF T
<1>3. T \in SUBSET Seq(X)
  BY DEF T
<1> HIDE DEF X
<1>4. T = Seq(X)
  BY <1>1, <1>2, <1>3, SeqInduction
<1> QED BY <1>4 DEF T, X

\* One more entry is one more id, if it has any.
LEMMA IdsAppend ==
  ASSUME NEW m \in Seq(Entry), NEW e \in Entry
  PROVE  Ids(Append(m, e)) = Ids(m) \cup Ids(<<e>>) /\ Ids(<<e>>) = {e.id} \ {0}
<1> DEFINE a == Append(m, e)
<1>1. /\ DOMAIN a = 1..(Len(m) + 1) /\ DOMAIN m = 1..Len(m) /\ Len(m) \in Nat
      /\ a[Len(m) + 1] = e /\ \A i \in 1..Len(m) : a[i] = m[i]
  BY EntrySeqs
<1> HIDE DEF a
<1>2. {a[i].id : i \in DOMAIN a} = {m[i].id : i \in DOMAIN m} \cup {e.id}
  <2>1. ASSUME NEW i \in DOMAIN a PROVE a[i].id \in {m[j].id : j \in DOMAIN m} \cup {e.id}
    BY <1>1
  <2>2. ASSUME NEW j \in DOMAIN m PROVE m[j].id \in {a[i].id : i \in DOMAIN a}
    <3>1. j \in DOMAIN a /\ a[j] = m[j]
      BY <1>1
    <3> QED BY <3>1
  <2>3. e.id \in {a[i].id : i \in DOMAIN a}
    <3>1. Len(m) + 1 \in DOMAIN a
      BY <1>1
    <3> QED BY <1>1, <3>1
  <2> QED BY <2>1, <2>2, <2>3
<1>3. {<<e>>[i].id : i \in DOMAIN <<e>>} = {e.id}
  <2>1. DOMAIN <<e>> = {1} /\ <<e>>[1] = e
    OBVIOUS
  <2> QED BY <2>1
<1> QED BY <1>2, <1>3 DEF Ids, a

-----------------------------------------------------------------------------
(* What one write leaves of a file.                                        *)

\* The lines of a file whose newline is written, and the entries in them.
Solid(f) == IF f.open THEN Front(f.lines) ELSE f.lines
Kept(f) == Parsed(Solid(f))

Opened(f) == f.open => f.lines # <<>>

\* The line that lacks its newline is all that Kept leaves out.
LEMMA KeptReadable ==
  ASSUME NEW f \in File, Opened(f)
  PROVE  /\ Kept(f) \in Seq(Entry) /\ Readable(f) \in Seq(Entry)
         /\ Ids(Kept(f)) \subseteq Ids(Readable(f))
         /\ ~f.open => Readable(f) = Kept(f)
<1> DEFINE ls == f.lines
<1>1. ls \in Seq(Line) /\ Readable(f) = Parsed(ls) /\ f.open \in BOOLEAN
  BY DEF File, Readable
<1>2. CASE ~f.open
  <2>1. Readable(f) = Kept(f)
    BY <1>2 DEF Kept, Solid, Readable
  <2> QED BY <1>1, <2>1, ParsedSteps
<1>3. CASE f.open
  <2>1. ls # <<>>
    BY <1>3 DEF Opened
  <2>2. Front(ls) \in Seq(Line) /\ ls[Len(ls)] \in Line /\ ls = Append(Front(ls), ls[Len(ls)])
    BY <1>1, <2>1, LineSeqs
  <2> DEFINE e == ls[Len(ls)]
             b == Front(ls)
             m == Parsed(b)
  <2>3. Kept(f) = m /\ m \in Seq(Entry)
    BY <1>3, <2>2, ParsedSteps DEF Kept, Solid
  <2>4. Readable(f) = Parsed(Append(b, e))
    BY <1>1, <2>2
  <2> HIDE DEF ls, e, b, m
  <2>5. CASE e = Bad
    <3>1. Readable(f) = m
      BY <2>2, <2>4, <2>5, ParsedSteps DEF b, m
    <3> QED BY <1>3, <2>3, <3>1
  <2>6. CASE e # Bad
    <3>1. e \in Entry
      BY <2>2, <2>6 DEF Line, e
    <3>2. Readable(f) = Append(m, e)
      BY <2>2, <2>4, <3>1, ParsedSteps DEF b, m
    <3>3. Ids(Append(m, e)) = Ids(m) \cup Ids(<<e>>) /\ Append(m, e) \in Seq(Entry)
      BY <2>3, <3>1, IdsAppend, EntrySeqs
    <3> QED BY <1>3, <2>3, <3>2, <3>3
  <2> QED BY <2>5, <2>6
<1> QED BY <1>1, <1>2, <1>3

\* A write adds its entry when all of it arrives after a whole line, and takes
\* nothing away but what an earlier one left unfinished.
LEMMA PutKeeps ==
  ASSUME NEW f \in File, Opened(f), NEW e \in Entry, NEW x
  PROVE  LET g == Put(f, e, x)
         IN /\ g \in File /\ Opened(g) /\ g.lines # <<>>
            /\ g.open = (x # "all") /\ g.utf8 = (f.utf8 /\ x # "split")
            /\ Kept(g) = IF ~f.open /\ x = "all" THEN Append(Kept(f), e) ELSE Kept(f)
            /\ Readable(g) \in {Kept(f), Append(Kept(f), e)}
            /\ f.open => Readable(g) = Kept(f)
            /\ g.lines[1] \in {Bad} \cup (IF f.lines = <<>> THEN {e} ELSE {f.lines[1]})
<1> DEFINE g == Put(f, e, x)
           b == Solid(f)
           d == IF f.open \/ x \in {"part", "split"} THEN Bad ELSE e
<1>1. f.lines \in Seq(Line) /\ f.open \in BOOLEAN /\ f.utf8 \in BOOLEAN /\ (f.open => f.lines # <<>>)
  BY DEF File, Opened
<1>2. b \in Seq(Line)
  BY <1>1, LineSeqs DEF Solid
<1>3. d \in Line
  BY LineSeqs
<1>4. g.lines = Append(b, d) /\ g.open = (x # "all") /\ g.utf8 = (f.utf8 /\ x # "split")
  BY <1>1 DEF Put, Solid
<1>5. g \in File /\ g.lines # <<>>
  <2>1. Append(b, d) \in Seq(Line) /\ Append(b, d) # <<>>
    BY <1>2, <1>3, LineSeqs
  <2>2. g = [lines |-> g.lines, open |-> x # "all", utf8 |-> f.utf8 /\ x # "split"]
    BY DEF Put
  <2>3. (x # "all") \in BOOLEAN /\ (f.utf8 /\ x # "split") \in BOOLEAN
    OBVIOUS
  <2> HIDE DEF g, b, d
  <2>4. g.lines \in Seq(Line)
    BY <1>4, <2>1
  <2> QED BY <1>4, <2>1, <2>2, <2>3, <2>4 DEF File
<1>6. Kept(f) = Parsed(b)
  BY DEF Kept
<1>7. Readable(g) = Parsed(Append(b, d))
  BY <1>4 DEF Readable
<1>8. Kept(g) = IF x = "all" THEN Parsed(Append(b, d)) ELSE Parsed(b)
  <2>1. Solid(g) = IF x = "all" THEN Append(b, d) ELSE Front(Append(b, d))
    BY <1>4 DEF Solid
  <2>2. Front(Append(b, d)) = b
    BY <1>2, <1>3, LineSeqs
  <2> HIDE DEF g, b, d
  <2> QED BY <2>1, <2>2 DEF Kept
<1>9. Parsed(Append(b, d)) = IF d = Bad THEN Parsed(b) ELSE Append(Parsed(b), d)
  <2> HIDE DEF b, d
  <2>1. d # Bad => d \in Entry
    BY <1>3 DEF Line
  <2> QED BY <1>2, <2>1, ParsedSteps
<1>10. e # Bad
  BY LineSeqs
<1>11. g.lines[1] \in {Bad} \cup (IF f.lines = <<>> THEN {e} ELSE {f.lines[1]})
  <2>1. CASE b = <<>>
    <3>1. Append(b, d)[1] = d
      BY <2>1
    <3>2. f.lines = <<>> \/ d = Bad
      BY <1>1, <2>1 DEF Solid
    <3> QED BY <1>4, <3>1, <3>2
  <2>2. CASE b # <<>>
    <3>1. Len(b) \in Nat /\ Len(b) >= 1 /\ Append(b, d)[1] = b[1]
      <4> HIDE DEF b, d
      <4>1. Len(b) \in Nat /\ Len(b) >= 1
        BY <1>2, <2>2, LineSeqs
      <4> QED BY <1>2, <1>3, <4>1, LineSeqs
    <3>2. f.lines # <<>> /\ b[1] = f.lines[1]
      <4>1. CASE ~f.open
        BY <1>1, <2>2, <4>1 DEF Solid
      <4>2. CASE f.open
        <5>1. f.lines # <<>> /\ b = Front(f.lines)
          BY <1>1, <4>2 DEF Solid
        <5> DEFINE ls == f.lines
                   w == Front(ls)
                   z == ls[Len(ls)]
        <5>2. w \in Seq(Line) /\ z \in Line /\ ls = Append(w, z)
          BY <1>1, <5>1, LineSeqs
        <5>3. b = w
          BY <5>1
        <5> HIDE DEF w, z, ls, b
        <5>4. Append(w, z)[1] = w[1]
          BY <3>1, <5>2, <5>3, LineSeqs
        <5>5. ls[1] = b[1]
          BY <5>2, <5>3, <5>4
        <5> QED BY <5>1, <5>5 DEF ls
      <4> QED BY <1>1, <4>1, <4>2
    <3> QED BY <1>4, <3>1, <3>2
  <2> QED BY <2>1, <2>2
<1>12. d \in {Bad, e} /\ (f.open => d = Bad) /\ (~f.open /\ x = "all" => d = e)
  OBVIOUS
<1>13. Opened(g)
  BY <1>5 DEF Opened
<1> HIDE DEF g, b, d
<1>14. Kept(g) = IF ~f.open /\ x = "all" THEN Append(Kept(f), e) ELSE Kept(f)
  BY <1>1, <1>6, <1>8, <1>9, <1>10, <1>12
<1>15. Readable(g) \in {Kept(f), Append(Kept(f), e)} /\ (f.open => Readable(g) = Kept(f))
  BY <1>6, <1>7, <1>9, <1>12
<1> QED BY <1>4, <1>5, <1>11, <1>13, <1>14, <1>15 DEF g

-----------------------------------------------------------------------------
(* One file of the store.                                                  *)

\* A file with n faulty writes behind it: what it holds loads to a well-formed
\* session, and each fault has cost at most one saved entry, a line that still
\* lacks its newline being one that the next write will cost.
Safe(s, f, saved, n) ==
  /\ f \in File /\ Opened(f)
  /\ n = 0 => f.utf8 /\ ~f.open
  /\ f.lines # <<>> /\ f.lines[1].kind = "session" => f.lines[1].id = s
  /\ Wellformed(Kept(f)) /\ Wellformed(Readable(f))
  /\ IsFiniteSet(saved \ Ids(Kept(f)))
  /\ Cardinality(saved \ Ids(Kept(f))) + (IF f.open THEN 1 ELSE 0) <= n

\* An entry that is appended: the header of a new file, or one with a number.
Fits(s, f, e) ==
  /\ e \in Entry /\ e.kind # "compaction"
  /\ e.kind = "session" => e.id = s
  /\ e.id \in Nat \/ f.lines = <<>>

LEMMA WellformedAppend ==
  ASSUME NEW m \in Seq(Entry), NEW e \in Entry, Wellformed(m), e.kind # "compaction",
         e.id \in Nat \/ m = <<>>
  PROVE  Wellformed(Append(m, e))
<1> DEFINE a == Append(m, e)
<1>1. /\ Len(a) = Len(m) + 1 /\ Len(m) \in Nat
      /\ a[Len(m) + 1] = e /\ \A i \in 1..Len(m) : a[i] = m[i]
  BY EntrySeqs
<1>2. m = <<>> => Len(m) = 0
  OBVIOUS
<1> HIDE DEF a
<1>3. ASSUME NEW i \in 1..Len(a), a[i].kind = "compaction"
      PROVE  i = 2 /\ (a[2].kept # 0 => Len(a) >= 3 /\ a[3].id = a[2].kept)
  <2>1. i \in 1..Len(m) /\ a[i] = m[i]
    BY <1>1, <1>3
  <2>2. i = 2 /\ (m[2].kept # 0 => Len(m) >= 3 /\ m[3].id = m[2].kept)
    BY <1>3, <2>1 DEF Wellformed
  <2>3. Len(m) >= 3 => a[3] = m[3]
    BY <1>1
  <2> QED BY <1>1, <2>1, <2>2, <2>3
<1>4. ASSUME NEW i \in 2..Len(a) PROVE a[i].id \in Nat
  BY <1>1, <1>2 DEF Wellformed
<1> QED BY <1>3, <1>4 DEF Wellformed, a

LEMMA WellformedEmpty == Wellformed(<<>>)
BY DEF Wellformed

LEMMA SafeEmpty ==
  ASSUME NEW s
  PROVE  Safe(s, NoFile, {}, 0)
<1>1. NoFile \in File /\ Opened(NoFile) /\ NoFile.lines = <<>> /\ ~NoFile.open /\ NoFile.utf8
  <2> DEFINE X == Line
  <2>1. <<>> \in Seq(X)
    <3> HIDE DEF X
    <3> QED OBVIOUS
  <2> QED BY <2>1 DEF NoFile, File, Opened
<1>2. Kept(NoFile) = <<>> /\ Readable(NoFile) = <<>>
  BY <1>1, ParsedSteps DEF Kept, Solid, Readable
<1>3. IsFiniteSet({}) /\ Cardinality({}) = 0 /\ {} \ Ids(<<>>) = {}
  BY FS_EmptySet
<1> QED BY <1>1, <1>2, <1>3, WellformedEmpty DEF Safe

LEMMA SafeFault ==
  ASSUME NEW s, NEW f, NEW saved, NEW n \in Nat, Safe(s, f, saved, n)
  PROVE  Safe(s, f, saved, n + 1)
<1>1. /\ IsFiniteSet(saved \ Ids(Kept(f)))
      /\ Cardinality(saved \ Ids(Kept(f))) + (IF f.open THEN 1 ELSE 0) <= n
  BY DEF Safe
<1>2. Cardinality(saved \ Ids(Kept(f))) \in Nat
  BY <1>1, FS_CardinalityType
<1>3. Cardinality(saved \ Ids(Kept(f))) + (IF f.open THEN 1 ELSE 0) <= n + 1
  BY <1>1, <1>2
<1> QED BY <1>3 DEF Safe

LEMMA SafeRewrite ==
  ASSUME NEW s, NEW m \in Seq(Entry), Wellformed(m),
         m # <<>> /\ m[1].kind = "session" => m[1].id = s
  PROVE  Safe(s, [lines |-> m, open |-> FALSE, utf8 |-> TRUE], Ids(m), 0)
<1> DEFINE f == [lines |-> m, open |-> FALSE, utf8 |-> TRUE]
<1>1. f \in File /\ Opened(f) /\ f.lines = m /\ ~f.open /\ f.utf8
  BY LineSeqs DEF File, Opened
<1> HIDE DEF f
<1>2. Kept(f) = m /\ Readable(f) = m
  BY <1>1, ParsedAll DEF Kept, Solid, Readable
<1>3. IsFiniteSet({}) /\ Cardinality({}) = 0 /\ Ids(m) \ Ids(m) = {}
  BY FS_EmptySet
<1>4. /\ IsFiniteSet(Ids(m) \ Ids(Kept(f)))
      /\ Cardinality(Ids(m) \ Ids(Kept(f))) + (IF f.open THEN 1 ELSE 0) <= 0
  <2>1. Ids(m) \ Ids(Kept(f)) = {}
    BY <1>2
  <2>2. (IF f.open THEN 1 ELSE 0) = 0
    BY <1>1
  <2>3. Cardinality(Ids(m) \ Ids(Kept(f))) = 0 /\ IsFiniteSet(Ids(m) \ Ids(Kept(f)))
    BY <1>3, <2>1, Zenon
  <2> QED BY <2>2, <2>3
<1>5. Safe(s, f, Ids(m), 0)
  BY <1>1, <1>2, <1>4 DEF Safe
<1> QED BY <1>5 DEF f

\* What any write leaves, but for the entries that count as saved.
LEMMA SafePut ==
  ASSUME NEW s, NEW f, NEW saved, NEW n \in Nat, Safe(s, f, saved, n), NEW e, Fits(s, f, e), NEW x
  PROVE  LET g == Put(f, e, x)
         IN /\ g \in File /\ Opened(g)
            /\ g.lines # <<>> /\ g.lines[1].kind = "session" => g.lines[1].id = s
            /\ Wellformed(Kept(g)) /\ Wellformed(Readable(g))
            /\ Kept(g) = IF ~f.open /\ x = "all" THEN Append(Kept(f), e) ELSE Kept(f)
            /\ Kept(f) \in Seq(Entry)
            /\ g.open = (x # "all") /\ g.utf8 = (f.utf8 /\ x # "split")
<1> DEFINE g == Put(f, e, x)
<1>1. f \in File /\ Opened(f) /\ e \in Entry
  BY DEF Safe, Fits
<1>2. /\ g \in File /\ Opened(g) /\ g.lines # <<>>
      /\ g.open = (x # "all") /\ g.utf8 = (f.utf8 /\ x # "split")
      /\ Kept(g) = IF ~f.open /\ x = "all" THEN Append(Kept(f), e) ELSE Kept(f)
      /\ Readable(g) \in {Kept(f), Append(Kept(f), e)}
      /\ g.lines[1] \in {Bad} \cup (IF f.lines = <<>> THEN {e} ELSE {f.lines[1]})
  BY <1>1, PutKeeps
<1>3. Kept(f) \in Seq(Entry)
  BY <1>1, KeptReadable
<1>4. f.lines = <<>> => Kept(f) = <<>>
  <2> SUFFICES ASSUME f.lines = <<>> PROVE Kept(f) = <<>>
    OBVIOUS
  <2>1. ~f.open
    BY <1>1 DEF Opened
  <2> QED BY <2>1, ParsedSteps DEF Kept, Solid
<1>5. Wellformed(Kept(f)) /\ Wellformed(Append(Kept(f), e))
  <2>1. Wellformed(Kept(f)) /\ e.kind # "compaction" /\ (e.id \in Nat \/ Kept(f) = <<>>)
    BY <1>4 DEF Safe, Fits
  <2> QED BY <1>1, <1>3, <2>1, WellformedAppend
<1> HIDE DEF g
<1>6. g.lines[1].kind = "session" => g.lines[1].id = s
  <2>1. g.lines[1] = Bad \/ (f.lines = <<>> /\ g.lines[1] = e)
          \/ (f.lines # <<>> /\ g.lines[1] = f.lines[1])
    BY <1>2
  <2>2. Bad.kind # "session"
    BY LineFacts
  <2> QED BY <2>1, <2>2 DEF Safe, Fits
<1>7. Wellformed(Kept(g)) /\ Wellformed(Readable(g))
  BY <1>2, <1>5
<1> QED BY <1>2, <1>3, <1>6, <1>7 DEF g

\* An append that returned Ok saves its entry, unless an earlier fault had left
\* a line unfinished: then it costs this one, which that fault accounts for.
LEMMA SafeAppend ==
  ASSUME NEW s, NEW f, NEW saved, NEW n \in Nat, Safe(s, f, saved, n), NEW e, Fits(s, f, e)
  PROVE  Safe(s, Put(f, e, "all"), saved \cup Ids(<<e>>), n)
<1> DEFINE g == Put(f, e, "all")
           lost == saved \ Ids(Kept(f))
           gone == (saved \cup Ids(<<e>>)) \ Ids(Kept(g))
<1>1. /\ g \in File /\ Opened(g)
      /\ g.lines # <<>> /\ g.lines[1].kind = "session" => g.lines[1].id = s
      /\ Wellformed(Kept(g)) /\ Wellformed(Readable(g))
      /\ Kept(g) = IF ~f.open /\ "all" = "all" THEN Append(Kept(f), e) ELSE Kept(f)
      /\ Kept(f) \in Seq(Entry)
      /\ g.open = ("all" # "all") /\ g.utf8 = (f.utf8 /\ "all" # "split")
  BY SafePut
<1>2. f \in File /\ f.open \in BOOLEAN /\ e \in Entry
  BY DEF Safe, File, Fits
<1>3. ~g.open /\ g.utf8 = f.utf8
  BY <1>1, <1>2 DEF File
<1>4. IsFiniteSet(lost) /\ Cardinality(lost) + (IF f.open THEN 1 ELSE 0) <= n
  BY DEF Safe
<1>5. Cardinality(lost) \in Nat
  BY <1>4, FS_CardinalityType
<1>6. Ids(<<e>>) = {e.id} \ {0} /\ Ids(Append(Kept(f), e)) = Ids(Kept(f)) \cup Ids(<<e>>)
  BY <1>1, <1>2, IdsAppend
<1>7. IsFiniteSet(gone) /\ Cardinality(gone) <= n
  <2>1. CASE ~f.open
    <3>1. Kept(g) = Append(Kept(f), e)
      BY <1>1, <2>1
    <3>2. gone \in SUBSET lost
      BY <1>6, <3>1
    <3> HIDE DEF lost, gone
    <3>3. IsFiniteSet(gone) /\ Cardinality(gone) <= Cardinality(lost)
      BY <1>4, <3>2, FS_Subset
    <3>4. Cardinality(gone) \in Nat /\ Cardinality(lost) <= n
      BY <1>4, <1>5, <2>1, <3>3, FS_CardinalityType
    <3> QED BY <1>5, <3>3, <3>4
  <2>2. CASE f.open
    <3>1. Kept(g) = Kept(f)
      BY <1>1, <2>2
    <3> DEFINE more == lost \cup {e.id}
    <3>2. gone \in SUBSET more
      BY <1>6, <3>1
    <3> HIDE DEF lost, gone, more
    <3>3. IsFiniteSet(more) /\ Cardinality(more) <= Cardinality(lost) + 1
      <4>1. /\ IsFiniteSet(lost \cup {e.id})
            /\ Cardinality(lost \cup {e.id}) =
                 IF e.id \in lost THEN Cardinality(lost) ELSE Cardinality(lost) + 1
        BY <1>4, FS_AddElement
      <4> QED BY <1>5, <4>1 DEF more
    <3>4. IsFiniteSet(gone) /\ Cardinality(gone) <= Cardinality(more)
      BY <3>2, <3>3, FS_Subset
    <3>5. Cardinality(gone) \in Nat /\ Cardinality(more) \in Nat /\ Cardinality(lost) + 1 <= n
      BY <1>4, <1>5, <2>2, <3>3, <3>4, FS_CardinalityType
    <3> QED BY <1>5, <3>3, <3>4, <3>5
  <2> QED BY <1>2, <2>1, <2>2
<1>8. n = 0 => f.utf8
  BY DEF Safe
<1>9. Cardinality(gone) + (IF g.open THEN 1 ELSE 0) <= n
  <2> HIDE DEF g, gone
  <2>1. Cardinality(gone) \in Nat
    BY <1>7, FS_CardinalityType
  <2> QED BY <1>3, <1>7, <2>1
<1> HIDE DEF g
<1> QED BY <1>1, <1>3, <1>7, <1>8, <1>9 DEF Safe, g

\* An append that failed, or was cut short, is one more fault.
LEMMA SafePartial ==
  ASSUME NEW s, NEW f, NEW saved, NEW n \in Nat, Safe(s, f, saved, n), NEW e, Fits(s, f, e), NEW x
  PROVE  Safe(s, Put(f, e, x), saved, n + 1)
<1> DEFINE g == Put(f, e, x)
           lost == saved \ Ids(Kept(f))
           gone == saved \ Ids(Kept(g))
<1>1. /\ g \in File /\ Opened(g)
      /\ g.lines # <<>> /\ g.lines[1].kind = "session" => g.lines[1].id = s
      /\ Wellformed(Kept(g)) /\ Wellformed(Readable(g))
      /\ Kept(g) = IF ~f.open /\ x = "all" THEN Append(Kept(f), e) ELSE Kept(f)
      /\ Kept(f) \in Seq(Entry)
  BY SafePut
<1>2. e \in Entry
  BY DEF Fits
<1>3. IsFiniteSet(lost) /\ Cardinality(lost) + (IF f.open THEN 1 ELSE 0) <= n
  BY DEF Safe
<1>4. Cardinality(lost) \in Nat
  BY <1>3, FS_CardinalityType
<1>5. gone \in SUBSET lost
  <2>1. Ids(Kept(f)) \subseteq Ids(Kept(g))
    <3>1. Ids(Append(Kept(f), e)) = Ids(Kept(f)) \cup Ids(<<e>>)
      BY <1>1, <1>2, IdsAppend
    <3> QED BY <1>1, <3>1
  <2> QED BY <2>1
<1>6. IsFiniteSet(gone) /\ Cardinality(gone) <= Cardinality(lost)
  <2> HIDE DEF lost, gone
  <2> QED BY <1>3, <1>5, FS_Subset
<1>7. Cardinality(gone) + (IF g.open THEN 1 ELSE 0) <= n + 1
  <2> HIDE DEF g, lost, gone
  <2>1. Cardinality(gone) \in Nat /\ Cardinality(lost) <= n
    BY <1>3, <1>4, <1>6, FS_CardinalityType
  <2> QED BY <1>4, <1>6, <2>1
<1>8. n + 1 # 0
  OBVIOUS
<1> HIDE DEF g
<1> QED BY <1>1, <1>6, <1>7, <1>8 DEF Safe, g

-----------------------------------------------------------------------------
(* The inductive invariant.                                                *)

FilesTyped ==
  /\ files \in [Sessions -> File]
  /\ acked \in [Sessions -> SUBSET (Sessions \cup Nat)]
  /\ faults \in [Sessions -> 0..MaxFaults]
  /\ allFaults \in 0..MaxFaults

FileInv == \A s \in Sessions : Safe(s, files[s], acked[s], faults[s]) /\ faults[s] <= allFaults

StoreInv ==
  /\ Wellformed(mem)
  /\ mem # <<>> => IsHeader(mem[1])
  /\ created => path # 0
  /\ CopiesAgree

Inv == TypeOK /\ FileInv /\ StoreInv

LEMMA TypesOfFiles == TypeOK => FilesTyped
BY DEF TypeOK, FilesTyped, File, Line

\* A write to one file leaves the others as they are.
LEMMA OneFile ==
  ASSUME FilesTyped, FileInv, NEW s \in Sessions, NEW f, NEW saved \in SUBSET (Sessions \cup Nat),
         NEW n \in 0..MaxFaults,
         files' = [files EXCEPT ![s] = f], acked' = [acked EXCEPT ![s] = saved],
         faults' = [faults EXCEPT ![s] = n], allFaults' \in 0..MaxFaults,
         allFaults <= allFaults', n <= allFaults', Safe(s, f, saved, n)
  PROVE  FilesTyped' /\ FileInv'
<1>1. f \in File
  BY DEF Safe
<1>2. FilesTyped'
  <2>1. files' \in [Sessions -> File]
    BY <1>1 DEF FilesTyped
  <2>2. acked' \in [Sessions -> SUBSET (Sessions \cup Nat)]
    BY DEF FilesTyped
  <2>3. faults' \in [Sessions -> 0..MaxFaults]
    BY DEF FilesTyped
  <2> QED BY <2>1, <2>2, <2>3 DEF FilesTyped
<1>3. ASSUME NEW t \in Sessions
      PROVE  Safe(t, files'[t], acked'[t], faults'[t]) /\ faults'[t] <= allFaults'
  <2>1. CASE t = s
    <3>1. files'[s] = f /\ acked'[s] = saved /\ faults'[s] = n
      BY DEF FilesTyped
    <3> QED BY <2>1, <3>1
  <2>2. CASE t # s
    <3>1. files'[t] = files[t] /\ acked'[t] = acked[t] /\ faults'[t] = faults[t]
      BY <2>2 DEF FilesTyped
    <3>2. Safe(t, files[t], acked[t], faults[t]) /\ faults[t] <= allFaults
      BY DEF FileInv
    <3>3. faults[t] \in Int /\ allFaults \in Int /\ allFaults' \in Int
      BY StoreAssumption DEF FilesTyped
    <3> QED BY <3>1, <3>2, <3>3
  <2> QED BY <2>1, <2>2
<1> QED BY <1>2, <1>3 DEF FileInv

LEMMA CountFaults ==
  ASSUME FilesTyped, FileInv, NEW s \in Sessions, Fault(s)
  PROVE  /\ faults[s] \in Nat /\ faults[s] + 1 \in 0..MaxFaults /\ faults[s] + 1 <= allFaults'
         /\ faults' = [faults EXCEPT ![s] = faults[s] + 1] /\ faults'[s] # 0
         /\ allFaults' \in 0..MaxFaults /\ allFaults <= allFaults'
<1>1. faults[s] \in 0..MaxFaults /\ allFaults \in 0..MaxFaults /\ faults[s] <= allFaults
      /\ MaxFaults \in Nat
  BY StoreAssumption DEF FilesTyped, FileInv
<1>2. allFaults < MaxFaults /\ allFaults' = allFaults + 1
      /\ faults' = [faults EXCEPT ![s] = faults[s] + 1]
  BY DEF Fault
<1>3. faults'[s] = faults[s] + 1
  BY <1>2 DEF FilesTyped
<1> QED BY <1>1, <1>2, <1>3

LEMMA SavedIds ==
  \A m \in Seq(Entry) : Ids(m) \subseteq Sessions \cup Nat
<1> TAKE m \in Seq(Entry)
<1>1. \A i \in DOMAIN m : m[i].id \in Sessions \cup Nat
  BY EntrySeqs, LineFacts
<1> QED BY <1>1 DEF Ids

\* Writing an entry that fits keeps every file safe.
LEMMA AppendKeeps ==
  ASSUME FilesTyped, FileInv, NEW s \in Sessions, NEW e, Fits(s, files[s], e),
         AppendToDisk(s, e) \/ AppendFails(s, e)
  PROVE  /\ FilesTyped' /\ FileInv'
         /\ faults'[s] = 0 => /\ faults[s] = 0 /\ files'[s].utf8
                              /\ Readable(files'[s]) = Append(Readable(files[s]), e)
<1> DEFINE f == files[s]
           n == faults[s]
           saved == acked[s]
<1>1. /\ Safe(s, f, saved, n) /\ n \in Nat /\ n \in 0..MaxFaults
      /\ n <= allFaults /\ allFaults \in 0..MaxFaults /\ allFaults \in Int
      /\ saved \in SUBSET (Sessions \cup Nat) /\ e \in Entry
  BY StoreAssumption DEF FilesTyped, FileInv, Fits
<1>2. CASE AppendToDisk(s, e)
  <2> DEFINE g == Put(f, e, "all")
             more == saved \cup Ids(<<e>>)
  <2>1. /\ files' = [files EXCEPT ![s] = g] /\ acked' = [acked EXCEPT ![s] = more]
        /\ faults' = faults /\ allFaults' = allFaults
    BY <1>2 DEF AppendToDisk
  <2>2. faults' = [faults EXCEPT ![s] = n] /\ faults'[s] = n
    BY <2>1 DEF FilesTyped
  <2>3. more \in SUBSET (Sessions \cup Nat)
    <3>1. <<e>> \in Seq(Entry)
      BY <1>1, EntrySeqs
    <3> QED BY <1>1, <3>1, SavedIds
  <2>4. Safe(s, g, more, n)
    BY <1>1, SafeAppend
  <2>5. files'[s] = g
    BY <2>1 DEF FilesTyped
  <2>6. n = 0 => f.utf8 /\ ~f.open
    BY <1>1 DEF Safe
  <2>7. /\ g \in File /\ Opened(g) /\ f \in File /\ Opened(f)
        /\ g.open = ("all" # "all") /\ g.utf8 = (f.utf8 /\ "all" # "split")
        /\ Kept(g) = IF ~f.open /\ "all" = "all" THEN Append(Kept(f), e) ELSE Kept(f)
    <3>1. f \in File /\ Opened(f)
      BY <1>1 DEF Safe
    <3>2. Fits(s, f, e)
      OBVIOUS
    <3> HIDE DEF f, n, saved
    <3> QED BY <1>1, <3>1, <3>2, SafePut
  <2>8. n = 0 => g.utf8 /\ Readable(g) = Append(Readable(f), e)
    <3> SUFFICES ASSUME n = 0 PROVE g.utf8 /\ Readable(g) = Append(Readable(f), e)
      OBVIOUS
    <3>1. f.utf8 /\ ~f.open /\ ~g.open
      BY <2>6, <2>7 DEF File
    <3>2. Readable(f) = Kept(f) /\ Readable(g) = Kept(g)
      BY <2>7, <3>1, KeptReadable
    <3> QED BY <2>7, <3>1, <3>2 DEF File
  <2>10. allFaults' \in 0..MaxFaults /\ allFaults <= allFaults' /\ n <= allFaults'
    BY <1>1, <2>1
  <2> HIDE DEF g, f, n, saved, more
  <2>9. FilesTyped' /\ FileInv'
    BY <1>1, <2>1, <2>2, <2>3, <2>4, <2>10, OneFile
  <2> QED BY <2>2, <2>5, <2>8, <2>9 DEF f, n
<1>3. CASE AppendFails(s, e)
  <2>1. Fault(s) /\ acked' = [acked EXCEPT ![s] = saved]
    BY <1>3 DEF AppendFails, FilesTyped
  <2>2. PICK g : files' = [files EXCEPT ![s] = g] /\ Safe(s, g, saved, n + 1)
    <3>1. CASE UNCHANGED files
      <4>1. files' = [files EXCEPT ![s] = f]
        BY <3>1 DEF FilesTyped
      <4> QED BY <1>1, <4>1, SafeFault
    <3>2. CASE \E x \in Failing \ {"none"} : files' = [files EXCEPT ![s] = Put(@, e, x)]
      <4> PICK x : files' = [files EXCEPT ![s] = Put(f, e, x)]
        BY <3>2
      <4>1. Safe(s, Put(f, e, x), saved, n + 1)
        BY <1>1, SafePartial
      <4> QED BY <4>1
    <3> QED BY <1>3, <3>1, <3>2 DEF AppendFails
  <2>3. /\ n + 1 \in 0..MaxFaults /\ n + 1 <= allFaults'
        /\ faults' = [faults EXCEPT ![s] = n + 1] /\ faults'[s] # 0
        /\ allFaults' \in 0..MaxFaults /\ allFaults <= allFaults'
    BY <2>1, CountFaults
  <2> HIDE DEF f, n, saved
  <2>4. FilesTyped' /\ FileInv'
    BY <1>1, <2>1, <2>2, <2>3, OneFile
  <2> QED BY <2>3, <2>4
<1> QED BY <1>2, <1>3

\* Replacing a file by well-formed entries keeps every file safe.
LEMMA RewriteKeeps ==
  ASSUME FilesTyped, FileInv, NEW s \in Sessions, NEW m \in Seq(Entry), Wellformed(m),
         m # <<>> /\ m[1].kind = "session" => m[1].id = s, Rewrite(s, m)
  PROVE  /\ FilesTyped' /\ FileInv'
         /\ faults'[s] = 0 => files'[s].utf8 /\ Readable(files'[s]) = m
<1> DEFINE f == files[s]
           n == faults[s]
           saved == acked[s]
<1>1. /\ Safe(s, f, saved, n) /\ n \in Nat
      /\ n <= allFaults /\ allFaults \in 0..MaxFaults /\ allFaults \in Int
      /\ saved \in SUBSET (Sessions \cup Nat)
  BY StoreAssumption DEF FilesTyped, FileInv
<1>2. CASE RewriteDone(s, m)
  <2> DEFINE g == [lines |-> m, open |-> FALSE, utf8 |-> TRUE]
             ids == Ids(m)
  <2>1. /\ files' = [files EXCEPT ![s] = g] /\ acked' = [acked EXCEPT ![s] = ids]
        /\ faults' = [faults EXCEPT ![s] = 0] /\ allFaults' = allFaults
    BY <1>2 DEF RewriteDone
  <2>2. ids \in SUBSET (Sessions \cup Nat)
    BY SavedIds
  <2>3. Safe(s, g, ids, 0)
    BY SafeRewrite
  <2>4. files'[s] = g
    BY <2>1 DEF FilesTyped
  <2>5. g.utf8 /\ Readable(g) = m
    BY ParsedAll DEF Readable
  <2>6. 0 \in 0..MaxFaults /\ 0 <= allFaults' /\ allFaults' \in 0..MaxFaults /\ allFaults <= allFaults'
    BY <1>1, <2>1, StoreAssumption
  <2> HIDE DEF g, ids
  <2>7. FilesTyped' /\ FileInv'
    BY <1>1, <2>1, <2>2, <2>3, <2>6, OneFile
  <2> QED BY <2>4, <2>5, <2>7
<1>3. CASE RewriteFails(s)
  <2>1. Fault(s) /\ acked' = [acked EXCEPT ![s] = saved] /\ files' = [files EXCEPT ![s] = f]
    BY <1>3 DEF RewriteFails, FilesTyped
  <2>2. Safe(s, f, saved, n + 1)
    BY <1>1, SafeFault
  <2>3. /\ n + 1 \in 0..MaxFaults /\ n + 1 <= allFaults'
        /\ faults' = [faults EXCEPT ![s] = n + 1] /\ faults'[s] # 0
        /\ allFaults' \in 0..MaxFaults /\ allFaults <= allFaults'
    BY <2>1, CountFaults
  <2> HIDE DEF f, n, saved
  <2>4. FilesTyped' /\ FileInv'
    BY <1>1, <2>1, <2>2, <2>3, OneFile
  <2> QED BY <2>3, <2>4
<1> QED BY <1>2, <1>3 DEF Rewrite

-----------------------------------------------------------------------------
(* The entries in memory.                                                  *)

LEMMA ContextTyped ==
  \A m \in Seq(Entry) : Context(m) \in Seq(Entry)
BY ScanSteps DEF Context, ScanStates

\* What an action has to establish besides the files.
LEMMA Restored ==
  ASSUME FilesTyped', FileInv', mem' \in Seq(Entry), path' \in Sessions \cup {0},
         sid' \in Sessions \cup {0}, created' \in BOOLEAN, next' \in 0..MaxEntries,
         cache' = Context(mem'), Wellformed(mem'), mem' # <<>> => IsHeader(mem'[1]),
         created' => path' # 0,
         path' # 0 => mem' # <<>> /\ IsHeader(mem'[1]) /\ mem'[1].id = path' /\ sid' = path',
         path' # 0 /\ faults'[path'] = 0 => files'[path'].utf8 /\ Readable(files'[path']) = mem'
  PROVE  Inv'
<1>1. cache' \in Seq(Entry)
  BY ContextTyped
<1>2. files' \in [Sessions -> [lines : Seq(Entry \cup {Bad}), open : BOOLEAN, utf8 : BOOLEAN]]
  BY DEF FilesTyped, File, Line
<1>3. TypeOK'
  BY <1>1, <1>2 DEF TypeOK, FilesTyped
<1>4. OwnHeader' /\ CacheFresh' /\ DiskMatchesMemory'
  BY DEF OwnHeader, CacheFresh, DiskMatchesMemory
<1> QED BY <1>3, <1>4 DEF Inv, StoreInv, CopiesAgree

LEMMA InvFacts ==
  ASSUME Inv
  PROVE  /\ FilesTyped /\ FileInv /\ mem \in Seq(Entry) /\ path \in Sessions \cup {0}
         /\ sid \in Sessions \cup {0} /\ created \in BOOLEAN /\ next \in 0..MaxEntries
         /\ cache = Context(mem) /\ Wellformed(mem) /\ (mem # <<>> => IsHeader(mem[1]))
         /\ created => path # 0
         /\ path # 0 => path \in Sessions /\ mem # <<>> /\ IsHeader(mem[1]) /\ mem[1].id = path
                        /\ sid = path
         /\ path # 0 /\ faults[path] = 0 => files[path].utf8 /\ Readable(files[path]) = mem
<1>1. TypeOK /\ FileInv /\ StoreInv
  BY DEF Inv
<1>2. FilesTyped
  BY <1>1, TypesOfFiles
<1>3. mem \in Seq(Entry) /\ path \in Sessions \cup {0} /\ sid \in Sessions \cup {0}
      /\ created \in BOOLEAN /\ next \in 0..MaxEntries
  BY <1>1 DEF TypeOK
<1>4. Wellformed(mem) /\ (mem # <<>> => IsHeader(mem[1])) /\ (created => path # 0)
      /\ OwnHeader /\ CacheFresh /\ DiskMatchesMemory
  BY <1>1 DEF StoreInv, CopiesAgree
<1>5. cache = Context(mem)
  BY <1>4 DEF CacheFresh
<1>6. path # 0 => mem # <<>> /\ IsHeader(mem[1]) /\ mem[1].id = path /\ sid = path
  BY <1>4 DEF OwnHeader
<1>7. path # 0 /\ faults[path] = 0 => files[path].utf8 /\ Readable(files[path]) = mem
  BY <1>4 DEF DiskMatchesMemory
<1> QED BY <1>1, <1>2, <1>3, <1>4, <1>5, <1>6, <1>7

\* An entry with a number goes to the end of a session that has its header.
LEMMA MemAppend ==
  ASSUME NEW m \in Seq(Entry), Wellformed(m), m # <<>>, IsHeader(m[1]),
         NEW e \in Entry, e.kind # "compaction", e.id \in Nat
  PROVE  LET a == Append(m, e)
         IN a \in Seq(Entry) /\ Wellformed(a) /\ a # <<>> /\ a[1] = m[1]
<1> DEFINE a == Append(m, e)
<1>1. Wellformed(a)
  BY WellformedAppend
<1>2. m \in Seq(Line) /\ e \in Line
  BY LineSeqs
<1>3. a \in Seq(Entry)
  BY EntrySeqs
<1>4. a # <<>> /\ Len(m) >= 1 /\ Len(m) \in Nat
  BY <1>2, LineSeqs
<1>5. a[1] = m[1]
  BY <1>4, EntrySeqs
<1> QED BY <1>1, <1>3, <1>4, <1>5

\* Setting a mark changes nothing that the invariant is about.
LEMMA MarkSet ==
  ASSUME NEW m \in Seq(Entry), Wellformed(m), NEW i \in DOMAIN m, NEW b \in BOOLEAN
  PROVE  LET w == [m EXCEPT ![i].mark = b]
         IN /\ w \in Seq(Entry) /\ Len(w) = Len(m) /\ Wellformed(w) /\ w # <<>>
            /\ \A j \in 1..Len(m) :
                 /\ w[j].kind = m[j].kind /\ w[j].id = m[j].id
                 /\ j # i => w[j] = m[j]
<1> DEFINE e == [m[i] EXCEPT !.mark = b]
           w == [m EXCEPT ![i] = e]
<1>1. Len(m) \in Nat /\ i \in 1..Len(m) /\ m[i] \in Entry /\ \A j \in 1..Len(m) : m[j] \in Entry
  BY EntrySeqs
<1>2. e \in Entry /\ e.kind = m[i].kind /\ e.id = m[i].id /\ e.kept = m[i].kept
  BY <1>1 DEF Entry
<1>3. /\ w \in Seq(Entry) /\ Len(w) = Len(m)
      /\ \A j \in 1..Len(m) : w[j] = IF j = i THEN e ELSE m[j]
  <2> DEFINE X == Entry
  <2>1. m \in Seq(X) /\ e \in X
    BY <1>2
  <2>2. i \in 1..Len(m)
    BY <1>1
  <2> HIDE DEF X, e
  <2>3. /\ [m EXCEPT ![i] = e] \in Seq(X) /\ Len([m EXCEPT ![i] = e]) = Len(m)
        /\ \A j \in 1..Len(m) : [m EXCEPT ![i] = e][j] = IF j = i THEN e ELSE m[j]
    BY <2>1, <2>2, ExceptSeq
  <2> QED BY <2>3 DEF X
<1>4. w # <<>>
  <2>1. Len(<<>>) = 0
    OBVIOUS
  <2> HIDE DEF w
  <2> QED BY <1>1, <1>3, <2>1
<1> HIDE DEF w, e
<1>5. \A j \in 1..Len(m) : w[j].kind = m[j].kind /\ w[j].id = m[j].id /\ w[j].kept = m[j].kept
                            /\ (j # i => w[j] = m[j])
  BY <1>2, <1>3
<1>6. Wellformed(w)
  <2>1. ASSUME NEW j \in 1..Len(w), w[j].kind = "compaction"
        PROVE  j = 2 /\ (w[2].kept # 0 => Len(w) >= 3 /\ w[3].id = w[2].kept)
    <3>1. m[j].kind = "compaction" /\ j \in 1..Len(m)
      BY <1>3, <1>5, <2>1
    <3>2. j = 2 /\ (m[2].kept # 0 => Len(m) >= 3 /\ m[3].id = m[2].kept)
      BY <3>1 DEF Wellformed
    <3>3. w[2].kept = m[2].kept /\ (Len(m) >= 3 => w[3].id = m[3].id)
      BY <1>1, <1>5, <3>1, <3>2
    <3> QED BY <1>3, <3>2, <3>3
  <2>2. \A j \in 2..Len(w) : w[j].id \in Nat
    BY <1>1, <1>3, <1>5 DEF Wellformed
  <2> QED BY <2>1, <2>2 DEF Wellformed
<1>7. w = [m EXCEPT ![i].mark = b]
  BY <1>1 DEF w, e
<1> QED BY <1>3, <1>4, <1>5, <1>6, <1>7

\* The entries that are no messages at the front of a session do not matter.
LEMMA MessagesAfter ==
  ASSUME NEW m \in Seq(Entry), m # <<>>, ~IsMessage(m[1])
  PROVE  /\ Messages(m) = Messages(SubSeq(m, 1 + 1, Len(m)))
         /\ Len(m) >= 2 /\ ~IsMessage(m[2]) => Messages(m) = Messages(SubSeq(m, 2 + 1, Len(m)))
<1> DEFINE X == Entry
           Pre(k) == SubSeq(m, 1, k)
           Post(k) == SubSeq(m, k + 1, Len(m))
<1>1. m \in Seq(X) /\ \A s \in Seq(X) : Messages(s) \in Seq(X)
  BY MessagesSteps
<1>2. m[1] \in X /\ 1 \in 1..Len(m) /\ Len(m) \in Nat /\ (Len(m) >= 2 => m[2] \in X /\ 2 \in 1..Len(m))
  <2> HIDE DEF X
  <2> QED BY <1>1
<1>3. ASSUME NEW k \in 0..Len(m) PROVE Pre(k) \in Seq(X) /\ Post(k) \in Seq(X) /\ m = Pre(k) \o Post(k)
  <2> HIDE DEF X
  <2> QED BY <1>1, Parts
<1>4. ASSUME NEW k \in 1..Len(m) PROVE Pre(0) = <<>> /\ Pre(k) = Append(Pre(k - 1), m[k])
  <2> HIDE DEF X
  <2> QED BY <1>1, FirstParts
<1> HIDE DEF Pre, Post
<1>5. ASSUME NEW k \in 0..Len(m), Messages(Pre(k)) = <<>> PROVE Messages(m) = Messages(Post(k))
  <2>1. Pre(k) \in Seq(X) /\ Post(k) \in Seq(X) /\ m = Pre(k) \o Post(k)
    BY <1>3
  <2>2. Messages(Pre(k) \o Post(k)) = Messages(Pre(k)) \o Messages(Post(k))
    BY <2>1, MessagesConcat
  <2>3. Messages(Post(k)) \in Seq(X)
    BY <1>1, <2>1
  <2> HIDE DEF X
  <2>4. <<>> \o Messages(Post(k)) = Messages(Post(k))
    BY <2>3, ConcatEmptySeq
  <2> QED BY <1>5, <2>1, <2>2, <2>4
<1>6. \A s \in Seq(X) : \A e \in X : ~IsMessage(e) => Messages(Append(s, e)) = Messages(s)
  BY MessagesSteps
<1>7. Messages(Pre(0)) = <<>>
  BY <1>2, <1>4, MessagesSteps
<1> HIDE DEF X
<1>8. Messages(Pre(1)) = <<>>
  <2>1. Pre(1) = Append(Pre(0), m[1])
    BY <1>2, <1>4
  <2>2. Pre(0) \in Seq(X)
    BY <1>2, <1>3
  <2> QED BY <1>2, <1>6, <1>7, <2>1, <2>2
<1>9. Len(m) >= 2 /\ ~IsMessage(m[2]) => Messages(Pre(2)) = <<>>
  <2> SUFFICES ASSUME Len(m) >= 2, ~IsMessage(m[2]) PROVE Messages(Pre(2)) = <<>>
    OBVIOUS
  <2>1. Pre(2) = Append(Pre(1), m[2])
    BY <1>2, <1>4
  <2>2. Pre(1) \in Seq(X)
    BY <1>2, <1>3
  <2> QED BY <1>2, <1>6, <1>8, <2>1, <2>2
<1>10. 1 \in 0..Len(m) /\ (Len(m) >= 2 => 2 \in 0..Len(m))
  BY <1>2
<1> QED BY <1>5, <1>8, <1>9, <1>10 DEF Post

\* The header's mark is no part of the context.
LEMMA HeaderMark ==
  ASSUME NEW m \in Seq(Entry), Wellformed(m), m # <<>>, IsHeader(m[1])
  PROVE  LET w == [m EXCEPT ![1].mark = TRUE]
         IN /\ Context(w) = Context(m)
            /\ w \in Seq(Entry) /\ Wellformed(w) /\ w # <<>>
            /\ IsHeader(w[1]) /\ w[1].id = m[1].id
<1> DEFINE w == [m EXCEPT ![1].mark = TRUE]
<1>1. 1 \in DOMAIN m /\ Len(m) \in Nat /\ Len(m) >= 1
  <2> DEFINE X == Entry
  <2>1. m \in Seq(X)
    OBVIOUS
  <2> HIDE DEF X
  <2> QED BY <2>1
<1>2. /\ w \in Seq(Entry) /\ Len(w) = Len(m) /\ Wellformed(w) /\ w # <<>>
      /\ \A j \in 1..Len(m) : w[j].kind = m[j].kind /\ w[j].id = m[j].id /\ (j # 1 => w[j] = m[j])
  <2> DEFINE i == 1
             b == TRUE
  <2>1. i \in DOMAIN m /\ b \in BOOLEAN
    BY <1>1
  <2> HIDE DEF w, i, b
  <2>2. LET v == [m EXCEPT ![i].mark = b]
        IN /\ v \in Seq(Entry) /\ Len(v) = Len(m) /\ Wellformed(v) /\ v # <<>>
           /\ \A j \in 1..Len(m) :
                /\ v[j].kind = m[j].kind /\ v[j].id = m[j].id
                /\ j # i => v[j] = m[j]
    BY <2>1, MarkSet
  <2>3. w = [m EXCEPT ![i].mark = b]
    BY DEF w, i, b
  <2> QED BY <2>2, <2>3 DEF i
<1> HIDE DEF w
<1>3. ~IsMessage(m[1]) /\ ~IsMessage(w[1])
  BY <1>1, <1>2 DEF IsMessage, IsHeader
<1>4. Context(m) = Opening(m) \o Messages(m) /\ Context(w) = Opening(w) \o Messages(w)
  BY <1>2, <1>3, ContextForm
<1>5. Opening(m) = Opening(w)
  <2>1. Len(m) >= 2 => w[2] = m[2]
    BY <1>1, <1>2
  <2> QED BY <1>1, <1>2, <2>1 DEF Opening, HasSummary
<1>6. SubSeq(m, 1 + 1, Len(m)) = SubSeq(w, 1 + 1, Len(w))
  <2> DEFINE X == Entry
             k == 1
             a == SubSeq(m, k + 1, Len(m))
             b == SubSeq(w, k + 1, Len(w))
  <2>1. m \in Seq(X) /\ w \in Seq(X) /\ k \in 0..Len(m) /\ k \in 0..Len(w)
    BY <1>1, <1>2
  <2> HIDE DEF X, k
  <2>2. a \in Seq(X) /\ Len(a) = Len(m) - k /\ \A i \in 1..(Len(m) - k) : a[i] = m[k + i]
    BY <2>1, Parts
  <2>3. b \in Seq(X) /\ Len(b) = Len(w) - k /\ \A i \in 1..(Len(w) - k) : b[i] = w[k + i]
    BY <2>1, Parts
  <2> HIDE DEF a, b
  <2>4. \A i \in 1..Len(a) : a[i] = b[i]
    <3> SUFFICES ASSUME NEW i \in 1..Len(a) PROVE a[i] = b[i]
      OBVIOUS
    <3>1. Len(m) \in Nat /\ k = 1 /\ i \in Nat /\ i >= 1
      BY <2>1, <2>2 DEF k
    <3>2. k + i \in 1..Len(m) /\ k + i # 1 /\ i \in 1..(Len(m) - k) /\ i \in 1..(Len(w) - k)
      BY <1>2, <2>2, <3>1
    <3>3. w[k + i] = m[k + i]
      BY <1>2, <3>2
    <3> QED BY <2>2, <2>3, <3>2, <3>3
  <2>5. a = b
    BY <1>2, <2>2, <2>3, <2>4, SeqEqual
  <2> QED BY <2>5 DEF a, b, k
<1>7. Messages(m) = Messages(w)
  BY <1>2, <1>3, <1>6, MessagesAfter
<1>8. IsHeader(w[1]) /\ w[1].id = m[1].id
  BY <1>1, <1>2 DEF IsHeader
<1>9. Context(w) = Context(m)
  BY <1>4, <1>5, <1>7
<1> QED BY <1>2, <1>8, <1>9 DEF w

-----------------------------------------------------------------------------
(* Compaction.                                                             *)

\* What the next compaction may drop starts after the header.
LEMMA LiveStartBound ==
  ASSUME NEW m \in Seq(Entry), Wellformed(m), m # <<>>, m[1].id \in Sessions
  PROVE  LiveStart(m) \in Nat /\ LiveStart(m) >= 2
<1> DEFINE comps == {i \in DOMAIN m : m[i].kind = "compaction"}
           last == CHOOSE i \in comps : \A j \in comps : j <= i
           kept == {i \in DOMAIN m : m[i].id = m[last].kept}
           first == CHOOSE i \in kept : \A j \in kept : i <= j
<1>1. LiveStart(m) = CASE comps = {} -> 2
                       [] comps # {} /\ (m[last].kept = 0 \/ kept = {}) -> last + 1
                       [] OTHER -> first
  BY DEF LiveStart
<1>2. DOMAIN m = 1..Len(m) /\ Len(m) \in Nat /\ \A i \in 1..Len(m) : m[i] \in Entry
  BY EntrySeqs
<1>3. comps # {} => comps = {2}
  BY <1>2 DEF Wellformed
<1>4. comps # {} => last = 2 /\ 2 \in 1..Len(m)
  <2> SUFFICES ASSUME comps # {} PROVE last = 2 /\ 2 \in 1..Len(m)
    OBVIOUS
  <2>1. comps = {2} /\ 2 \in 1..Len(m)
    BY <1>2, <1>3
  <2> HIDE DEF comps
  <2>2. \E i \in comps : \A j \in comps : j <= i
    BY <2>1
  <2>3. last \in comps
    BY <2>2
  <2> QED BY <2>1, <2>3
<1>5. ASSUME comps # {}, m[last].kept # 0, kept # {} PROVE first \in Nat /\ first >= 2
  <2>1. last = 2 /\ m[2].kept # 0 /\ m[2].kind = "compaction" /\ 2 \in 1..Len(m)
    BY <1>2, <1>3, <1>4, <1>5
  <2>2. Len(m) >= 3 /\ m[3].id = m[2].kept
    BY <2>1 DEF Wellformed
  <2>3. kept = {i \in 1..Len(m) : m[i].id = m[2].kept}
    BY <1>2, <2>1
  <2>4. m[2].kept \notin Sessions
    BY <1>2, <2>1, LineFacts
  <2> HIDE DEF kept, last, comps
  <2>5. 3 \in kept /\ 1 \notin kept /\ kept \subseteq 1..Len(m)
    BY <1>2, <2>2, <2>3, <2>4
  <2>6. \E i \in kept : \A j \in kept : i <= j
    <3>1. CASE 2 \in kept
      BY <2>5, <3>1
    <3>2. CASE 2 \notin kept
      BY <2>5, <3>2
    <3> QED BY <3>1, <3>2
  <2>7. first \in kept
    BY <2>6
  <2> HIDE DEF first
  <2> QED BY <1>2, <2>5, <2>7
<1> HIDE DEF comps, last, kept, first
<1>6. CASE comps = {}
  BY <1>1, <1>6
<1>7. CASE comps # {} /\ (m[last].kept = 0 \/ kept = {})
  <2>1. LiveStart(m) = last + 1
    BY <1>1, <1>7
  <2> QED BY <1>4, <1>7, <2>1
<1>8. CASE comps # {} /\ m[last].kept # 0 /\ kept # {}
  <2>1. LiveStart(m) = first
    BY <1>1, <1>8
  <2> QED BY <1>5, <1>8, <2>1
<1> QED BY <1>6, <1>7, <1>8

\* The entries after a compaction that cuts behind the header, where c is the
\* summary: well formed when c names the first entry that is kept.
LEMMA CompactedForm ==
  ASSUME NEW m \in Seq(Entry), Wellformed(m), m # <<>>, IsHeader(m[1]),
         NEW cut \in 3..(Len(m) + 1),
         NEW c \in Entry, c.kind = "compaction", c.id \in Nat,
         c.kept = IF cut <= Len(m) THEN m[cut].id ELSE 0
  PROVE  LET w == <<m[1], c>> \o SubSeq(m, cut, Len(m))
         IN /\ w \in Seq(Entry) /\ Wellformed(w) /\ w # <<>> /\ w[1] = m[1] /\ w[2] = c
            /\ Len(w) >= 2
            /\ SubSeq(w, 3, Len(w)) = SubSeq(m, cut, Len(m))
<1> DEFINE X == Entry
           t == SubSeq(m, cut, Len(m))
           h == <<m[1], c>>
           w == h \o t
           k == cut - 1
<1>1. m \in Seq(X) /\ c \in X
  OBVIOUS
<1>2. Len(m) \in Nat /\ Len(m) >= 1 /\ \A i \in 1..Len(m) : m[i] \in X
  <2> HIDE DEF X
  <2> QED BY <1>1
<1>3. k \in 0..Len(m) /\ k + 1 = cut
  BY <1>2
<1>4. t \in Seq(X) /\ Len(t) = Len(m) - k /\ \A i \in 1..(Len(m) - k) : t[i] = m[k + i]
  <2> HIDE DEF X, k, t
  <2>1. /\ SubSeq(m, k + 1, Len(m)) \in Seq(X)
        /\ Len(SubSeq(m, k + 1, Len(m))) = Len(m) - k
        /\ \A i \in 1..(Len(m) - k) : SubSeq(m, k + 1, Len(m))[i] = m[k + i]
    BY <1>1, <1>3, Parts
  <2>2. SubSeq(m, k + 1, Len(m)) = t
    BY <1>3 DEF t
  <2> QED BY <2>1, <2>2
<1>5. h \in Seq(X) /\ Len(h) = 2 /\ h[1] = m[1] /\ h[2] = c
  <2>1. m[1] \in X
    BY <1>2
  <2> HIDE DEF X
  <2> QED BY <1>1, <2>1
<1> HIDE DEF h, t
<1>6. /\ w \in Seq(X) /\ Len(w) = 2 + Len(t)
      /\ \A i \in 1..(2 + Len(t)) : w[i] = IF i <= 2 THEN h[i] ELSE t[i - 2]
  <2> HIDE DEF X
  <2>1. /\ h \o t \in Seq(X) /\ Len(h \o t) = Len(h) + Len(t)
        /\ \A i \in 1..(Len(h) + Len(t)) :
             (h \o t)[i] = IF i <= Len(h) THEN h[i] ELSE t[i - Len(h)]
    BY <1>4, <1>5, ConcatProperties
  <2>2. Len(h) = 2
    BY <1>5
  <2> QED BY <2>1, <2>2
<1> HIDE DEF w
<1>7. /\ Len(w) \in Nat /\ Len(w) = 2 + (Len(m) - k) /\ Len(m) - k \in Nat
      /\ w[1] = m[1] /\ w[2] = c /\ \A i \in 3..Len(w) : w[i] = m[k + (i - 2)]
  <2>1. Len(w) = 2 + (Len(m) - k) /\ Len(m) - k \in Nat /\ Len(t) \in Nat
    BY <1>2, <1>3, <1>4, <1>6
  <2>2. w[1] = m[1] /\ w[2] = c
    BY <1>5, <1>6, <2>1
  <2>3. ASSUME NEW i \in 3..Len(w) PROVE w[i] = m[k + (i - 2)]
    <3>1. i \in 1..(2 + Len(t)) /\ ~(i <= 2) /\ i - 2 \in 1..(Len(m) - k)
      BY <1>4, <2>1
    <3> QED BY <1>4, <1>6, <3>1
  <2> QED BY <2>1, <2>2, <2>3
<1>8. ASSUME NEW i \in 3..Len(w) PROVE w[i].kind # "compaction" /\ w[i].id \in Nat
  <2>1. k + (i - 2) \in 3..Len(m) /\ w[i] = m[k + (i - 2)]
    BY <1>2, <1>3, <1>7
  <2> HIDE DEF k
  <2>2. \A j \in 3..Len(m) : m[j].kind # "compaction" /\ m[j].id \in Nat
    BY <1>2 DEF Wellformed
  <2> QED BY <2>1, <2>2
<1>9. m[1].kind # "compaction"
  BY DEF IsHeader
<1>10. c.kept # 0 => Len(w) >= 3 /\ w[3].id = c.kept
  <2> SUFFICES ASSUME c.kept # 0 PROVE Len(w) >= 3 /\ w[3].id = c.kept
    OBVIOUS
  <2>1. cut <= Len(m) /\ c.kept = m[cut].id
    OBVIOUS
  <2>2. Len(w) >= 3
    BY <1>2, <1>3, <1>7, <2>1
  <2>3. w[3] = m[k + (3 - 2)] /\ k + (3 - 2) = cut
    BY <1>3, <1>7, <2>2
  <2> QED BY <2>1, <2>2, <2>3
<1>11. Wellformed(w)
  <2>1. ASSUME NEW i \in 1..Len(w), w[i].kind = "compaction"
        PROVE  i = 2
    BY <1>7, <1>8, <1>9, <2>1
  <2>2. \A i \in 2..Len(w) : w[i].id \in Nat
    BY <1>7, <1>8
  <2> QED BY <1>7, <1>10, <2>1, <2>2 DEF Wellformed
<1>12. w # <<>> /\ Len(w) >= 2
  <2>1. Len(<<>>) = 0
    OBVIOUS
  <2> QED BY <1>7, <2>1
<1>13. SubSeq(w, 3, Len(w)) = t
  <2> DEFINE u == SubSeq(w, 3, Len(w))
  <2>1. 2 \in 0..Len(w)
    BY <1>7
  <2>2. u \in Seq(X) /\ Len(u) = Len(w) - 2 /\ \A i \in 1..(Len(w) - 2) : u[i] = w[2 + i]
    <3> HIDE DEF X, u
    <3>1. /\ SubSeq(w, 2 + 1, Len(w)) \in Seq(X)
          /\ Len(SubSeq(w, 2 + 1, Len(w))) = Len(w) - 2
          /\ \A i \in 1..(Len(w) - 2) : SubSeq(w, 2 + 1, Len(w))[i] = w[2 + i]
      BY <1>6, <2>1, Parts
    <3>2. SubSeq(w, 2 + 1, Len(w)) = u
      BY DEF u
    <3> QED BY <3>1, <3>2
  <2> HIDE DEF X, u, k
  <2>3. ASSUME NEW i \in 1..Len(u) PROVE u[i] = t[i]
    <3>1. i \in 1..(Len(w) - 2) /\ 2 + i \in 3..Len(w) /\ i \in 1..(Len(m) - k)
          /\ k + ((2 + i) - 2) = k + i
      BY <1>3, <1>7, <2>2
    <3>2. u[i] = w[2 + i] /\ w[2 + i] = m[k + ((2 + i) - 2)] /\ t[i] = m[k + i]
      BY <1>4, <1>7, <2>2, <3>1
    <3> QED BY <3>1, <3>2
  <2>4. Len(u) = Len(t)
    BY <1>4, <1>7, <2>2
  <2>5. u = t
    BY <1>4, <2>2, <2>3, <2>4, SeqEqual
  <2> QED BY <2>5 DEF u
<1> QED BY <1>6, <1>7, <1>11, <1>12, <1>13 DEF w, h, t

\* What apply_compaction makes of the entries in memory.
LEMMA CompactionStep ==
  ASSUME Inv, NEW cut \in 2..(Len(mem) + 1), ApplyCompaction(cut)
  PROVE  /\ path \in Sessions /\ mem \in Seq(Entry) /\ Wellformed(mem)
         /\ mem # <<>> /\ IsHeader(mem[1]) /\ mem[1].id = path /\ sid = path
         /\ cut \in 3..(Len(mem) + 1)
         /\ mem' \in Seq(Entry) /\ Wellformed(mem') /\ mem' # <<>> /\ mem'[1] = mem[1]
         /\ Len(mem') >= 2 /\ mem'[2].kind = "compaction"
         /\ SubSeq(mem', 3, Len(mem')) = SubSeq(mem, cut, Len(mem))
<1>1. /\ path \in Sessions /\ mem \in Seq(Entry) /\ Wellformed(mem)
      /\ mem # <<>> /\ IsHeader(mem[1]) /\ mem[1].id = path /\ sid = path
      /\ next \in 0..MaxEntries
  BY InvFacts DEF ApplyCompaction
<1>2. LiveStart(mem) \in Nat /\ LiveStart(mem) >= 2
  BY <1>1, LiveStartBound
<1>3. Len(mem) \in Nat /\ \A i \in 1..Len(mem) : mem[i] \in Entry
  BY <1>1, EntrySeqs
<1>4. cut \in 3..(Len(mem) + 1)
  BY <1>2, <1>3 DEF ApplyCompaction
<1> DEFINE kept == IF cut <= Len(mem) THEN mem[cut].id ELSE 0
           c == [Plain("compaction", next + 1) EXCEPT !.kept = kept]
<1>5. kept \in Nat
  BY <1>1, <1>3, <1>4 DEF Wellformed
<1>6. next + 1 \in Nat
  BY <1>1, StoreAssumption
<1>7. mem' = <<mem[1], c>> \o SubSeq(mem, cut, Len(mem))
  BY DEF ApplyCompaction, Compacted
<1> HIDE DEF kept
<1>8. c \in Entry /\ c.kind = "compaction" /\ c.id \in Nat /\ c.kept = kept
  BY <1>5, <1>6 DEF Plain, Entry
<1> HIDE DEF c
<1>9. LET w == <<mem[1], c>> \o SubSeq(mem, cut, Len(mem))
      IN /\ w \in Seq(Entry) /\ Wellformed(w) /\ w # <<>> /\ w[1] = mem[1] /\ w[2] = c
         /\ Len(w) >= 2
         /\ SubSeq(w, 3, Len(w)) = SubSeq(mem, cut, Len(mem))
  <2>1. c.kept = IF cut <= Len(mem) THEN mem[cut].id ELSE 0
    BY <1>8 DEF kept
  <2> QED BY <1>1, <1>4, <1>8, <2>1, CompactedForm
<1> QED BY <1>1, <1>4, <1>7, <1>8, <1>9

-----------------------------------------------------------------------------
(* Every action keeps the invariant.                                       *)

LEMMA InitKeeps == Init => Inv
<1> SUFFICES ASSUME Init PROVE Inv
  OBVIOUS
<1>1. /\ mem = <<>> /\ path = 0 /\ sid = 0 /\ cache = <<>> /\ created = FALSE /\ next = 0
      /\ files = [s \in Sessions |-> NoFile] /\ acked = [s \in Sessions |-> {}]
      /\ faults = [s \in Sessions |-> 0] /\ allFaults = 0
  BY DEF Init
<1>2. NoFile \in File
  BY SafeEmpty DEF Safe
<1>3. FilesTyped
  <2>1. 0 \in 0..MaxFaults
    BY StoreAssumption
  <2>2. files \in [Sessions -> File]
    BY <1>1, <1>2
  <2> QED BY <1>1, <2>1, <2>2 DEF FilesTyped
<1>4. FileInv
  <2> SUFFICES ASSUME NEW s \in Sessions
               PROVE  Safe(s, files[s], acked[s], faults[s]) /\ faults[s] <= allFaults
    BY DEF FileInv
  <2>1. files[s] = NoFile /\ acked[s] = {} /\ faults[s] = 0
    BY <1>1
  <2>2. Safe(s, NoFile, {}, 0)
    BY SafeEmpty
  <2>3. Safe(s, files[s], acked[s], faults[s])
    BY <2>1, <2>2
  <2> QED BY <1>1, <2>1, <2>3
<1>5. mem \in Seq(Entry) /\ cache \in Seq(Entry) /\ next \in 0..MaxEntries
  BY <1>1, EntrySeqs, StoreAssumption
<1>6. TypeOK
  BY <1>1, <1>3, <1>5 DEF TypeOK, FilesTyped, File, Line
<1>7. Wellformed(mem) /\ Context(mem) = <<>>
  BY <1>1, WellformedEmpty, ScanSteps DEF Context, Nothing
<1>8. StoreInv
  BY <1>1, <1>7 DEF StoreInv, CopiesAgree, OwnHeader, CacheFresh, DiskMatchesMemory
<1> QED BY <1>4, <1>6, <1>8 DEF Inv

LEMMA CreateKeeps ==
  ASSUME Inv, NEW s \in Sessions, CreateSession(s)
  PROVE  Inv'
<1> DEFINE e == Header(s)
<1>1. /\ FilesTyped /\ FileInv /\ path \in Sessions \cup {0} /\ sid \in Sessions \cup {0}
      /\ created \in BOOLEAN /\ next \in 0..MaxEntries /\ (created => path # 0)
  BY InvFacts
<1>2. /\ path = 0 /\ files[s] = NoFile /\ mem' = <<e>> /\ cache' = <<>> /\ next' = next
      /\ \/ AppendToDisk(s, e) /\ path' = s /\ sid' = s /\ created' = TRUE
         \/ AppendFails(s, e) /\ path' = path /\ sid' = sid /\ created' = created
  BY DEF CreateSession
<1>3. e \in Entry /\ e.id = s /\ e.kind = "session"
  BY LineFacts
<1>4. Fits(s, files[s], e)
  BY <1>2, <1>3 DEF Fits, NoFile
<1> HIDE DEF e
<1>5. FilesTyped' /\ FileInv'
      /\ (faults'[s] = 0 => files'[s].utf8 /\ Readable(files'[s]) = Append(Readable(files[s]), e))
  BY <1>1, <1>2, <1>4, AppendKeeps
<1>6. Readable(files[s]) = <<>>
  BY <1>2, ParsedSteps DEF Readable, NoFile
<1>7. /\ <<e>> \in Seq(Entry) /\ <<e>> = Append(<<>>, e) /\ <<e>> # <<>> /\ <<e>>[1] = e
  BY <1>3, EntrySeqs
<1>8. Wellformed(<<e>>)
  <2>1. Len(<<e>>) = 1
    OBVIOUS
  <2> QED BY <1>3, <1>7, <2>1 DEF Wellformed
<1>9. Context(<<e>>) = <<>>
  <2>1. Scan(<<e>>) = ContextStep(Nothing, e)
    BY <1>3, <1>7, EntrySeqs, ScanSteps
  <2>2. ContextStep(Nothing, e) = [Nothing EXCEPT !.skip = 0]
    BY <1>3 DEF ContextStep, Nothing, IsMessage
  <2>3. [Nothing EXCEPT !.skip = 0].out = <<>>
    BY DEF Nothing
  <2> QED BY <2>1, <2>2, <2>3 DEF Context
<1>10. IsHeader(e) /\ mem'[1] = e
  BY <1>2, <1>3, <1>7 DEF IsHeader
<1>11. mem' \in Seq(Entry) /\ Wellformed(mem') /\ cache' = Context(mem')
       /\ mem' # <<>> /\ IsHeader(mem'[1]) /\ mem'[1].id = s
  BY <1>2, <1>3, <1>7, <1>8, <1>9, <1>10
<1>12. path' \in Sessions \cup {0} /\ sid' \in Sessions \cup {0} /\ created' \in BOOLEAN
       /\ (created' => path' # 0) /\ (path' # 0 => path' = s /\ sid' = s)
  <2>0. s # 0
    BY LineFacts
  <2>1. CASE path' = s /\ sid' = s /\ created' = TRUE
    BY <2>0, <2>1
  <2>2. CASE path' = path /\ sid' = sid /\ created' = created
    BY <1>1, <1>2, <2>2
  <2> QED BY <1>2, <2>1, <2>2
<1>13. path' # 0 /\ faults'[path'] = 0 => files'[path'].utf8 /\ Readable(files'[path']) = mem'
  BY <1>2, <1>5, <1>6, <1>7, <1>12
<1> QED BY <1>1, <1>2, <1>5, <1>11, <1>12, <1>13, Restored

\* append_message and save_token_rate: an entry of the active session.
LEMMA EntryAppended ==
  ASSUME Inv, path # 0, NEW e \in Entry, e.kind \in {"talk", "tool", "custom"}, e.id \in Nat,
         mem' = Append(mem, e), AppendToDisk(path, e) \/ AppendFails(path, e),
         cache' = Context(mem'), path' = path, sid' = sid, created' \in BOOLEAN,
         next' \in 0..MaxEntries
  PROVE  Inv'
<1>1. /\ FilesTyped /\ FileInv /\ path \in Sessions /\ mem \in Seq(Entry) /\ Wellformed(mem)
      /\ mem # <<>> /\ IsHeader(mem[1]) /\ mem[1].id = path /\ sid = path
      /\ (faults[path] = 0 => Readable(files[path]) = mem)
  BY InvFacts
<1>2. e.kind # "compaction" /\ e.kind # "session"
  OBVIOUS
<1>3. Fits(path, files[path], e)
  BY <1>2 DEF Fits
<1>4. FilesTyped' /\ FileInv'
      /\ (faults'[path] = 0 => /\ faults[path] = 0 /\ files'[path].utf8
                               /\ Readable(files'[path]) = Append(Readable(files[path]), e))
  BY <1>1, <1>3, AppendKeeps
<1>5. mem' \in Seq(Entry) /\ Wellformed(mem') /\ mem' # <<>> /\ mem'[1] = mem[1]
  BY <1>1, <1>2, MemAppend
<1>6. path' # 0 /\ faults'[path'] = 0 => files'[path'].utf8 /\ Readable(files'[path']) = mem'
  BY <1>1, <1>4
<1>7. path' \in Sessions \cup {0} /\ sid' \in Sessions \cup {0} /\ path' # 0
      /\ IsHeader(mem'[1]) /\ mem'[1].id = path' /\ sid' = path'
  BY <1>1, <1>5
<1> QED BY <1>4, <1>5, <1>6, <1>7, Restored

LEMMA MessageKeeps ==
  ASSUME Inv, NEW kind \in {"talk", "tool"}, NEW image \in BOOLEAN, AppendMessage(kind, image)
  PROVE  Inv'
<1> DEFINE e == [Plain(kind, next + 1) EXCEPT !.mark = image]
<1>1. next \in 0..MaxEntries /\ next < MaxEntries
  BY InvFacts DEF AppendMessage
<1>2. next + 1 \in Nat /\ next + 1 \in 0..MaxEntries
  BY <1>1, StoreAssumption
<1>3. e \in Entry /\ e.kind = kind /\ e.id = next + 1
  BY <1>2 DEF Plain, Entry
<1>4. /\ path # 0 /\ mem' = Append(mem, e) /\ (AppendToDisk(path, e) \/ AppendFails(path, e))
      /\ cache' = Context(mem') /\ next' = next + 1 /\ created' = FALSE
      /\ path' = path /\ sid' = sid
  BY DEF AppendMessage
<1> HIDE DEF e
<1>5. e.kind \in {"talk", "tool", "custom"} /\ e.id \in Nat
  BY <1>2, <1>3
<1>6. created' \in BOOLEAN /\ next' \in 0..MaxEntries
  BY <1>2, <1>4
<1> QED BY <1>3, <1>4, <1>5, <1>6, EntryAppended

\* The entry with the token rate is no part of the context.
LEMMA CustomIgnored ==
  ASSUME NEW m \in Seq(Entry), NEW e \in Entry, e.kind = "custom"
  PROVE  Context(Append(m, e)) = Context(m)
<1>1. Scan(Append(m, e)) = ContextStep(Scan(m), e) /\ Scan(m) \in ScanStates
  BY ScanSteps
<1>2. \A s \in ScanStates : ContextStep(s, e).out = s.out
  <2> TAKE s \in ScanStates
  <2>1. CASE s.skip # 0 /\ e.id # s.skip
    BY <2>1 DEF ContextStep
  <2>2. CASE ~(s.skip # 0 /\ e.id # s.skip)
    <3>1. ContextStep(s, e) = [s EXCEPT !.skip = 0]
      BY <2>2 DEF ContextStep, IsMessage
    <3>2. [s EXCEPT !.skip = 0].out = s.out
      BY DEF ScanStates
    <3> QED BY <3>1, <3>2
  <2> QED BY <2>1, <2>2
<1> QED BY <1>1, <1>2 DEF Context

LEMMA RateKeeps ==
  ASSUME Inv, SaveTokenRate
  PROVE  Inv'
<1> DEFINE e == Plain("custom", 0)
<1>1. next \in 0..MaxEntries /\ next < MaxEntries /\ cache = Context(mem) /\ created \in BOOLEAN
      /\ mem \in Seq(Entry)
  BY InvFacts DEF SaveTokenRate
<1>2. next + 1 \in 0..MaxEntries
  BY <1>1, StoreAssumption
<1>3. e \in Entry /\ e.kind = "custom" /\ e.id = 0
  BY DEF Plain, Entry
<1>4. /\ path # 0 /\ mem' = Append(mem, e) /\ (AppendToDisk(path, e) \/ AppendFails(path, e))
      /\ cache' = cache /\ next' = next + 1 /\ created' = created /\ path' = path /\ sid' = sid
  BY DEF SaveTokenRate
<1> HIDE DEF e
<1>5. e.kind \in {"talk", "tool", "custom"} /\ e.id \in Nat
  BY <1>3
<1>6. created' \in BOOLEAN /\ next' \in 0..MaxEntries
  BY <1>1, <1>2, <1>4
<1>7. cache' = Context(mem')
  <2>1. Context(Append(mem, e)) = Context(mem)
    BY <1>1, <1>3, CustomIgnored
  <2> QED BY <1>1, <1>4, <2>1
<1> QED BY <1>3, <1>4, <1>5, <1>6, <1>7, EntryAppended

\* strip_tool_images, add_activated_skill and apply_compaction: the entries of
\* the active session are replaced, in memory and then in its file.
LEMMA EntriesReplaced ==
  ASSUME Inv, path # 0, mem' \in Seq(Entry), Wellformed(mem'), mem' # <<>>,
         IsHeader(mem'[1]), mem'[1].id = path, Rewrite(path, mem'), cache' = Context(mem'),
         path' = path, sid' = sid, created' = created, next' \in 0..MaxEntries
  PROVE  Inv'
<1>1. /\ FilesTyped /\ FileInv /\ path \in Sessions /\ sid = path /\ created \in BOOLEAN
  BY InvFacts
<1>2. FilesTyped' /\ FileInv'
      /\ (faults'[path] = 0 => files'[path].utf8 /\ Readable(files'[path]) = mem')
  <2> DEFINE m == mem'
  <2>1. /\ m \in Seq(Entry) /\ Wellformed(m) /\ Rewrite(path, m)
        /\ (m # <<>> /\ m[1].kind = "session" => m[1].id = path)
    OBVIOUS
  <2> HIDE DEF m
  <2>2. FilesTyped' /\ FileInv'
        /\ (faults'[path] = 0 => files'[path].utf8 /\ Readable(files'[path]) = m)
    BY <1>1, <2>1, RewriteKeeps
  <2> QED BY <2>2 DEF m
<1>3. path' # 0 /\ faults'[path'] = 0 => files'[path'].utf8 /\ Readable(files'[path']) = mem'
  BY <1>2
<1>4. path' \in Sessions \cup {0} /\ sid' \in Sessions \cup {0} /\ path' # 0
      /\ mem'[1].id = path' /\ sid' = path' /\ created' \in BOOLEAN
  BY <1>1
<1> QED BY <1>2, <1>3, <1>4, Restored

LEMMA StripKeeps ==
  ASSUME Inv, NEW i \in DOMAIN mem, StripToolImages(i)
  PROVE  Inv'
<1>1. /\ path # 0 /\ mem' = [mem EXCEPT ![i].mark = FALSE] /\ cache' = Context(mem')
      /\ Rewrite(path, mem') /\ path' = path /\ sid' = sid /\ created' = created /\ next' = next
  BY DEF StripToolImages
<1>2. mem \in Seq(Entry) /\ Wellformed(mem) /\ mem # <<>> /\ IsHeader(mem[1]) /\ mem[1].id = path
      /\ next \in 0..MaxEntries
  BY <1>1, InvFacts
<1> DEFINE b == FALSE
<1>3. b \in BOOLEAN /\ mem' = [mem EXCEPT ![i].mark = b]
  BY <1>1
<1> HIDE DEF b
<1>4. LET w == [mem EXCEPT ![i].mark = b]
      IN /\ w \in Seq(Entry) /\ Len(w) = Len(mem) /\ Wellformed(w) /\ w # <<>>
         /\ \A j \in 1..Len(mem) :
              /\ w[j].kind = mem[j].kind /\ w[j].id = mem[j].id
              /\ j # i => w[j] = mem[j]
  <2>1. mem \in Seq(Entry) /\ Wellformed(mem) /\ b \in BOOLEAN
    BY <1>2, <1>3
  <2> QED BY <2>1, MarkSet
<1>5. 1 \in 1..Len(mem)
  <2> DEFINE X == Entry
  <2>1. mem \in Seq(X)
    BY <1>2
  <2> HIDE DEF X
  <2> QED BY <1>2, <2>1
<1>6. mem' \in Seq(Entry) /\ Wellformed(mem') /\ mem' # <<>> /\ mem'[1].kind = mem[1].kind
      /\ mem'[1].id = mem[1].id
  BY <1>3, <1>4, <1>5
<1>7. IsHeader(mem'[1]) /\ mem'[1].id = path
  BY <1>2, <1>6 DEF IsHeader
<1>8. next' \in 0..MaxEntries
  BY <1>1, <1>2
<1> QED BY <1>1, <1>6, <1>7, <1>8, EntriesReplaced

LEMMA SkillKeeps ==
  ASSUME Inv, AddActivatedSkill
  PROVE  Inv'
<1>1. /\ mem # <<>> /\ IsHeader(mem[1]) /\ mem' = [mem EXCEPT ![1].mark = TRUE]
      /\ cache' = cache /\ path' = path /\ sid' = sid /\ created' = created /\ next' = next
  BY DEF AddActivatedSkill
<1>2. /\ FilesTyped /\ FileInv /\ mem \in Seq(Entry) /\ Wellformed(mem)
      /\ cache = Context(mem) /\ next \in 0..MaxEntries /\ created \in BOOLEAN
      /\ path \in Sessions \cup {0} /\ sid \in Sessions \cup {0}
      /\ (created => path # 0) /\ (path # 0 => mem[1].id = path /\ sid = path)
  BY InvFacts
<1>3. LET w == [mem EXCEPT ![1].mark = TRUE]
      IN /\ Context(w) = Context(mem)
         /\ w \in Seq(Entry) /\ Wellformed(w) /\ w # <<>>
         /\ IsHeader(w[1]) /\ w[1].id = mem[1].id
  <2>1. mem \in Seq(Entry) /\ Wellformed(mem) /\ mem # <<>> /\ IsHeader(mem[1])
    BY <1>1, <1>2
  <2> QED BY <2>1, HeaderMark
<1>6. mem' \in Seq(Entry) /\ Wellformed(mem') /\ mem' # <<>> /\ IsHeader(mem'[1])
      /\ mem'[1].id = mem[1].id
  BY <1>1, <1>3
<1>8. cache' = Context(mem')
  BY <1>1, <1>2, <1>3
<1>9. CASE path # 0
  <2>1. Rewrite(path, mem')
    BY <1>9 DEF AddActivatedSkill
  <2>2. mem'[1].id = path /\ next' \in 0..MaxEntries
    BY <1>1, <1>2, <1>6, <1>9
  <2> QED BY <1>1, <1>6, <1>8, <1>9, <2>1, <2>2, EntriesReplaced
<1>10. CASE path = 0
  <2>1. files' = files /\ acked' = acked /\ faults' = faults /\ allFaults' = allFaults
    BY <1>10 DEF AddActivatedSkill
  <2>2. FilesTyped' /\ FileInv'
    BY <1>2, <2>1 DEF FilesTyped, FileInv
  <2>3. path' = 0 /\ created' = FALSE
    BY <1>1, <1>2, <1>10
  <2> QED BY <1>1, <1>2, <1>6, <1>8, <2>2, <2>3, Restored
<1> QED BY <1>9, <1>10

LEMMA CompactKeeps ==
  ASSUME Inv, NEW cut \in 2..(Len(mem) + 1), ApplyCompaction(cut)
  PROVE  Inv'
<1>1. /\ path # 0 /\ next < MaxEntries /\ cache' = Context(mem') /\ Rewrite(path, mem')
      /\ next' = next + 1 /\ path' = path /\ sid' = sid /\ created' = created
  BY DEF ApplyCompaction
<1>2. /\ IsHeader(mem[1]) /\ mem[1].id = path
      /\ mem' \in Seq(Entry) /\ Wellformed(mem') /\ mem' # <<>> /\ mem'[1] = mem[1]
  BY CompactionStep
<1>3. next' \in 0..MaxEntries
  <2>1. next \in 0..MaxEntries
    BY InvFacts
  <2> QED BY <1>1, <2>1, StoreAssumption
<1>4. IsHeader(mem'[1]) /\ mem'[1].id = path
  BY <1>2
<1> QED BY <1>1, <1>2, <1>3, <1>4, EntriesReplaced

LEMMA LoadKeeps ==
  ASSUME Inv, NEW s \in Sessions, LoadSession(s)
  PROVE  Inv'
<1> DEFINE f == files[s]
           m == Readable(f)
<1>1. FilesTyped /\ FileInv /\ next \in 0..MaxEntries
  BY InvFacts
<1>2. /\ Listed(f) /\ mem' = m /\ path' = s
      /\ sid' = (IF IsHeader(mem'[1]) THEN mem'[1].id ELSE sid)
      /\ cache' = Context(mem') /\ created' = FALSE
      /\ files' = files /\ next' = next /\ acked' = acked /\ faults' = faults
      /\ allFaults' = allFaults
  BY DEF LoadSession
<1>3. Safe(s, f, acked[s], faults[s])
  BY <1>1 DEF FileInv
<1>4. f.lines \in Seq(Line) /\ f.lines # <<>> /\ f.lines[1].kind = "session" /\ f.lines[1].id = s
      /\ f.utf8
  BY <1>2, <1>3 DEF Listed, Safe, File
<1>5. f.lines[1] # Bad
  BY <1>4, LineFacts
<1>6. m \in Seq(Entry) /\ Wellformed(m)
  BY <1>3, KeptReadable DEF Safe
<1>7. m # <<>> /\ m[1] = f.lines[1]
  BY <1>4, <1>5, ParsedFirst DEF Readable
<1> HIDE DEF m
<1>8. mem' # <<>> /\ IsHeader(mem'[1]) /\ mem'[1].id = s /\ sid' = s
      /\ mem' \in Seq(Entry) /\ Wellformed(mem')
  BY <1>2, <1>4, <1>6, <1>7 DEF IsHeader
<1>9. FilesTyped' /\ FileInv'
  BY <1>1, <1>2 DEF FilesTyped, FileInv
<1>10. files'[path'].utf8 /\ Readable(files'[path']) = mem'
  BY <1>2, <1>4 DEF m
<1> HIDE DEF f
<1>11. s # 0 /\ path' \in Sessions \cup {0} /\ sid' \in Sessions \cup {0} /\ created' \in BOOLEAN
       /\ next' \in 0..MaxEntries /\ ~created'
  BY <1>1, <1>2, <1>8, LineFacts
<1> QED BY <1>2, <1>8, <1>9, <1>10, <1>11, Restored

\* The store without a session.
LEMMA Emptied ==
  ASSUME FilesTyped', FileInv', EmptyStore, next' \in 0..MaxEntries
  PROVE  Inv'
<1>1. mem' = <<>> /\ path' = 0 /\ sid' = 0 /\ cache' = <<>> /\ created' = FALSE
  BY DEF EmptyStore
<1>2. mem' \in Seq(Entry) /\ Wellformed(mem') /\ Context(mem') = <<>>
  BY <1>1, EntrySeqs, WellformedEmpty, ScanSteps DEF Context, Nothing
<1> QED BY <1>1, <1>2, Restored

LEMMA UndoKeeps ==
  ASSUME Inv, UndoTurnSetup
  PROVE  Inv'
<1>1. /\ FilesTyped /\ FileInv /\ path \in Sessions /\ next' \in 0..MaxEntries
  BY InvFacts DEF UndoTurnSetup
<1>2. EmptyStore
  BY DEF UndoTurnSetup
<1>3. CASE /\ files' = [files EXCEPT ![path] = NoFile]
           /\ acked' = [acked EXCEPT ![path] = {}]
           /\ faults' = [faults EXCEPT ![path] = 0]
           /\ UNCHANGED allFaults
  <2>1. /\ 0 \in 0..MaxFaults /\ allFaults' \in 0..MaxFaults /\ allFaults <= allFaults'
        /\ 0 <= allFaults' /\ {} \in SUBSET (Sessions \cup Nat)
    BY <1>1, <1>3, StoreAssumption DEF FilesTyped
  <2>2. Safe(path, NoFile, {}, 0)
    BY SafeEmpty
  <2>3. FilesTyped' /\ FileInv'
    <3> DEFINE none == {}
               zero == 0
               p == path
    <3>1. /\ files' = [files EXCEPT ![p] = NoFile] /\ acked' = [acked EXCEPT ![p] = none]
          /\ faults' = [faults EXCEPT ![p] = zero] /\ zero \in 0..MaxFaults
          /\ none \in SUBSET (Sessions \cup Nat) /\ Safe(p, NoFile, none, zero) /\ p \in Sessions
          /\ zero <= allFaults'
      BY <1>1, <1>3, <2>1, <2>2
    <3> HIDE DEF none, zero, p
    <3> QED BY <1>1, <2>1, <3>1, OneFile
  <2> QED BY <1>1, <1>2, <2>3, Emptied
<1>4. CASE RewriteFails(path)
  <2>1. FilesTyped' /\ FileInv'
    <3> DEFINE p == path
               f == files[p]
               saved == acked[p]
               n == faults[p]
    <3>1. Fault(p) /\ files' = [files EXCEPT ![p] = f] /\ acked' = [acked EXCEPT ![p] = saved]
          /\ p \in Sessions
      BY <1>1, <1>4 DEF RewriteFails, FilesTyped
    <3>2. Safe(p, f, saved, n) /\ saved \in SUBSET (Sessions \cup Nat)
      BY <1>1 DEF FileInv, FilesTyped
    <3> HIDE DEF p
    <3>3. /\ n \in Nat /\ n + 1 \in 0..MaxFaults /\ n + 1 <= allFaults'
          /\ faults' = [faults EXCEPT ![p] = n + 1]
          /\ allFaults' \in 0..MaxFaults /\ allFaults <= allFaults'
      BY <1>1, <3>1, CountFaults
    <3> HIDE DEF f, saved, n
    <3>4. Safe(p, f, saved, n + 1)
      BY <3>2, <3>3, SafeFault
    <3> QED BY <1>1, <3>1, <3>2, <3>3, <3>4, OneFile
  <2> QED BY <1>1, <1>2, <2>1, Emptied
<1> QED BY <1>3, <1>4 DEF UndoTurnSetup

LEMMA NewKeeps ==
  ASSUME Inv, NewStore
  PROVE  Inv'
<1>1. FilesTyped /\ FileInv /\ next \in 0..MaxEntries
  BY InvFacts
<1>2. /\ EmptyStore /\ files' = files /\ next' = next /\ acked' = acked /\ faults' = faults
      /\ allFaults' = allFaults
  BY DEF NewStore
<1>3. FilesTyped' /\ FileInv'
  BY <1>1, <1>2 DEF FilesTyped, FileInv
<1> QED BY <1>1, <1>2, <1>3, Emptied

LEMMA DieKeeps ==
  ASSUME Inv, DieInAppend
  PROVE  Inv'
<1> DEFINE p == path
           f == files[p]
           saved == acked[p]
           n == faults[p]
           e == Plain("talk", next + 1)
<1>1. FilesTyped /\ FileInv /\ p \in Sessions /\ next \in 0..MaxEntries /\ next < MaxEntries
  BY InvFacts DEF DieInAppend
<1>2. EmptyStore /\ next' = next + 1 /\ Fault(p)
  BY DEF DieInAppend
<1> PICK x \in Torn : files' = [files EXCEPT ![p] = Put(f, e, x)]
  BY DEF DieInAppend
<1>3. next + 1 \in Nat /\ next' \in 0..MaxEntries
  BY <1>1, <1>2, StoreAssumption
<1>4. e \in Entry /\ e.kind = "talk" /\ e.id = next + 1
  BY <1>3 DEF Plain, Entry
<1>5. acked' = [acked EXCEPT ![p] = saved] /\ saved \in SUBSET (Sessions \cup Nat)
      /\ Safe(p, f, saved, n)
  BY <1>1 DEF DieInAppend, FilesTyped, FileInv
<1> HIDE DEF e, p
<1>6. /\ n \in Nat /\ n + 1 \in 0..MaxFaults /\ n + 1 <= allFaults'
      /\ faults' = [faults EXCEPT ![p] = n + 1]
      /\ allFaults' \in 0..MaxFaults /\ allFaults <= allFaults'
  BY <1>1, <1>2, CountFaults
<1>7. Fits(p, f, e)
  BY <1>3, <1>4 DEF Fits
<1> HIDE DEF f, saved, n
<1>8. Safe(p, Put(f, e, x), saved, n + 1)
  BY <1>5, <1>6, <1>7, SafePartial
<1>9. FilesTyped' /\ FileInv'
  <2> DEFINE g == Put(f, e, x)
  <2>1. files' = [files EXCEPT ![p] = g] /\ Safe(p, g, saved, n + 1)
    BY <1>8
  <2> HIDE DEF g
  <2> QED BY <1>1, <1>5, <1>6, <2>1, OneFile
<1> QED BY <1>2, <1>3, <1>9, Emptied

LEMMA NextKeeps == Inv /\ [Next]_vars => Inv'
<1> SUFFICES ASSUME Inv, [Next]_vars PROVE Inv'
  OBVIOUS
<1>1. ASSUME NEW s \in Sessions, CreateSession(s) PROVE Inv'
  BY <1>1, CreateKeeps
<1>2. ASSUME NEW s \in Sessions, LoadSession(s) PROVE Inv'
  BY <1>2, LoadKeeps
<1>3. ASSUME NEW kind \in {"talk", "tool"}, NEW image \in BOOLEAN, AppendMessage(kind, image)
      PROVE  Inv'
  BY <1>3, MessageKeeps
<1>4. CASE SaveTokenRate
  BY <1>4, RateKeeps
<1>5. ASSUME NEW i \in DOMAIN mem, StripToolImages(i) PROVE Inv'
  BY <1>5, StripKeeps
<1>6. CASE AddActivatedSkill
  BY <1>6, SkillKeeps
<1>7. ASSUME NEW cut \in 2..(Len(mem) + 1), ApplyCompaction(cut) PROVE Inv'
  BY <1>7, CompactKeeps
<1>8. CASE UndoTurnSetup
  BY <1>8, UndoKeeps
<1>9. CASE NewStore
  BY <1>9, NewKeeps
<1>10. CASE DieInAppend
  BY <1>10, DieKeeps
<1>11. CASE UNCHANGED vars
  BY <1>11 DEF vars, store, Inv, TypeOK, FileInv, StoreInv, CopiesAgree, OwnHeader, CacheFresh,
                DiskMatchesMemory
<1> QED BY <1>1, <1>2, <1>3, <1>4, <1>5, <1>6, <1>7, <1>8, <1>9, <1>10, <1>11 DEF Next

LEMMA InvHolds == Spec => []Inv
<1>1. Inv /\ [Next]_vars => Inv'
  BY NextKeeps
<1> QED BY InitKeeps, <1>1, PTL DEF Spec

-----------------------------------------------------------------------------
(* What the store promises.                                                *)

\* Every variable keeps to its type.
THEOREM StoreTypes == Spec => []TypeOK
<1>1. Inv => TypeOK
  BY DEF Inv
<1> QED BY InvHolds, <1>1, PTL

\* The entries in memory, the session file, the header of that file and the
\* cached context are one session at every moment, so that the process may end
\* at any of them; only a write that failed leaves the file behind.
THEOREM CopiesStayInAgreement == Spec => []CopiesAgree
<1>1. Inv => CopiesAgree
  BY DEF Inv, StoreInv
<1> QED BY InvHolds, <1>1, PTL

\* However the writes to a session fail, tear or are cut short, each of these
\* faults costs at most one entry of those whose append had returned Ok.
THEOREM LossStaysBounded == Spec => []LossBounded
<1>1. Inv => LossBounded
  <2> SUFFICES ASSUME Inv, NEW s \in Sessions
               PROVE  Cardinality(acked[s] \ Ids(Readable(files[s]))) <= faults[s]
    BY DEF LossBounded
  <2> DEFINE f == files[s]
             kept == acked[s] \ Ids(Kept(f))
             gone == acked[s] \ Ids(Readable(f))
  <2>1. Safe(s, f, acked[s], faults[s]) /\ faults[s] \in Nat
    BY InvFacts DEF FileInv, FilesTyped
  <2>2. f \in File /\ Opened(f) /\ IsFiniteSet(kept)
        /\ Cardinality(kept) + (IF f.open THEN 1 ELSE 0) <= faults[s]
    BY <2>1 DEF Safe
  <2>3. gone \in SUBSET kept
    BY <2>2, KeptReadable
  <2> HIDE DEF kept, gone
  <2>4. IsFiniteSet(gone) /\ Cardinality(gone) <= Cardinality(kept)
    BY <2>2, <2>3, FS_Subset
  <2>5. Cardinality(gone) \in Nat /\ Cardinality(kept) \in Nat
    BY <2>2, <2>4, FS_CardinalityType
  <2>6. Cardinality(gone) <= faults[s]
    BY <2>1, <2>2, <2>4, <2>5
  <2> QED BY <2>6 DEF gone, f
<1> QED BY InvHolds, <1>1, PTL

\* A session loads to one summary at most, as its second entry, and what the
\* summary says it keeps follows it, however often the session was compacted,
\* torn and resumed: build_context_from_entries never skips to the end.
THEOREM SummaryStaysUsable == Spec => []SummaryUsable
<1>1. Inv => SummaryUsable
  <2> SUFFICES ASSUME Inv, NEW s \in Sessions,
                      NEW i \in DOMAIN Readable(files[s]), Readable(files[s])[i].kind = "compaction"
               PROVE  /\ i = 2
                      /\ Readable(files[s])[i].kept # 0 =>
                           Len(Readable(files[s])) >= 3
                           /\ Readable(files[s])[3].id = Readable(files[s])[i].kept
    BY DEF SummaryUsable
  <2>1. Safe(s, files[s], acked[s], faults[s])
    BY DEF Inv, FileInv
  <2>2. Wellformed(Readable(files[s])) /\ Readable(files[s]) \in Seq(Entry)
    BY <2>1, KeptReadable DEF Safe
  <2> DEFINE m == Readable(files[s])
  <2>3. i \in 1..Len(m)
    BY <2>2, EntrySeqs
  <2> HIDE DEF m
  <2>4. m[i].kind = "compaction" /\ Wellformed(m)
    BY <2>2 DEF m
  <2>5. i = 2 /\ (m[2].kept # 0 => Len(m) >= 3 /\ m[3].id = m[2].kept)
    BY <2>3, <2>4 DEF Wellformed
  <2> QED BY <2>5 DEF m
<1> QED BY InvHolds, <1>1, PTL

LEMMA NoNewSummary ==
  ASSUME NEW m \in Seq(Entry), NEW e \in Entry, e.kind # "compaction"
  PROVE  Summaries(Append(m, e)) \subseteq Summaries(m) /\ Summaries(<<>>) \subseteq Summaries(m)
<1> DEFINE a == Append(m, e)
<1>1. /\ DOMAIN a = 1..(Len(m) + 1) /\ DOMAIN m = 1..Len(m) /\ Len(m) \in Nat
      /\ a[Len(m) + 1] = e /\ \A i \in 1..Len(m) : a[i] = m[i]
  BY EntrySeqs
<1> HIDE DEF a
<1>2. \A j \in DOMAIN a : a[j].kind = "compaction" => j \in DOMAIN m /\ a[j] = m[j]
  BY <1>1
<1>3. DOMAIN <<>> = {}
  OBVIOUS
<1> QED BY <1>2, <1>3 DEF Summaries, a

\* The context after a compaction is the summary and, unbroken, the messages
\* that were kept, which are the last ones of the context before it.
LEMMA CompactionContext ==
  ASSUME Inv, NEW cut \in 2..(Len(mem) + 1), ApplyCompaction(cut)
  PROVE  LET kept == Messages(SubSeq(mem', 3, Len(mem')))
         IN Context(mem') = <<mem'[2]>> \o kept /\ IsSuffix(kept, Context(mem))
<1> DEFINE kept == Messages(SubSeq(mem', 3, Len(mem')))
           X == Entry
<1>1. /\ mem \in Seq(Entry) /\ Wellformed(mem) /\ mem # <<>> /\ IsHeader(mem[1])
      /\ cut \in 3..(Len(mem) + 1)
      /\ mem' \in Seq(Entry) /\ Wellformed(mem') /\ mem' # <<>> /\ mem'[1] = mem[1]
      /\ Len(mem') >= 2 /\ mem'[2].kind = "compaction"
      /\ SubSeq(mem', 3, Len(mem')) = SubSeq(mem, cut, Len(mem))
  BY CompactionStep
<1>2. ~IsMessage(mem[1]) /\ ~IsMessage(mem'[1]) /\ ~IsMessage(mem'[2])
  BY <1>1 DEF IsMessage, IsHeader
<1>3. Context(mem') = <<mem'[2]>> \o kept
  <2>1. Context(mem') = Opening(mem') \o Messages(mem')
    BY <1>1, <1>2, ContextForm
  <2>2. Opening(mem') = <<mem'[2]>>
    BY <1>1 DEF Opening, HasSummary
  <2>3. Messages(mem') = Messages(SubSeq(mem', 2 + 1, Len(mem')))
    BY <1>1, <1>2, MessagesAfter
  <2>4. 2 + 1 = 3
    OBVIOUS
  <2> QED BY <2>1, <2>2, <2>3, <2>4
<1>4. Context(mem) = Opening(mem) \o Messages(mem)
  BY <1>1, <1>2, ContextForm
<1> DEFINE k == cut - 1
           a == SubSeq(mem, 1, k)
           b == SubSeq(mem, k + 1, Len(mem))
<1>5. mem \in Seq(X) /\ Len(mem) \in Nat /\ k \in 0..Len(mem) /\ k + 1 = cut
  BY <1>1, EntrySeqs
<1>6. a \in Seq(X) /\ b \in Seq(X) /\ mem = a \o b
  <2> HIDE DEF X, k
  <2> QED BY <1>5, Parts
<1>7. kept = Messages(b)
  BY <1>1, <1>5
<1> HIDE DEF k, a, b, kept
<1>8. Messages(mem) = Messages(a) \o Messages(b)
  BY <1>6, MessagesConcat
<1> DEFINE o == Opening(mem)
           p == Messages(a)
           q == Messages(b)
<1>9. o \in Seq(X) /\ p \in Seq(X) /\ q \in Seq(X)
  <2>1. p \in Seq(X) /\ q \in Seq(X)
    BY <1>6, MessagesSteps
  <2>2. HasSummary(mem) => mem[2] \in Entry
    BY <1>1, EntrySeqs DEF HasSummary
  <2>3. o \in Seq(X)
    BY <2>2, EntrySeqs DEF Opening
  <2> QED BY <2>1, <2>3
<1>10. Context(mem) = o \o (p \o q)
  BY <1>4, <1>8
<1> HIDE DEF o, p, q, X
<1>11. o \o (p \o q) = (o \o p) \o q /\ o \o p \in Seq(X)
  <2>1. (o \o p) \o q = o \o (p \o q)
    BY <1>9, ConcatAssociative
  <2>2. o \o p \in Seq(X)
    BY <1>9, ConcatProperties
  <2> QED BY <2>1, <2>2
<1>12. IsSuffix(q, (o \o p) \o q)
  BY <1>9, <1>11, SuffixOfConcat
<1>13. IsSuffix(kept, Context(mem))
  BY <1>7, <1>10, <1>11, <1>12 DEF q
<1> QED BY <1>3, <1>13 DEF kept

\* A compaction only takes messages from the front of the context: the model
\* is next sent the summary and then, unbroken, every message that was kept.
THEOREM CompactionKeepsTail == Spec => SummaryPlusTail
<1> DEFINE Grown == next' # next /\ ~(Summaries(mem') \subseteq Summaries(mem))
           Tailed == LET kept == Messages(SubSeq(mem', 3, Len(mem')))
                     IN Context(mem') = <<mem'[2]>> \o kept /\ IsSuffix(kept, Context(mem))
<1>1. Inv /\ [Next]_vars => [Grown => Tailed]_vars
  <2> SUFFICES ASSUME Inv, Next, Grown PROVE Tailed
    OBVIOUS
  <2>1. mem \in Seq(Entry) /\ next \in Nat
    BY InvFacts
  <2> HIDE DEF Tailed
  <2>2. ASSUME NEW s \in Sessions, CreateSession(s) \/ LoadSession(s) PROVE Tailed
    BY <2>2 DEF CreateSession, LoadSession
  <2>3. ASSUME NEW kind \in {"talk", "tool"}, NEW image \in BOOLEAN, AppendMessage(kind, image)
        PROVE  Tailed
    <3> DEFINE e == [Plain(kind, next + 1) EXCEPT !.mark = image]
    <3>1. e \in Entry /\ e.kind # "compaction" /\ mem' = Append(mem, e)
      BY <2>1, <2>3 DEF Plain, Entry, AppendMessage
    <3> HIDE DEF e
    <3> QED BY <2>1, <3>1, NoNewSummary
  <2>4. CASE SaveTokenRate
    <3> DEFINE e == Plain("custom", 0)
    <3>1. e \in Entry /\ e.kind # "compaction" /\ mem' = Append(mem, e)
      BY <2>4 DEF Plain, Entry, SaveTokenRate
    <3> HIDE DEF e
    <3> QED BY <2>1, <3>1, NoNewSummary
  <2>5. ASSUME NEW i \in DOMAIN mem, StripToolImages(i) PROVE Tailed
    BY <2>5 DEF StripToolImages
  <2>6. CASE AddActivatedSkill
    BY <2>6 DEF AddActivatedSkill
  <2>7. ASSUME NEW cut \in 2..(Len(mem) + 1), ApplyCompaction(cut) PROVE Tailed
    BY <2>7, CompactionContext DEF Tailed
  <2>8. CASE UndoTurnSetup \/ NewStore
    BY <2>8 DEF UndoTurnSetup, NewStore
  <2>9. CASE DieInAppend
    <3>1. mem' = <<>>
      BY <2>9 DEF DieInAppend, EmptyStore
    <3>2. Summaries(<<>>) \subseteq Summaries(mem)
      <4>1. DOMAIN <<>> = {}
        OBVIOUS
      <4> QED BY <4>1 DEF Summaries
    <3> QED BY <3>1, <3>2
  <2> QED BY <2>2, <2>3, <2>4, <2>5, <2>6, <2>7, <2>8, <2>9 DEF Next
<1> QED BY InvHolds, <1>1, PTL DEF Spec, SummaryPlusTail
=============================================================================
