----------------------------- MODULE Hooks_proofs ------------------------------
(***************************************************************************)
(* What the hook registries promise, for any skills, scripts and tools:    *)
(* the registry holds the hooks of the active skills and no others, the    *)
(* copy of a running task differs from it by the activations not yet read, *)
(* and no hook that matches a tool is passed over.                         *)
(***************************************************************************)
EXTENDS Hooks, Induction, FiniteSetTheorems

-----------------------------------------------------------------------------
(* Only, as a walk, and what it keeps.                                     *)

OnlyStep(X, keep) ==
  [p \in Seq(X) \X X |-> IF p[2] \in keep THEN Append(p[1], p[2]) ELSE p[1]]

LEMMA OnlyIsWalk ==
  ASSUME NEW X, NEW keep, NEW s \in Seq(X)
  PROVE  /\ OnlyStep(X, keep) \in Steps(Seq(X), X)
         /\ Only(s, keep) = Walked(OnlyStep(X, keep), <<>>, s)
<1> DEFINE S == Seq(X)
           start == <<>>
           step == OnlyStep(X, keep)
<1>1. step \in Steps(S, X) /\ start \in S
  <2>1. \A p \in Seq(X), e \in X : (IF e \in keep THEN Append(p, e) ELSE p) \in Seq(X)
    OBVIOUS
  <2> QED BY <2>1 DEF OnlyStep, Steps
<1>2. \A p \in S, e \in X : step[<<p, e>>] = IF e \in keep THEN Append(p, e) ELSE p
  BY DEF OnlyStep
<1> DEFINE F(g) == g = [n \in 0..Len(s) |->
                          IF n = 0 THEN <<>>
                          ELSE IF s[n] \in keep THEN Append(g[n - 1], s[n]) ELSE g[n - 1]]
           those == CHOOSE g : F(g)
<1>3. Only(s, keep) = those[Len(s)]
  BY DEF Only
<1>4. Len(s) \in Nat /\ \A n \in 1..Len(s) : s[n] \in X
  OBVIOUS
<1> HIDE DEF S, step
<1> PICK h : IsWalk(h, step, start, s)
  BY <1>1, WalkExists
<1>5. \A n \in 0..Len(s) : h[n] \in S
  BY <1>1, WalkStays
<1> DEFINE walk == [n \in 0..Len(s) |-> h[n]]
<1>6. F(walk)
  <2>1. walk[0] = start
    BY <1>4 DEF IsWalk
  <2>2. ASSUME NEW n \in 1..Len(s)
        PROVE  walk[n] = IF s[n] \in keep THEN Append(walk[n - 1], s[n]) ELSE walk[n - 1]
    <3>1. n \in 0..Len(s) /\ n - 1 \in 0..Len(s)
      BY <1>4
    <3>2. h[n] = step[<<h[n - 1], s[n]>>]
      BY DEF IsWalk
    <3>3. h[n - 1] \in S /\ s[n] \in X
      BY <1>4, <1>5, <3>1
    <3>4. h[n] = IF s[n] \in keep THEN Append(h[n - 1], s[n]) ELSE h[n - 1]
      BY <1>2, <3>2, <3>3
    <3> QED BY <3>1, <3>4
  <2>3. walk = [n \in 0..Len(s) |-> walk[n]]
    OBVIOUS
  <2> HIDE DEF walk
  <2>4. \A n \in 0..Len(s) : walk[n] =
          IF n = 0 THEN <<>> ELSE IF s[n] \in keep THEN Append(walk[n - 1], s[n]) ELSE walk[n - 1]
    BY <1>4, <2>1, <2>2
  <2> QED BY <2>3, <2>4
<1> HIDE DEF walk
<1>7. F(those)
  <2>1. \E g : F(g)
    BY <1>6
  <2> HIDE DEF F
  <2> QED BY <2>1, Zenon
<1> HIDE DEF those
<1>8. Obeys(those, S, step, start, s, Len(s))
  <2>1. those[0] = start
    BY <1>4, <1>7
  <2>2. ASSUME NEW i \in 1..Len(s), those[i - 1] \in S
        PROVE  those[i] = step[<<those[i - 1], s[i]>>]
    <3>1. those[i] = IF s[i] \in keep THEN Append(those[i - 1], s[i]) ELSE those[i - 1]
      <4>1. i \in 0..Len(s) /\ i # 0
        BY <1>4
      <4> QED BY <1>7, <4>1
    <3> HIDE DEF F
    <3> QED BY <1>2, <1>4, <2>2, <3>1
  <2> HIDE DEF F
  <2> QED BY <2>1, <2>2 DEF Obeys
<1> HIDE DEF F, start
<1>9. those[Len(s)] = Walked(step, start, s)
  BY <1>1, <1>8, WalkedIsEnd
<1> QED BY <1>1, <1>3, <1>9 DEF step, start, S

\* How Only goes over the sequences of X, element by element.
OnlyLaws(X, keep) ==
  /\ Only(<<>>, keep) = <<>>
  /\ \A s \in Seq(X) : Only(s, keep) \in Seq(X)
  /\ \A s \in Seq(X) : \A e \in X :
       Only(Append(s, e), keep) = IF e \in keep THEN Append(Only(s, keep), e) ELSE Only(s, keep)

LEMMA OnlySteps ==
  ASSUME NEW X, NEW keep
  PROVE  OnlyLaws(X, keep)
<1> DEFINE S == Seq(X)
           none == <<>>
           step == OnlyStep(X, keep)
<1>1. none \in S /\ none \in Seq(X) /\ \A s \in Seq(X) : \A e \in X : Append(s, e) \in Seq(X)
  OBVIOUS
<1>2. step \in Steps(S, X) /\ \A s \in Seq(X) : Only(s, keep) = Walked(step, none, s)
  BY <1>1, OnlyIsWalk
<1>3. \A p \in S, e \in X : step[<<p, e>>] = IF e \in keep THEN Append(p, e) ELSE p
  BY DEF OnlyStep
<1> HIDE DEF S, step, none
<1>4. /\ Walked(step, none, none) = none
      /\ \A s \in Seq(X) : Walked(step, none, s) \in S
      /\ \A s \in Seq(X) : \A e \in X :
           Walked(step, none, Append(s, e)) = step[<<Walked(step, none, s), e>>]
  <2>1. /\ Walked(step, none, <<>>) = none
        /\ \A s \in Seq(X) : Walked(step, none, s) \in S
        /\ \A s \in Seq(X) : \A e \in X :
             Walked(step, none, Append(s, e)) = step[<<Walked(step, none, s), e>>]
    BY <1>1, <1>2, WalkedSteps
  <2> QED BY <2>1 DEF none
<1>5. Only(none, keep) = none
  BY <1>1, <1>2, <1>4
<1>6. \A s \in Seq(X) : Only(s, keep) \in S
  BY <1>2, <1>4
<1>7. \A s \in Seq(X) : \A e \in X : Only(Append(s, e), keep) = step[<<Only(s, keep), e>>]
  BY <1>1, <1>2, <1>4
<1>8. \A s \in Seq(X) : \A e \in X : Only(Append(s, e), keep) =
        IF e \in keep THEN Append(Only(s, keep), e) ELSE Only(s, keep)
  BY <1>3, <1>6, <1>7
<1> QED BY <1>5, <1>6, <1>8 DEF S, none, OnlyLaws

\* Nothing but what is in keep is kept.
LEMMA OnlyTyped ==
  ASSUME NEW X, NEW keep
  PROVE  \A s \in Seq(X) : Only(s, keep) \in Seq(X \cap keep)
<1> DEFINE T == {s \in Seq(X) : Only(s, keep) \in Seq(X \cap keep)}
<1>0. OnlyLaws(X, keep)
  BY OnlySteps
<1>1. <<>> \in T
  <2>1. Only(<<>>, keep) = <<>>
    BY <1>0 DEF OnlyLaws
  <2>2. <<>> \in Seq(X) /\ <<>> \in Seq(X \cap keep)
    OBVIOUS
  <2> QED BY <2>1, <2>2
<1>2. ASSUME NEW s \in T, NEW e \in X PROVE Append(s, e) \in T
  <2>1. Append(s, e) \in Seq(X)
    OBVIOUS
  <2>2. Only(Append(s, e), keep) = IF e \in keep THEN Append(Only(s, keep), e) ELSE Only(s, keep)
    BY <1>0 DEF OnlyLaws
  <2>3. Only(s, keep) \in Seq(X \cap keep)
    OBVIOUS
  <2>4. Only(Append(s, e), keep) \in Seq(X \cap keep)
    BY <2>2, <2>3
  <2> QED BY <2>1, <2>4
<1> HIDE DEF T
<1>3. T \in SUBSET Seq(X)
  BY DEF T
<1>4. T = Seq(X)
  BY <1>1, <1>2, <1>3, SeqInduction
<1> QED BY <1>4 DEF T

\* If everything is in keep, all is kept; if nothing is, nothing.
LEMMA OnlyAllOrNone ==
  ASSUME NEW X, NEW keep
  PROVE  /\ X \subseteq keep => \A s \in Seq(X) : Only(s, keep) = s
         /\ X \cap keep = {} => \A s \in Seq(X) : Only(s, keep) = <<>>
<1> DEFINE T == {s \in Seq(X) : /\ X \subseteq keep => Only(s, keep) = s
                                /\ X \cap keep = {} => Only(s, keep) = <<>>}
<1>0. OnlyLaws(X, keep)
  BY OnlySteps
<1>1. <<>> \in T
  BY <1>0 DEF OnlyLaws
<1>2. ASSUME NEW s \in T, NEW e \in X PROVE Append(s, e) \in T
  <2>1. Append(s, e) \in Seq(X)
    OBVIOUS
  <2>2. Only(Append(s, e), keep) = IF e \in keep THEN Append(Only(s, keep), e) ELSE Only(s, keep)
    BY <1>0 DEF OnlyLaws
  <2> QED BY <2>1, <2>2
<1> HIDE DEF T
<1>3. T \in SUBSET Seq(X)
  BY DEF T
<1>4. T = Seq(X)
  BY <1>1, <1>2, <1>3, SeqInduction
<1> QED BY <1>4 DEF T

LEMMA OnlyConcat ==
  ASSUME NEW X, NEW keep, NEW s \in Seq(X)
  PROVE  \A t \in Seq(X) : Only(s \o t, keep) = Only(s, keep) \o Only(t, keep)
<1> DEFINE T == {t \in Seq(X) : Only(s \o t, keep) = Only(s, keep) \o Only(t, keep)}
<1>0. OnlyLaws(X, keep) /\ Only(s, keep) \in Seq(X)
  BY OnlySteps DEF OnlyLaws
<1>1. <<>> \in T
  <2>1. s \o <<>> = s /\ Only(s, keep) \o <<>> = Only(s, keep)
    BY <1>0
  <2>2. Only(<<>>, keep) = <<>>
    BY <1>0 DEF OnlyLaws
  <2>3. Only(s \o <<>>, keep) = Only(s, keep) \o Only(<<>>, keep)
    BY <2>1, <2>2
  <2>4. <<>> \in Seq(X)
    OBVIOUS
  <2> QED BY <2>3, <2>4
<1>2. ASSUME NEW t \in T, NEW e \in X PROVE Append(t, e) \in T
  <2>1. Append(t, e) \in Seq(X) /\ s \o t \in Seq(X) /\ s \o Append(t, e) = Append(s \o t, e)
    OBVIOUS
  <2>2. Only(Append(t, e), keep) = IF e \in keep THEN Append(Only(t, keep), e) ELSE Only(t, keep)
    BY <1>0 DEF OnlyLaws
  <2>3. Only(Append(s \o t, e), keep) =
          IF e \in keep THEN Append(Only(s \o t, keep), e) ELSE Only(s \o t, keep)
    BY <1>0, <2>1 DEF OnlyLaws
  <2>4. Only(s \o t, keep) = Only(s, keep) \o Only(t, keep) /\ Only(t, keep) \in Seq(X)
    BY <1>0 DEF OnlyLaws
  <2>5. Only(s, keep) \o Append(Only(t, keep), e) = Append(Only(s, keep) \o Only(t, keep), e)
    BY <1>0, <2>4
  <2>6. Only(s \o Append(t, e), keep) = Only(s, keep) \o Only(Append(t, e), keep)
    BY <2>1, <2>2, <2>3, <2>4, <2>5
  <2> QED BY <2>1, <2>6
<1> HIDE DEF T
<1>3. T \in SUBSET Seq(X)
  BY DEF T
<1>4. T = Seq(X)
  BY <1>1, <1>2, <1>3, SeqInduction
<1> QED BY <1>4 DEF T

LEMMA OnlyTwice ==
  ASSUME NEW X, NEW keep, NEW wanted
  PROVE  \A s \in Seq(X) : Only(Only(s, keep), wanted) = Only(s, keep \cap wanted)
<1> DEFINE T == {s \in Seq(X) : Only(Only(s, keep), wanted) = Only(s, keep \cap wanted)}
<1>0. OnlyLaws(X, keep) /\ OnlyLaws(X, wanted) /\ OnlyLaws(X, keep \cap wanted)
  BY OnlySteps
<1>1. <<>> \in T
  BY <1>0 DEF OnlyLaws
<1>2. ASSUME NEW s \in T, NEW e \in X PROVE Append(s, e) \in T
  <2>1. Append(s, e) \in Seq(X) /\ Only(s, keep) \in Seq(X)
        /\ Only(Only(s, keep), wanted) = Only(s, keep \cap wanted)
    BY <1>0 DEF OnlyLaws
  <2>2. Only(Append(s, e), keep) = IF e \in keep THEN Append(Only(s, keep), e) ELSE Only(s, keep)
    BY <1>0 DEF OnlyLaws
  <2>3. Only(Append(Only(s, keep), e), wanted) =
          IF e \in wanted THEN Append(Only(Only(s, keep), wanted), e) ELSE Only(Only(s, keep), wanted)
    BY <1>0, <2>1 DEF OnlyLaws
  <2>4. Only(Append(s, e), keep \cap wanted) =
          IF e \in keep \cap wanted THEN Append(Only(s, keep \cap wanted), e)
          ELSE Only(s, keep \cap wanted)
    BY <1>0 DEF OnlyLaws
  <2>5. CASE e \in keep /\ e \in wanted
    <3>1. Only(Append(s, e), keep) = Append(Only(s, keep), e)
      BY <2>2, <2>5
    <3>2. Only(Append(s, e), keep \cap wanted) = Append(Only(s, keep \cap wanted), e)
      BY <2>4, <2>5
    <3>3. Only(Append(Only(s, keep), e), wanted) = Append(Only(Only(s, keep), wanted), e)
      BY <2>3, <2>5
    <3> QED BY <2>1, <3>1, <3>2, <3>3
  <2>6. CASE e \in keep /\ e \notin wanted
    <3>1. Only(Append(s, e), keep) = Append(Only(s, keep), e)
      BY <2>2, <2>6
    <3>2. Only(Append(s, e), keep \cap wanted) = Only(s, keep \cap wanted)
      BY <2>4, <2>6
    <3>3. Only(Append(Only(s, keep), e), wanted) = Only(Only(s, keep), wanted)
      BY <2>3, <2>6
    <3> QED BY <2>1, <3>1, <3>2, <3>3
  <2>7. CASE e \notin keep
    <3>1. Only(Append(s, e), keep) = Only(s, keep)
      BY <2>2, <2>7
    <3>2. Only(Append(s, e), keep \cap wanted) = Only(s, keep \cap wanted)
      BY <2>4, <2>7
    <3> QED BY <2>1, <3>1, <3>2
  <2> QED BY <2>1, <2>5, <2>6, <2>7
<1> HIDE DEF T
<1>3. T \in SUBSET Seq(X)
  BY DEF T
<1>4. T = Seq(X)
  BY <1>1, <1>2, <1>3, SeqInduction
<1> QED BY <1>4 DEF T

-----------------------------------------------------------------------------
(* Registries.                                                             *)

Registry == [Events -> Seq(Hook)]
HooksOf(n) == {h \in Hook : h.skill = n}
NotOf(n) == {h \in Hook : h.skill # n}

\* The skills loaded at the start: by name, each with the file of that name.
LoadedOK ==
  \A n \in DOMAIN loaded :
    /\ n \in Labels
    /\ loaded[n] \in SkillFile /\ loaded[n].name = n

\* The hooks of a skill are its own, whatever the matchers are.
LEMMA SkillHooksTyped ==
  ASSUME NEW skill \in SkillFile, NEW e
  PROVE  SkillHooks(skill, e) \in Seq(HooksOf(skill.name))
<1> DEFINE own == Only(skill.hooks, {h \in FileHook : h.event = e})
<1>1. skill.hooks \in Seq(FileHook) /\ skill.name \in Labels
  BY DEF SkillFile
<1>2. own \in Seq(FileHook)
  BY <1>1, OnlySteps DEF OnlyLaws
<1>3. SkillHooks(skill, e) = [i \in DOMAIN own |-> [skill |-> skill.name, name |-> own[i].name,
                                                    tools |-> Matched(own[i].matcher)]]
  BY DEF SkillHooks
<1> HIDE DEF own
<1>4. ASSUME NEW i \in 1..Len(own)
      PROVE  [skill |-> skill.name, name |-> own[i].name, tools |-> Matched(own[i].matcher)]
               \in HooksOf(skill.name)
  <2>1. own[i] \in FileHook
    BY <1>2
  <2>2. own[i].name \in Labels
    BY <2>1 DEF FileHook
  <2>3. Matched(own[i].matcher) \subseteq Tools
    BY DEF Matched
  <2> QED BY <1>1, <2>2, <2>3 DEF HooksOf, Hook
<1>5. DOMAIN own = 1..Len(own) /\ Len(own) \in Nat
  BY <1>2
<1>6. \A X : \A n \in Nat : \A f \in [1..n -> X] : f \in Seq(X)
  OBVIOUS
<1> QED BY <1>3, <1>4, <1>5, <1>6

\* Registering a skill gives it its hooks and leaves those of the others.
LEMMA RegisterTyped ==
  ASSUME NEW reg \in Registry, NEW skill \in SkillFile
  PROVE  Register(reg, skill) \in Registry
<1> SUFFICES ASSUME NEW e \in Events
             PROVE  Only(reg[e], NotOf(skill.name)) \o SkillHooks(skill, e) \in Seq(Hook)
  BY DEF Register, RemoveSkillHooks, Registry, NotOf
<1>1. reg[e] \in Seq(Hook)
  BY DEF Registry
<1>2. Only(reg[e], NotOf(skill.name)) \in Seq(Hook)
  BY <1>1, OnlySteps DEF OnlyLaws
<1>3. HooksOf(skill.name) \subseteq Hook
  BY DEF HooksOf
<1>4. SkillHooks(skill, e) \in Seq(Hook)
  BY <1>3, SkillHooksTyped
<1> QED BY <1>2, <1>4

LEMMA RegisterHooks ==
  ASSUME NEW reg \in Registry, NEW skill \in SkillFile, NEW e \in Events, NEW m
  PROVE  OfSkill(Register(reg, skill), e, m) =
           IF m = skill.name THEN SkillHooks(skill, e) ELSE OfSkill(reg, e, m)
<1> DEFINE n == skill.name
           others == Only(reg[e], NotOf(n))
           own == SkillHooks(skill, e)
<1>1. reg[e] \in Seq(Hook) /\ HooksOf(n) \subseteq Hook
  BY DEF Registry, HooksOf
<1>2. others \in Seq(Hook)
  BY <1>1, OnlySteps DEF OnlyLaws
<1>3. own \in Seq(HooksOf(n)) /\ own \in Seq(Hook)
  BY <1>1, SkillHooksTyped
<1>4. Register(reg, skill)[e] = others \o own
  BY DEF Register, RemoveSkillHooks, NotOf
<1>5. OfSkill(Register(reg, skill), e, m) = Only(others \o own, HooksOf(m))
  BY <1>4 DEF OfSkill, HooksOf
<1> HIDE DEF others, own
<1>6. Only(others \o own, HooksOf(m)) = Only(others, HooksOf(m)) \o Only(own, HooksOf(m))
  BY <1>2, <1>3, OnlyConcat
<1>7. Only(others, HooksOf(m)) = Only(reg[e], NotOf(n) \cap HooksOf(m))
  BY <1>1, OnlyTwice DEF others
<1>8. CASE m = n
  <2>1. NotOf(n) \cap HooksOf(m) = {}
    BY <1>8 DEF NotOf, HooksOf
  <2>2. Hook \cap (NotOf(n) \cap HooksOf(m)) = {}
    BY <2>1
  <2>3. Only(reg[e], NotOf(n) \cap HooksOf(m)) = <<>>
    BY <1>1, <2>2, OnlyAllOrNone
  <2>4. Only(own, HooksOf(m)) = own
    BY <1>3, <1>8, OnlyAllOrNone
  <2>5. Only(others, HooksOf(m)) = <<>>
    BY <1>7, <2>3
  <2>6. <<>> \o own = own
    BY <1>3
  <2> QED BY <1>5, <1>6, <1>8, <2>4, <2>5, <2>6 DEF own
<1>9. CASE m # n
  <2>1. NotOf(n) \cap HooksOf(m) = HooksOf(m)
    BY <1>9 DEF NotOf, HooksOf
  <2>2. HooksOf(n) \cap HooksOf(m) = {}
    BY <1>9 DEF HooksOf
  <2>3. Only(own, HooksOf(m)) = <<>>
    BY <1>3, <2>2, OnlyAllOrNone
  <2>4. Only(others, HooksOf(m)) = OfSkill(reg, e, m)
    BY <1>7, <2>1 DEF OfSkill, HooksOf
  <2>5. Only(others, HooksOf(m)) \in Seq(Hook)
    BY <1>2, OnlySteps DEF OnlyLaws
  <2>6. Only(others, HooksOf(m)) \o <<>> = Only(others, HooksOf(m))
    BY <2>5
  <2> QED BY <1>5, <1>6, <1>9, <2>3, <2>4, <2>6
<1> QED BY <1>8, <1>9

LEMMA RegisterNameLaws ==
  ASSUME LoadedOK, NEW reg \in Registry, NEW n
  PROVE  /\ RegisterName(reg, n) \in Registry
         /\ \A e \in Events, m \in DOMAIN loaded :
              OfSkill(RegisterName(reg, n), e, m) =
                IF m = n THEN SkillHooks(loaded[m], e) ELSE OfSkill(reg, e, m)
<1>1. CASE n \in DOMAIN loaded
  <2>1. loaded[n] \in SkillFile /\ loaded[n].name = n
    BY <1>1 DEF LoadedOK
  <2>2. RegisterName(reg, n) = Register(reg, loaded[n])
    BY <1>1 DEF RegisterName
  <2>3. \A e \in Events, m \in DOMAIN loaded :
          OfSkill(Register(reg, loaded[n]), e, m) =
            IF m = n THEN SkillHooks(loaded[n], e) ELSE OfSkill(reg, e, m)
    BY <2>1, RegisterHooks
  <2> QED BY <2>1, <2>2, <2>3, RegisterTyped
<1>2. CASE n \notin DOMAIN loaded
  BY <1>2 DEF RegisterName
<1> QED BY <1>1, <1>2

-----------------------------------------------------------------------------
(* RegisterAll, as a walk over the names.                                  *)

\* Sequences of X; cited for names, which are labels.
SeqLaws(X) ==
  /\ <<>> \in Seq(X)
  /\ \A s \in Seq(X) : \A n \in X :
       /\ Append(s, n) \in Seq(X) /\ Len(Append(s, n)) = Len(s) + 1 /\ Len(s) \in Nat
       /\ Append(s, n)[Len(s) + 1] = n /\ \A i \in 1..Len(s) : Append(s, n)[i] = s[i]
       /\ <<n>> \o s \in Seq(X)
       /\ <<n>> \o <<>> = Append(<<>>, n)
       /\ \A m \in X : <<n>> \o Append(s, m) = Append(<<n>> \o s, m)
LEMMA SeqFacts == ASSUME NEW X PROVE SeqLaws(X)
  BY DEF SeqLaws

NameStep == [p \in Registry \X Labels |-> RegisterName(p[1], p[2])]

LEMMA RegisterAllIsWalk ==
  ASSUME LoadedOK, NEW reg \in Registry, NEW names \in Seq(Labels)
  PROVE  /\ NameStep \in Steps(Registry, Labels)
         /\ RegisterAll(reg, names) = Walked(NameStep, reg, names)
<1> DEFINE S == Registry
<1>1. NameStep \in Steps(S, Labels)
  BY RegisterNameLaws DEF NameStep, Steps
<1>2. \A r \in S, n \in Labels : NameStep[<<r, n>>] = RegisterName(r, n)
  BY DEF NameStep
<1> DEFINE F(g) == g = [n \in 0..Len(names) |->
                          IF n = 0 THEN reg ELSE RegisterName(g[n - 1], names[n])]
           after == CHOOSE g : F(g)
<1>3. RegisterAll(reg, names) = after[Len(names)]
  BY DEF RegisterAll
<1>4. Len(names) \in Nat /\ \A n \in 1..Len(names) : names[n] \in Labels
  OBVIOUS
<1> HIDE DEF S
<1>5. reg \in S
  BY DEF S
<1> PICK h : IsWalk(h, NameStep, reg, names)
  BY <1>1, <1>5, WalkExists
<1>6. \A n \in 0..Len(names) : h[n] \in S
  BY <1>1, <1>5, WalkStays
<1> DEFINE walk == [n \in 0..Len(names) |-> h[n]]
<1>7. F(walk)
  <2>1. walk[0] = reg
    BY <1>4 DEF IsWalk
  <2>2. ASSUME NEW n \in 1..Len(names) PROVE walk[n] = RegisterName(walk[n - 1], names[n])
    <3>1. n \in 0..Len(names) /\ n - 1 \in 0..Len(names)
      BY <1>4
    <3>2. h[n] = NameStep[<<h[n - 1], names[n]>>]
      BY DEF IsWalk
    <3>3. h[n - 1] \in S /\ names[n] \in Labels
      BY <1>4, <1>6, <3>1
    <3>4. h[n] = RegisterName(h[n - 1], names[n])
      BY <1>2, <3>2, <3>3
    <3> QED BY <3>1, <3>4
  <2>3. walk = [n \in 0..Len(names) |-> walk[n]]
    OBVIOUS
  <2> HIDE DEF walk
  <2>4. \A n \in 0..Len(names) :
          walk[n] = IF n = 0 THEN reg ELSE RegisterName(walk[n - 1], names[n])
    BY <1>4, <2>1, <2>2
  <2> QED BY <2>3, <2>4
<1> HIDE DEF walk
<1>8. F(after)
  <2>1. \E g : F(g)
    BY <1>7
  <2> HIDE DEF F
  <2> QED BY <2>1, Zenon
<1> HIDE DEF after
<1>9. Obeys(after, S, NameStep, reg, names, Len(names))
  <2>1. after[0] = reg
    BY <1>4, <1>8
  <2>2. ASSUME NEW i \in 1..Len(names), after[i - 1] \in S
        PROVE  after[i] = NameStep[<<after[i - 1], names[i]>>]
    <3>1. after[i] = RegisterName(after[i - 1], names[i])
      <4>1. i \in 0..Len(names) /\ i # 0
        BY <1>4
      <4> QED BY <1>8, <4>1
    <3> HIDE DEF F
    <3> QED BY <1>2, <1>4, <2>2, <3>1
  <2> HIDE DEF F
  <2> QED BY <2>1, <2>2 DEF Obeys
<1> HIDE DEF F
<1>10. after[Len(names)] = Walked(NameStep, reg, names)
  BY <1>1, <1>5, <1>9, WalkedIsEnd
<1> QED BY <1>1, <1>3, <1>10 DEF S

LEMMA RegisterAllSteps ==
  ASSUME LoadedOK, NEW reg \in Registry
  PROVE  /\ RegisterAll(reg, <<>>) = reg
         /\ \A names \in Seq(Labels) : RegisterAll(reg, names) \in Registry
         /\ \A names \in Seq(Labels) : \A n \in Labels :
              RegisterAll(reg, Append(names, n)) = RegisterName(RegisterAll(reg, names), n)
<1>1. <<>> \in Seq(Labels) /\ \A s \in Seq(Labels) : \A n \in Labels : Append(s, n) \in Seq(Labels)
  BY SeqFacts DEF SeqLaws
<1>2. /\ NameStep \in Steps(Registry, Labels)
      /\ \A s \in Seq(Labels) : RegisterAll(reg, s) = Walked(NameStep, reg, s)
  BY <1>1, RegisterAllIsWalk
<1>3. /\ Walked(NameStep, reg, <<>>) = reg
      /\ \A s \in Seq(Labels) : Walked(NameStep, reg, s) \in Registry
      /\ \A s \in Seq(Labels) : \A e \in Labels :
           Walked(NameStep, reg, Append(s, e)) = NameStep[<<Walked(NameStep, reg, s), e>>]
  BY <1>2, WalkedSteps
<1>4. \A r \in Registry, n \in Labels : NameStep[<<r, n>>] = RegisterName(r, n)
  BY DEF NameStep
<1>5. \A s \in Seq(Labels) : RegisterAll(reg, s) \in Registry
  BY <1>2, <1>3
<1>6. \A s \in Seq(Labels) : \A n \in Labels :
        RegisterAll(reg, Append(s, n)) = NameStep[<<RegisterAll(reg, s), n>>]
  BY <1>1, <1>2, <1>3
<1> QED BY <1>1, <1>2, <1>3, <1>4, <1>5, <1>6

\* The first name can as well be registered before the others.
LEMMA RegisterAllFirst ==
  ASSUME LoadedOK, NEW reg \in Registry, NEW n \in Labels
  PROVE  \A names \in Seq(Labels) :
           RegisterAll(reg, <<n>> \o names) = RegisterAll(RegisterName(reg, n), names)
<1> DEFINE first == RegisterName(reg, n)
           T == {s \in Seq(Labels) : RegisterAll(reg, <<n>> \o s) = RegisterAll(first, s)}
<1>1. first \in Registry
  BY RegisterNameLaws
<1> HIDE DEF first
<1>2. /\ RegisterAll(first, <<>>) = first
      /\ \A s \in Seq(Labels) : \A m \in Labels :
           RegisterAll(first, Append(s, m)) = RegisterName(RegisterAll(first, s), m)
  BY <1>1, RegisterAllSteps
<1>3. /\ RegisterAll(reg, <<>>) = reg
      /\ \A s \in Seq(Labels) : \A m \in Labels :
           RegisterAll(reg, Append(s, m)) = RegisterName(RegisterAll(reg, s), m)
  BY RegisterAllSteps
<1>4. <<>> \in T
  <2>1. <<n>> \o <<>> = Append(<<>>, n) /\ <<>> \in Seq(Labels)
    BY SeqFacts DEF SeqLaws
  <2>2. RegisterAll(reg, Append(<<>>, n)) = RegisterName(reg, n)
    BY <1>3, <2>1
  <2>3. RegisterAll(reg, <<n>> \o <<>>) = first
    BY <2>1, <2>2 DEF first
  <2> QED BY <1>2, <2>1, <2>3
<1>5. ASSUME NEW s \in T, NEW m \in Labels PROVE Append(s, m) \in T
  <2>0. s \in Seq(Labels)
    OBVIOUS
  <2>1. /\ Append(s, m) \in Seq(Labels) /\ <<n>> \o s \in Seq(Labels)
        /\ <<n>> \o Append(s, m) = Append(<<n>> \o s, m)
    <3> HIDE DEF T
    <3>1. SeqLaws(Labels)
      BY SeqFacts
    <3> QED BY <2>0, <3>1 DEF SeqLaws
  <2>2. RegisterAll(reg, <<n>> \o Append(s, m)) = RegisterName(RegisterAll(reg, <<n>> \o s), m)
    BY <1>3, <2>1
  <2>3. RegisterAll(first, Append(s, m)) = RegisterName(RegisterAll(first, s), m)
    BY <1>2
  <2>4. RegisterAll(reg, <<n>> \o s) = RegisterAll(first, s)
    OBVIOUS
  <2> QED BY <2>1, <2>2, <2>3, <2>4
<1> HIDE DEF T
<1>6. T \in SUBSET Seq(Labels)
  BY DEF T
<1>7. T = Seq(Labels)
  BY <1>4, <1>5, <1>6, SeqInduction
<1> QED BY <1>7 DEF T, first

\* What is registered of a skill depends only on whether it is named.
LEMMA RegisterAllHooks ==
  ASSUME LoadedOK, NEW reg \in Registry, NEW e \in Events, NEW m \in DOMAIN loaded
  PROVE  \A names \in Seq(Labels) :
           OfSkill(RegisterAll(reg, names), e, m) =
             IF \E i \in 1..Len(names) : names[i] = m THEN SkillHooks(loaded[m], e)
             ELSE OfSkill(reg, e, m)
<1> DEFINE Named(s) == \E i \in 1..Len(s) : s[i] = m
           T == {s \in Seq(Labels) :
                   OfSkill(RegisterAll(reg, s), e, m) =
                     IF Named(s) THEN SkillHooks(loaded[m], e) ELSE OfSkill(reg, e, m)}
<1>1. /\ RegisterAll(reg, <<>>) = reg
      /\ \A s \in Seq(Labels) : RegisterAll(reg, s) \in Registry
      /\ \A s \in Seq(Labels) : \A n \in Labels :
           RegisterAll(reg, Append(s, n)) = RegisterName(RegisterAll(reg, s), n)
  BY RegisterAllSteps
<1>2. <<>> \in T
  <2>1. ~Named(<<>>) /\ <<>> \in Seq(Labels)
    BY SeqFacts DEF SeqLaws
  <2> HIDE DEF Named
  <2> QED BY <1>1, <2>1
<1>3. ASSUME NEW s \in T, NEW n \in Labels PROVE Append(s, n) \in T
  <2>1. /\ s \in Seq(Labels)
        /\ OfSkill(RegisterAll(reg, s), e, m) =
             IF Named(s) THEN SkillHooks(loaded[m], e) ELSE OfSkill(reg, e, m)
    OBVIOUS
  <2> SUFFICES /\ Append(s, n) \in Seq(Labels)
               /\ OfSkill(RegisterAll(reg, Append(s, n)), e, m) =
                    IF Named(Append(s, n)) THEN SkillHooks(loaded[m], e) ELSE OfSkill(reg, e, m)
    OBVIOUS
  <2> HIDE DEF T
  <2>2. SeqLaws(Labels)
    BY SeqFacts
  <2>3. /\ Append(s, n) \in Seq(Labels) /\ Len(Append(s, n)) = Len(s) + 1 /\ Len(s) \in Nat
        /\ Append(s, n)[Len(s) + 1] = n /\ \A i \in 1..Len(s) : Append(s, n)[i] = s[i]
    BY <2>1, <2>2 DEF SeqLaws
  <2>4. Named(Append(s, n)) <=> Named(s) \/ m = n
    <3>1. \A i \in 1..Len(Append(s, n)) : i \in 1..Len(s) \/ i = Len(s) + 1
      BY <2>3
    <3>2. Named(Append(s, n)) => Named(s) \/ m = n
      BY <2>3, <3>1
    <3>3. 1..Len(s) \subseteq 1..Len(Append(s, n)) /\ Len(s) + 1 \in 1..Len(Append(s, n))
      BY <2>3
    <3>4. Named(s) => Named(Append(s, n))
      BY <2>3, <3>3
    <3>5. m = n => Named(Append(s, n))
      BY <2>3, <3>3
    <3> QED BY <3>2, <3>4, <3>5
  <2> HIDE DEF Named
  <2>5. RegisterAll(reg, s) \in Registry
    BY <1>1, <2>1
  <2>6. OfSkill(RegisterName(RegisterAll(reg, s), n), e, m) =
          IF m = n THEN SkillHooks(loaded[m], e) ELSE OfSkill(RegisterAll(reg, s), e, m)
    <3> DEFINE r == RegisterAll(reg, s)
    <3>1. r \in Registry
      BY <2>5
    <3> HIDE DEF r
    <3>2. OfSkill(RegisterName(r, n), e, m) =
            IF m = n THEN SkillHooks(loaded[m], e) ELSE OfSkill(r, e, m)
      BY <3>1, RegisterNameLaws
    <3> QED BY <3>2 DEF r
  <2>7. RegisterAll(reg, Append(s, n)) = RegisterName(RegisterAll(reg, s), n)
    BY <1>1, <2>1
  <2> QED BY <2>1, <2>3, <2>4, <2>6, <2>7
<1> HIDE DEF T
<1>4. T \in SUBSET Seq(Labels)
  BY DEF T
<1>5. T = Seq(Labels)
  BY <1>2, <1>3, <1>4, SeqInduction
<1> QED BY <1>5 DEF T

\* The scripts of the hook directories belong to no skill.
LEMMA LoadAllLaws ==
  ASSUME NEW files
  PROVE  /\ LoadAll(files) \in Registry
         /\ \A e \in Events : \A m : m # None => OfSkill(LoadAll(files), e, m) = <<>>
<1>1. ASSUME NEW source, NEW e PROVE LoadDirectory(files, source, e) \in Seq(HooksOf(None))
  <2> DEFINE mine == {n \in ToSet(InOrder) : [source |-> source, event |-> e, name |-> n] \in files}
             there == Only(InOrder, mine)
  <2>1. LoadDirectory(files, source, e) = [i \in DOMAIN there |-> DirectoryHook(there[i])]
    BY DEF LoadDirectory
  <2> HIDE DEF mine
  <2>2. InOrder \in Seq(Labels)
    <3>1. \A X : \A a, b \in X : <<a, b>> \in Seq(X)
      OBVIOUS
    <3>2. "s1" \in Labels /\ "s2" \in Labels
      BY HooksAssumption
    <3> QED BY <3>1, <3>2 DEF InOrder
  <2>3. there \in Seq(Labels)
    BY <2>2, OnlySteps DEF OnlyLaws
  <2> HIDE DEF there
  <2>4. DOMAIN there = 1..Len(there) /\ Len(there) \in Nat
    BY <2>3
  <2>5. ASSUME NEW i \in 1..Len(there) PROVE DirectoryHook(there[i]) \in HooksOf(None)
    <3>1. there[i] \in Labels
      <4>1. \A X : \A t \in Seq(X) : \A j \in 1..Len(t) : t[j] \in X
        OBVIOUS
      <4> QED BY <2>3, <4>1
    <3> QED BY <3>1 DEF DirectoryHook, HooksOf, Hook
  <2>6. \A X : \A n \in Nat : \A f \in [1..n -> X] : f \in Seq(X)
    OBVIOUS
  <2> QED BY <2>1, <2>4, <2>5, <2>6
<1>2. ASSUME NEW e \in Events PROVE LoadAll(files)[e] \in Seq(HooksOf(None))
  <2>1. LoadAll(files)[e] = LoadDirectory(files, Sources[1], e) \o LoadDirectory(files, Sources[2], e)
    BY DEF LoadAll
  <2>2. LoadDirectory(files, Sources[1], e) \in Seq(HooksOf(None))
    BY <1>1
  <2>3. LoadDirectory(files, Sources[2], e) \in Seq(HooksOf(None))
    BY <1>1
  <2> QED BY <2>1, <2>2, <2>3
<1>3. HooksOf(None) \subseteq Hook
  BY DEF HooksOf
<1>4. \A e \in Events : LoadAll(files)[e] \in Seq(Hook)
  BY <1>2, <1>3
<1>5. LoadAll(files) \in Registry
  BY <1>4 DEF LoadAll, Registry
<1>6. ASSUME NEW e \in Events, NEW m, m # None PROVE OfSkill(LoadAll(files), e, m) = <<>>
  <2>1. HooksOf(None) \cap HooksOf(m) = {}
    BY <1>6 DEF HooksOf
  <2> QED BY <1>2, <2>1, OnlyAllOrNone DEF OfSkill, HooksOf
<1> QED BY <1>5, <1>6

-----------------------------------------------------------------------------
(* The inductive invariant.                                                *)

Exact(reg, set) ==
  \A e \in Events : \A n \in DOMAIN loaded :
    OfSkill(reg, e, n) = IF n \in set THEN SkillHooks(loaded[n], e) ELSE <<>>

\* A registry rebuilt for some skills holds their hooks and no others.
LEMMA RebuiltExact ==
  ASSUME LoadedOK, NEW set \in SUBSET Labels, IsFiniteSet(set), NEW reg \in Rebuilt(set)
  PROVE  reg \in Registry /\ Exact(reg, set)
<1> DEFINE scan == LoadAll(scripts)
           k == Cardinality(set)
<1>1. PICK order \in [1..k -> set] : ToSet(order) = set /\ reg = RegisterAll(scan, order)
  BY DEF Rebuilt
<1>2. k \in Nat
  BY FS_CardinalityType
<1>3. scan \in Registry /\ \A e \in Events : \A m : m # None => OfSkill(scan, e, m) = <<>>
  BY LoadAllLaws
<1> HIDE DEF scan, k
<1>4. order \in Seq(Labels) /\ Len(order) = k
  <2>1. \A X : \A n \in Nat : \A f \in [1..n -> X] : f \in Seq(X) /\ Len(f) = n
    OBVIOUS
  <2>2. order \in [1..k -> Labels]
    BY <1>1
  <2> QED BY <1>2, <2>1, <2>2
<1>5. \A m : (\E i \in 1..Len(order) : order[i] = m) <=> m \in set
  <2>1. ToSet(order) = {order[i] : i \in DOMAIN order}
    BY DEF ToSet
  <2>2. DOMAIN order = 1..Len(order)
    BY <1>1, <1>4
  <2> QED BY <1>1, <2>1, <2>2
<1>6. reg \in Registry
  BY <1>1, <1>3, <1>4, RegisterAllSteps
<1>7. ASSUME NEW e \in Events, NEW m \in DOMAIN loaded
      PROVE  OfSkill(reg, e, m) = IF m \in set THEN SkillHooks(loaded[m], e) ELSE <<>>
  <2>1. m # None
    BY HooksAssumption DEF LoadedOK
  <2>2. OfSkill(reg, e, m) = IF \E i \in 1..Len(order) : order[i] = m
                             THEN SkillHooks(loaded[m], e) ELSE OfSkill(scan, e, m)
    BY <1>1, <1>3, <1>4, RegisterAllHooks
  <2> QED BY <1>3, <1>5, <2>1, <2>2
<1> QED BY <1>6, <1>7 DEF Exact

\* Sets of skills are finite.
Actives == {s \in SUBSET Labels : IsFiniteSet(s)}
Runs == [event : Events \cup {None}, tool : Tools \cup {None}, todo : Seq(Hook),
         results : Seq([hook : Hook, ending : Endings]), blocked : BOOLEAN]

Typed ==
  /\ LoadedOK
  /\ active \in Actives
  /\ header \in Actives \cup {NoHeader}
  /\ saved \subseteq Actives
  /\ before \in [active : Actives, created : BOOLEAN]
  /\ registry \in Registry /\ local \in Registry
  /\ phase \in {"idle", "prompt", "ready", "running", "stopping"}
  /\ channel \in Seq(Labels)
  /\ run \in Runs

\* Activations wait only while a task runs, and make the registries equal.
InStep ==
  /\ RegistriesAgree
  /\ phase # "running" => channel = <<>>

\* The header knows the active skills, and those that a roll-back restores.
Persisted ==
  /\ header # NoHeader => active \subseteq header
  /\ phase \in {"prompt", "ready"} => before.active \subseteq active

\* The hooks of s that match the tool.
MatchIn(s, tool) == Only(s, {h \in Hook : tool \in h.tools})

\* Those that ran, and those still to run, are those of the task's registry.
HeardSoFar ==
  /\ run.tool \in Tools
  /\ HooksRan \o MatchIn(run.todo, run.tool) = Matching(local, run.event, run.tool)

Heard ==
  /\ phase = "running" /\ run.event = "PreToolUse" /\ ~run.blocked =>
       HeardSoFar /\ \A i \in DOMAIN run.results : run.results[i].ending # "vetoes"
  /\ phase = "running" /\ run.event = "PostToolUse" => HeardSoFar

Inv ==
  /\ Typed
  /\ RegistryExact
  /\ InStep
  /\ Persisted
  /\ Heard

LEMMA ActivesLaws ==
  /\ {} \in Actives
  /\ \A s \in Actives, n \in Labels : s \cup {n} \in Actives
<1>1. {} \in Actives
  BY FS_EmptySet DEF Actives
<1>2. ASSUME NEW s \in Actives, NEW n \in Labels PROVE s \cup {n} \in Actives
  <2>1. IsFiniteSet(s \cup {n})
    BY FS_AddElement DEF Actives
  <2> QED BY <2>1 DEF Actives
<1> QED BY <1>1, <1>2

LEMMA RegistryExactIs == RegistryExact <=> Exact(registry, active)
  BY DEF RegistryExact, Exact

LEMMA InitInv == Init => Inv
<1> SUFFICES ASSUME Init PROVE Inv
  OBVIOUS
<1>1. LoadedOK
  <2>1. PICK files \in Installs : loaded \in LoadSkills(files)
    BY DEF Init
  <2>2. files \subseteq SkillFile
    BY HooksAssumption
  <2>3. DOMAIN loaded = Names(files) /\ \A n \in Names(files) : loaded[n] \in Winners(files, n)
    BY <2>1 DEF LoadSkills
  <2>4. \A n : Winners(files, n) \subseteq Described(files, n)
    BY DEF Winners
  <2>5. ASSUME NEW n \in DOMAIN loaded
        PROVE  n \in Labels /\ loaded[n] \in SkillFile /\ loaded[n].name = n
    <3>1. loaded[n] \in files /\ loaded[n].name = n
      BY <2>3, <2>4 DEF Described
    <3>2. loaded[n] \in SkillFile
      BY <2>2, <3>1
    <3>3. loaded[n].name \in Labels
      BY <3>2 DEF SkillFile
    <3> QED BY <3>1, <3>2, <3>3
  <2> QED BY <2>5 DEF LoadedOK
<1>2. registry \in Registry
  BY LoadAllLaws DEF Init
<1>3. NoRun \in Runs
  <2>1. \A X : <<>> \in Seq(X)
    OBVIOUS
  <2> QED BY <2>1 DEF NoRun, Runs
<1>4. <<>> \in Seq(Labels)
  BY SeqFacts DEF SeqLaws
<1>5. Typed
  BY <1>1, <1>2, <1>3, <1>4, ActivesLaws DEF Init, Typed
<1>6. RegistryExact
  <2>1. \A n \in DOMAIN loaded : n # None
    BY <1>1, HooksAssumption DEF LoadedOK
  <2>2. active = {} /\ registry = LoadAll(scripts)
    BY DEF Init
  <2>3. \A e \in Events : \A m : m # None => OfSkill(LoadAll(scripts), e, m) = <<>>
    BY LoadAllLaws
  <2> QED BY <2>1, <2>2, <2>3 DEF RegistryExact
<1>7. InStep /\ Persisted /\ Heard
  BY DEF Init, InStep, RegistriesAgree, Persisted, Heard
<1> QED BY <1>5, <1>6, <1>7 DEF Inv

-----------------------------------------------------------------------------
(* One lemma per group of actions: each keeps the invariant.               *)

\* What a step that leaves the registry and the skills alone keeps.
LEMMA SameSkills ==
  ASSUME RegistryExact, registry' = registry, active' = active, loaded' = loaded
  PROVE  RegistryExact'
  BY DEF RegistryExact, OfSkill, SkillHooks

LEMMA SameLoaded ==
  ASSUME LoadedOK, loaded' = loaded
  PROVE  LoadedOK'
  BY DEF LoadedOK

\* The skills loaded never change, so that registering them means the same
\* after a step.
LEMMA RegisterAllWalks ==
  LoadedOK => \A reg \in Registry, names \in Seq(Labels) :
                RegisterAll(reg, names) = Walked(NameStep, reg, names)
  BY RegisterAllIsWalk

LEMMA SameNameStep ==
  ASSUME loaded' = loaded
  PROVE  NameStep' = NameStep
  BY DEF NameStep, RegisterName, Registry, Register, RemoveSkillHooks, SkillHooks

LEMMA SameRegisterAll ==
  ASSUME LoadedOK, loaded' = loaded, registry' \in Registry, channel' \in Seq(Labels)
  PROVE  RegisterAll(registry, channel)' = RegisterAll(registry', channel')
<1>1. LoadedOK'
  BY SameLoaded
<1>2. (LoadedOK => \A reg \in Registry, names \in Seq(Labels) :
                RegisterAll(reg, names) = Walked(NameStep, reg, names))'
  BY RegisterAllWalks, PTL
<1>3. RegisterAll(registry, channel)' = Walked(NameStep, registry, channel)'
  BY <1>1, <1>2
<1>4. RegisterAll(registry', channel') = Walked(NameStep, registry', channel')
  BY RegisterAllWalks
<1>5. Walked(NameStep, registry, channel)' = Walked(NameStep, registry', channel')
  BY SameNameStep DEF Walked
<1> QED BY <1>3, <1>4, <1>5

LEMMA StaysInStep ==
  ASSUME LoadedOK, loaded' = loaded, registry' \in Registry, channel' \in Seq(Labels),
         phase' = "running", local' = RegisterAll(registry', channel')
  PROVE  InStep'
<1>1. RegisterAll(registry, channel)' = RegisterAll(registry', channel')
  BY SameRegisterAll
<1>2. local' = RegisterAll(registry, channel)'
  BY <1>1
<1> QED BY <1>2 DEF InStep, RegistriesAgree

\* A registry that is rebuilt for the skills that are then active is exact.
LEMMA RebuiltKeeps ==
  ASSUME LoadedOK, loaded' = loaded, active' \in Actives, registry' \in Rebuilt(active')
  PROVE  registry' \in Registry /\ RegistryExact'
<1> DEFINE set == active'
           reg == registry'
<1>1. set \in SUBSET Labels /\ IsFiniteSet(set)
  BY DEF Actives
<1> HIDE DEF set, reg
<1>2. reg \in Rebuilt(set)
  BY DEF set, reg
<1>3. reg \in Registry /\ Exact(reg, set)
  BY <1>1, <1>2, RebuiltExact
<1> QED BY <1>3 DEF set, reg, Exact, RegistryExact, OfSkill, SkillHooks

\* A run of hooks has not begun, or is over.
LEMMA NoRunTyped == NoRun \in Runs /\ NoRun.event = None
<1>1. \A X : <<>> \in Seq(X)
  OBVIOUS
<1> QED BY <1>1 DEF NoRun, Runs

LEMMA BeginTyped ==
  ASSUME NEW reg \in Registry, NEW e \in Events, NEW tool \in Tools \cup {None}
  PROVE  Begin(reg, e, tool) \in Runs
<1>1. reg[e] \in Seq(Hook)
  BY DEF Registry
<1>2. \A X : <<>> \in Seq(X)
  OBVIOUS
<1> QED BY <1>1, <1>2 DEF Begin, Runs

LEMMA PromptsKeep ==
  ASSUME Inv, PromptBlocked \/ SetUp \/ Launch
  PROVE  Inv'
<1> USE DEF Inv
<1>1. RegistryExact'
  <2>1. registry' = registry /\ active' = active /\ loaded' = loaded
    BY DEF PromptBlocked, SetUp, Launch
  <2> QED BY <2>1, SameSkills
<1>2. run' = NoRun
  BY DEF PromptBlocked, SetUp, Launch
<1>3. Typed'
  <2>1. LoadedOK'
    BY SameLoaded DEF Typed, PromptBlocked, SetUp, Launch
  <2>2. <<>> \in Seq(Labels)
    BY SeqFacts DEF SeqLaws
  <2> QED BY <1>2, <2>1, <2>2, NoRunTyped DEF Typed, PromptBlocked, SetUp, Launch, Restart, task,
          bounds, SyncedHeader
<1>4. InStep'
  <2>1. CASE Launch
    <3>1. registry' = registry /\ local' = registry /\ channel' = <<>> /\ phase' = "running"
          /\ loaded' = loaded
      BY <2>1 DEF Launch, Restart
    <3>2. RegisterAll(registry, <<>>) = registry
      BY RegisterAllSteps DEF Typed
    <3>3. local' = RegisterAll(registry', channel')
      BY <3>1, <3>2
    <3>4. LoadedOK /\ registry' \in Registry /\ channel' \in Seq(Labels)
      BY <3>1, SeqFacts DEF Typed, SeqLaws
    <3> QED BY <3>1, <3>3, <3>4, StaysInStep
  <2>2. CASE PromptBlocked \/ SetUp
    BY <2>2 DEF PromptBlocked, SetUp, InStep, RegistriesAgree, task
  <2> QED BY <2>1, <2>2
<1>5. Persisted'
  <2>1. CASE PromptBlocked
    <3>1. header' = header /\ active' = active /\ phase' = "idle"
      BY <2>1 DEF PromptBlocked
    <3> QED BY <3>1 DEF Persisted
  <2>2. CASE SetUp
    <3>1. /\ header' = IF header = NoHeader THEN active ELSE header
          /\ active' = active /\ phase' = "ready" /\ phase = "prompt"
          /\ before'.active = before.active
      BY <2>2 DEF SetUp, SyncedHeader, Typed
    <3> QED BY <3>1 DEF Persisted
  <2>3. CASE Launch
    <3>1. header' = header /\ active' = active /\ phase' = "running"
      BY <2>3 DEF Launch, Restart
    <3> QED BY <3>1 DEF Persisted
  <2> QED BY <2>1, <2>2, <2>3
<1>6. Heard'
  BY <1>2, NoRunTyped DEF Heard, None
<1> QED BY <1>1, <1>3, <1>4, <1>5, <1>6

LEMMA SubmitKeeps ==
  ASSUME Inv, Submit
  PROVE  Inv'
<1> USE DEF Inv
<1>0. phase = "idle" /\ phase' = "prompt" /\ loaded' = loaded /\ channel' = channel
      /\ local' = local /\ saved' = saved /\ channel = <<>>
      /\ before' = [active |-> active, created |-> FALSE]
      /\ run' = Begin(registry', "UserPromptSubmit", None)
  BY DEF Submit, Idle, task, InStep
<1>1. /\ active' \in Actives /\ active \subseteq active'
      /\ header' \in Actives \cup {NoHeader}
      /\ header' # NoHeader => active' \subseteq header'
      /\ registry' \in Registry /\ RegistryExact'
  <2>1. CASE UNCHANGED <<active, registry, header>>
    BY <1>0, <2>1, SameSkills DEF Typed, Persisted
  <2>2. CASE \E n \in DOMAIN loaded : ActivateSkill(n) /\ header' = AddActivated(header, n)
    <3>1. PICK n \in DOMAIN loaded : ActivateSkill(n) /\ header' = AddActivated(header, n)
      BY <2>2
    <3>2. active' = active \cup {n} /\ n \in Labels
      BY <3>1 DEF ActivateSkill, Typed, LoadedOK
    <3>3. active' \in Actives /\ header' \in Actives \cup {NoHeader}
      BY <3>1, <3>2, ActivesLaws DEF Typed, AddActivated
    <3>4. header' # NoHeader => active' \subseteq header'
      BY <3>1, <3>2 DEF AddActivated, Persisted
    <3>5. CASE n \in active
      <4>1. active' = active /\ registry' = registry
        BY <3>1, <3>5 DEF ActivateSkill
      <4> QED BY <1>0, <3>3, <3>4, <4>1, SameSkills DEF Typed
    <3>6. CASE n \notin active
      <4>1. registry' = RegisterName(registry, n)
        BY <3>1, <3>6 DEF ActivateSkill
      <4>2. Exact(registry', active')
        BY <3>2, <4>1, RegisterNameLaws, RegistryExactIs DEF Typed, Exact
      <4>3. registry' \in Registry
        BY <4>1, RegisterNameLaws DEF Typed
      <4>4. RegistryExact'
        BY <1>0, <4>2 DEF Exact, RegistryExact, OfSkill, SkillHooks
      <4> QED BY <3>2, <3>3, <3>4, <4>3, <4>4
    <3> QED BY <3>5, <3>6
  <2> QED BY <2>1, <2>2 DEF Submit
<1>2. Typed'
  <2>1. LoadedOK'
    BY <1>0, SameLoaded DEF Typed
  <2>2. run' \in Runs
    BY <1>0, <1>1, BeginTyped DEF Events
  <2> QED BY <1>0, <1>1, <2>1, <2>2 DEF Typed
<1>3. InStep' /\ Persisted' /\ Heard'
  BY <1>0, <1>1 DEF InStep, RegistriesAgree, Persisted, Heard
<1> QED BY <1>1, <1>2, <1>3

LEMMA CommandsKeep ==
  ASSUME Inv, UndoTurnSetup \/ New \/ Resume \/ ReloadHooks
  PROVE  Inv'
<1> USE DEF Inv
<1>0. /\ phase # "running" /\ phase' = "idle" /\ loaded' = loaded
      /\ local' = local /\ channel' = channel /\ before' = before /\ run' = run
  BY DEF UndoTurnSetup, New, Resume, ReloadHooks, Idle, task
<1>1. /\ active' \in Actives
      /\ registry' \in Rebuilt(active')
      /\ header' \in Actives \cup {NoHeader}
      /\ header' # NoHeader => active' \subseteq header'
      /\ saved' \subseteq Actives
  <2>1. CASE UndoTurnSetup
    <3>1. active' = before.active /\ saved' = saved /\ phase = "ready"
          /\ header' = IF before.created THEN NoHeader ELSE header
      BY <2>1 DEF UndoTurnSetup
    <3>2. registry' \in Rebuilt(active')
      BY <2>1 DEF UndoTurnSetup
    <3> QED BY <3>1, <3>2 DEF Typed, Persisted
  <2>2. CASE New
    <3>1. active' = {} /\ saved' = Leave /\ header' = NoHeader
      BY <2>2 DEF New
    <3>2. registry' \in Rebuilt(active')
      BY <2>2 DEF New
    <3> QED BY <3>1, <3>2, ActivesLaws DEF Typed, Leave
  <2>3. CASE Resume
    <3>1. active' \in saved /\ header' = active' /\ saved' = Leave
      BY <2>3 DEF Resume
    <3>2. registry' \in Rebuilt(active')
      BY <2>3 DEF Resume
    <3> QED BY <3>1, <3>2 DEF Typed, Leave
  <2>4. CASE ReloadHooks
    <3>1. active' = active /\ header' = header /\ saved' = saved
      BY <2>4 DEF ReloadHooks
    <3>2. registry' \in Rebuilt(active')
      BY <2>4 DEF ReloadHooks
    <3> QED BY <3>1, <3>2 DEF Typed, Persisted
  <2> QED BY <2>1, <2>2, <2>3, <2>4
<1>2. registry' \in Registry /\ RegistryExact'
  BY <1>0, <1>1, RebuiltKeeps DEF Typed
<1>3. Typed'
  <2>1. LoadedOK'
    BY <1>0, SameLoaded DEF Typed
  <2> QED BY <1>0, <1>1, <1>2, <2>1 DEF Typed
<1>4. InStep' /\ Persisted' /\ Heard'
  BY <1>0, <1>1 DEF InStep, RegistriesAgree, Persisted, Heard
<1> QED BY <1>2, <1>3, <1>4

\* The model activates a skill in the copy, and says so in the channel.
LEMMA ActivateByModelKeeps ==
  ASSUME Inv, ActivateByModel
  PROVE  Inv'
<1> USE DEF Inv
<1>1. PICK n \in DOMAIN loaded \cup {Unknown} :
        channel' = Append(channel, n) /\ local' = RegisterName(local, n)
  BY DEF ActivateByModel
<1>2. /\ phase = "running" /\ phase' = phase /\ run = NoRun /\ run' = run /\ loaded' = loaded
      /\ registry' = registry /\ active' = active /\ header' = header /\ saved' = saved
      /\ before' = before
  BY DEF ActivateByModel, Free
<1>3. n \in Labels
  BY HooksAssumption DEF Typed, LoadedOK
<1>4. channel' \in Seq(Labels)
  BY <1>1, <1>3, SeqFacts DEF Typed, SeqLaws
<1>5. local = RegisterAll(registry, channel)
  BY <1>2 DEF InStep, RegistriesAgree
<1>6. local' = RegisterAll(registry, channel')
  BY <1>1, <1>3, <1>5, RegisterAllSteps DEF Typed
<1>7. local' \in Registry
  BY <1>1, RegisterNameLaws DEF Typed
<1>8. InStep'
  <2>1. LoadedOK /\ registry' \in Registry /\ local' = RegisterAll(registry', channel')
    BY <1>2, <1>6 DEF Typed
  <2> QED BY <1>2, <1>4, <2>1, StaysInStep
<1>9. Typed'
  <2>1. LoadedOK'
    BY <1>2, SameLoaded DEF Typed
  <2> QED BY <1>2, <1>4, <1>7, <2>1 DEF Typed
<1>10. RegistryExact'
  BY <1>2, SameSkills
<1>11. Persisted' /\ Heard'
  BY <1>2, NoRunTyped DEF Persisted, Heard, None
<1> QED BY <1>8, <1>9, <1>10, <1>11

\* The loop reads the first activation and does the same to the registry.
LEMMA ApplyActivationKeeps ==
  ASSUME Inv, ApplyActivation
  PROVE  Inv'
<1> USE DEF Inv
<1> DEFINE n == Head(channel)
           rest == Tail(channel)
<1>1. /\ channel # <<>> /\ active' = active \cup {n} /\ registry' = RegisterName(registry, n)
      /\ header' = AddActivated(header, n) /\ channel' = rest
      /\ loaded' = loaded /\ saved' = saved /\ phase' = phase /\ local' = local /\ run' = run
      /\ before' = before
  BY DEF ApplyActivation, Registered
<1>2. n \in Labels /\ rest \in Seq(Labels) /\ channel = <<n>> \o rest
  <2>1. \A X : \A s \in Seq(X) : s # <<>> =>
          Head(s) \in X /\ Tail(s) \in Seq(X) /\ s = <<Head(s)>> \o Tail(s)
    OBVIOUS
  <2> QED BY <1>1, <2>1 DEF Typed
<1>3. phase = "running"
  BY <1>1 DEF InStep
<1> HIDE DEF n, rest
<1>4. local = RegisterAll(registry, channel)
  BY <1>3 DEF InStep, RegistriesAgree
<1>5. RegisterAll(registry, channel) = RegisterAll(RegisterName(registry, n), rest)
  BY <1>2, RegisterAllFirst DEF Typed
<1>6. local' = RegisterAll(registry', channel')
  BY <1>1, <1>4, <1>5
<1>7. registry' \in Registry
  BY <1>1, RegisterNameLaws DEF Typed
<1>8. InStep'
  <2>1. LoadedOK /\ loaded' = loaded /\ phase' = "running"
    BY <1>1, <1>3 DEF Typed
  <2>2. channel' \in Seq(Labels)
    BY <1>1, <1>2
  <2> QED BY <1>6, <1>7, <2>1, <2>2, StaysInStep
<1>9. Exact(registry', active')
  BY <1>1, RegisterNameLaws, RegistryExactIs DEF Typed, Exact
<1>10. RegistryExact'
  <2>1. loaded' = loaded
    BY <1>1
  <2> QED BY <1>9, <2>1 DEF Exact, RegistryExact, OfSkill, SkillHooks
<1>11. active' \in Actives /\ header' \in Actives \cup {NoHeader}
  BY <1>1, <1>2, ActivesLaws DEF Typed, AddActivated
<1>12. Typed'
  <2>1. LoadedOK'
    BY <1>1, SameLoaded DEF Typed
  <2> QED BY <1>1, <1>2, <1>7, <1>11, <2>1 DEF Typed
<1>13. Persisted'
  BY <1>1, <1>3 DEF Persisted, AddActivated
<1>14. Heard'
  BY <1>1 DEF Heard, HeardSoFar, HooksRan, Matching, MatchIn
<1> QED BY <1>8, <1>10, <1>12, <1>13, <1>14


\* What a step keeps that leaves the skills, the session and the registries alone.
LEMMA SameContext ==
  ASSUME Inv, loaded' = loaded, active' = active, header' = header, saved' = saved,
         registry' = registry, local' = local, channel' = channel, before' = before,
         run' \in Runs, phase' \in {phase, "idle", "stopping"},
         phase' # "running" => channel = <<>>
  PROVE  Typed' /\ RegistryExact' /\ InStep' /\ Persisted'
<1> USE DEF Inv
<1>1. LoadedOK /\ LoadedOK'
  BY SameLoaded DEF Typed
<1>2. Typed'
  BY <1>1 DEF Typed
<1>3. RegistryExact'
  BY SameSkills
<1>4. InStep'
  <2>1. CASE phase' = "running"
    <3>1. phase = "running"
      BY <2>1
    <3>2. local' = RegisterAll(registry', channel')
      BY <3>1 DEF InStep, RegistriesAgree
    <3>3. registry' \in Registry /\ channel' \in Seq(Labels)
      BY DEF Typed
    <3> QED BY <1>1, <2>1, <3>2, <3>3, StaysInStep
  <2>2. CASE phase' # "running"
    BY <2>2 DEF InStep, RegistriesAgree
  <2> QED BY <2>1, <2>2
<1>5. Persisted'
  BY DEF Persisted
<1> QED BY <1>2, <1>3, <1>4, <1>5

Results == [hook : Hook, ending : Endings]
HooksIn(results) == [i \in DOMAIN results |-> results[i].hook]

LEMMA HooksInLaws ==
  ASSUME NEW results \in Seq(Results)
  PROVE  /\ HooksIn(results) \in Seq(Hook)
         /\ HooksIn(<<>>) = <<>>
         /\ \A r \in Results : HooksIn(Append(results, r)) = HooksIn(results) \o <<r.hook>>
<1>1. HooksIn(results) \in Seq(Hook) /\ Len(HooksIn(results)) = Len(results)
  <2>1. DOMAIN results = 1..Len(results) /\ Len(results) \in Nat
    OBVIOUS
  <2>2. ASSUME NEW i \in 1..Len(results) PROVE results[i].hook \in Hook
    <3>1. results[i] \in Results
      OBVIOUS
    <3> QED BY <3>1 DEF Results
  <2>3. \A X : \A n \in Nat : \A f \in [1..n -> X] : f \in Seq(X) /\ Len(f) = n
    OBVIOUS
  <2>4. HooksIn(results) \in [1..Len(results) -> Hook]
    BY <2>1, <2>2 DEF HooksIn
  <2> QED BY <2>1, <2>3, <2>4
<1>2. HooksIn(<<>>) = <<>>
  BY DEF HooksIn
<1>3. ASSUME NEW r \in Results PROVE HooksIn(Append(results, r)) = HooksIn(results) \o <<r.hook>>
  <2> DEFINE t == Append(results, r)
             n == Len(results)
             ran == HooksIn(results)
             h == r.hook
  <2>1. n \in Nat /\ DOMAIN t = 1..(n + 1) /\ t[n + 1] = r /\ \A i \in 1..n : t[i] = results[i]
    OBVIOUS
  <2>2. ran \in Seq(Hook) /\ Len(ran) = n /\ h \in Hook /\ \A i \in 1..n : ran[i] = results[i].hook
    <3>1. \A i \in DOMAIN results : ran[i] = results[i].hook
      BY DEF HooksIn
    <3> QED BY <1>1, <3>1 DEF Results
  <2>3. HooksIn(t) = [i \in 1..(n + 1) |-> t[i].hook]
    BY <2>1 DEF HooksIn
  <2> HIDE DEF t, n, ran, h
  <2>4. \A i \in 1..n : t[i].hook = ran[i]
    BY <2>1, <2>2
  <2>5. t[n + 1].hook = h
    BY <2>1 DEF h
  <2>6. ran \o <<h>> = [i \in 1..(n + 1) |-> IF i = n + 1 THEN h ELSE ran[i]]
    <3>1. \A X : \A s \in Seq(X) : \A e \in X :
            /\ s \o <<e>> \in Seq(X) /\ Len(s \o <<e>>) = Len(s) + 1
            /\ (s \o <<e>>)[Len(s) + 1] = e /\ \A i \in 1..Len(s) : (s \o <<e>>)[i] = s[i]
      OBVIOUS
    <3>2. \A X : \A s \in Seq(X) : s = [i \in 1..Len(s) |-> s[i]]
      OBVIOUS
    <3> DEFINE u == ran \o <<h>>
    <3>3. /\ u \in Seq(Hook) /\ Len(u) = n + 1 /\ u[n + 1] = h
          /\ \A i \in 1..n : u[i] = ran[i]
      BY <2>2, <3>1
    <3> HIDE DEF u
    <3>4. u = [i \in 1..(n + 1) |-> u[i]]
      BY <3>2, <3>3
    <3>5. \A i \in 1..(n + 1) : u[i] = IF i = n + 1 THEN h ELSE ran[i]
      BY <2>1, <3>3
    <3>6. u = [i \in 1..(n + 1) |-> IF i = n + 1 THEN h ELSE ran[i]]
      BY <3>4, <3>5
    <3> QED BY <3>6 DEF u
  <2>7. \A i \in 1..(n + 1) : t[i].hook = IF i = n + 1 THEN h ELSE ran[i]
    BY <2>1, <2>4, <2>5
  <2>8. HooksIn(t) = ran \o <<h>>
    BY <2>3, <2>6, <2>7
  <2> QED BY <2>8 DEF t, ran, h
<1> QED BY <1>1, <1>2, <1>3

\* The hook at the head is the next of those to run, if it matches.
MatchLaws(done, h, rest, tool) ==
  /\ MatchIn(<<>>, tool) = <<>> /\ MatchIn(rest, tool) \in Seq(Hook)
  /\ done \o MatchIn(<<h>> \o rest, tool) =
       (IF tool \in h.tools THEN done \o <<h>> ELSE done) \o MatchIn(rest, tool)

LEMMA MatchFirst ==
  ASSUME NEW h \in Hook, NEW rest \in Seq(Hook), NEW tool, NEW done \in Seq(Hook)
  PROVE  MatchLaws(done, h, rest, tool)
<1> DEFINE keep == {g \in Hook : tool \in g.tools}
           one == <<h>>
           kept == Only(rest, keep)
<1>1. OnlyLaws(Hook, keep)
  BY OnlySteps
<1>2. h \in keep <=> tool \in h.tools
  OBVIOUS
<1>3. \A s : MatchIn(s, tool) = Only(s, keep)
  BY DEF MatchIn
<1> HIDE DEF keep
<1>4. one \in Seq(Hook) /\ Append(<<>>, h) = one /\ <<>> \in Seq(Hook)
  OBVIOUS
<1>5. Only(Append(<<>>, h), keep) =
        IF h \in keep THEN Append(Only(<<>>, keep), h) ELSE Only(<<>>, keep)
  BY <1>1, <1>4 DEF OnlyLaws
<1>6. Only(<<>>, keep) = <<>> /\ kept \in Seq(Hook)
  BY <1>1 DEF OnlyLaws
<1>7. Only(one, keep) = IF h \in keep THEN one ELSE <<>>
  BY <1>4, <1>5, <1>6
<1>8. Only(one \o rest, keep) = Only(one, keep) \o kept
  <2> HIDE DEF one
  <2> QED BY <1>4, OnlyConcat
<1> HIDE DEF kept
<1>9. done \o ((IF h \in keep THEN one ELSE <<>>) \o kept) =
        (IF h \in keep THEN done \o one ELSE done) \o kept
  <2>1. CASE h \in keep
    <3>1. one \in Seq(Hook)
      BY <1>4
    <3> HIDE DEF one
    <3>2. done \o (one \o kept) = (done \o one) \o kept
      BY <1>6, <3>1
    <3> QED BY <2>1, <3>2
  <2>2. CASE h \notin keep
    <3>1. <<>> \o kept = kept
      BY <1>6
    <3> QED BY <2>2, <3>1
  <2> QED BY <2>1, <2>2
<1>10. done \o Only(one \o rest, keep) = done \o ((IF h \in keep THEN one ELSE <<>>) \o kept)
  BY <1>7, <1>8
<1>11. done \o Only(one \o rest, keep) = (IF h \in keep THEN done \o one ELSE done) \o kept
  BY <1>9, <1>10
<1> QED BY <1>2, <1>3, <1>6, <1>11 DEF kept, one, MatchLaws

\* A run that has just begun has all its hooks before it.
LEMMA BeginHeard ==
  ASSUME Typed, NEW e \in Events, NEW tool \in Tools,
         run' = Begin(local, e, tool), local' = local
  PROVE  HeardSoFar' /\ run'.results = <<>>
<1>1. run'.tool = tool /\ run'.event = e /\ run'.results = <<>> /\ run'.todo = local[e]
  BY DEF Begin
<1>2. local[e] \in Seq(Hook)
  BY DEF Typed, Registry
<1>3. MatchIn(local[e], tool) = Matching(local, e, tool)
  BY DEF MatchIn, Matching
<1>4. MatchIn(local[e], tool) \in Seq(Hook)
  <2>1. OnlyLaws(Hook, {g \in Hook : tool \in g.tools})
    BY OnlySteps
  <2> QED BY <1>2, <2>1 DEF OnlyLaws, MatchIn
<1>5. HooksRan' = <<>>
  BY <1>1 DEF HooksRan
<1>6. <<>> \o MatchIn(local[e], tool) = MatchIn(local[e], tool)
  BY <1>4
<1>7. MatchIn(run.todo, run.tool)' = MatchIn(local[e], tool)
  BY <1>1 DEF MatchIn
<1>8. Matching(local, run.event, run.tool)' = Matching(local, e, tool)
  BY <1>1 DEF Matching
<1> QED BY <1>1, <1>3, <1>5, <1>6, <1>7, <1>8 DEF HeardSoFar

\* One hook is passed over or runs; those before and after it stay in order.
LEMMA RunHookKeeps ==
  ASSUME Inv, RunHook
  PROVE  Inv'
<1> USE DEF Inv
<1>1. /\ run.todo # <<>> /\ loaded' = loaded /\ active' = active /\ header' = header
      /\ saved' = saved /\ registry' = registry /\ local' = local /\ channel' = channel
      /\ before' = before /\ phase' = phase
  BY DEF RunHook, task
<1>2. PICK ending \in Endings : Execute(ending)
  BY DEF RunHook
<1> DEFINE h == Head(run.todo)
           rest == Tail(run.todo)
           runs == run.tool = None \/ run.tool \in h.tools
           result == [hook |-> h, ending |-> ending]
<1>3. /\ run.event \in Events \cup {None} /\ run.tool \in Tools \cup {None}
      /\ run.todo \in Seq(Hook) /\ run.results \in Seq(Results) /\ run.blocked \in BOOLEAN
  BY DEF Typed, Runs, Results
<1>4. h \in Hook /\ rest \in Seq(Hook) /\ run.todo = <<h>> \o rest
  <2>1. \A X : \A s \in Seq(X) : s # <<>> =>
          Head(s) \in X /\ Tail(s) \in Seq(X) /\ s = <<Head(s)>> \o Tail(s)
    OBVIOUS
  <2> QED BY <1>1, <1>3, <2>1
<1>5. /\ run' = [run EXCEPT
           !.todo = IF runs /\ Vetoes(ending) /\ StopsOnBlock(run.event) THEN <<>> ELSE rest,
           !.blocked = run.blocked \/ (runs /\ Vetoes(ending)),
           !.results = IF runs THEN Append(run.results, result) ELSE run.results]
  BY <1>2 DEF Execute
<1>6. run \in [event : Events \cup {None}, tool : Tools \cup {None}, todo : Seq(Hook),
               results : Seq([hook : Hook, ending : Endings]), blocked : BOOLEAN]
  BY DEF Typed, Runs
<1>7. /\ run'.event = run.event /\ run'.tool = run.tool
      /\ run'.todo = IF runs /\ Vetoes(ending) /\ StopsOnBlock(run.event) THEN <<>> ELSE rest
      /\ run'.blocked = (run.blocked \/ (runs /\ Vetoes(ending)))
      /\ run'.results = IF runs THEN Append(run.results, result) ELSE run.results
  BY <1>5, <1>6
<1>8. result \in Results
  BY <1>4 DEF Results
<1>9. run' \in Runs
  <2>1. run'.todo \in Seq(Hook)
    BY <1>4, <1>7
  <2>2. run'.results \in Seq(Results)
    BY <1>3, <1>7, <1>8
  <2>3. run'.blocked \in BOOLEAN
    BY <1>3, <1>7
  <2>4. DOMAIN run' = DOMAIN run
    BY <1>5
  <2>5. run' = [event |-> run'.event, tool |-> run'.tool, todo |-> run'.todo,
                results |-> run'.results, blocked |-> run'.blocked]
    BY <1>5, <1>6
  <2> QED BY <1>3, <1>7, <2>1, <2>2, <2>3, <2>5 DEF Runs, Results
<1> HIDE DEF h, rest, runs, result
<1>10. Typed' /\ RegistryExact' /\ InStep' /\ Persisted'
  BY <1>1, <1>9, SameContext DEF InStep
<1>11. ASSUME HeardSoFar, run'.todo = rest PROVE HeardSoFar'
  <2> DEFINE tool == run.tool
             done == HooksIn(run.results)
  <2>1. tool \in Tools /\ tool # None
    BY <1>11, HooksAssumption DEF HeardSoFar
  <2>2. done \o MatchIn(run.todo, tool) = Matching(local, run.event, tool)
    BY <1>11 DEF HeardSoFar, HooksRan, HooksIn
  <2>3. runs <=> tool \in h.tools
    BY <2>1 DEF runs
  <2>4. done \in Seq(Hook)
    BY <1>3, HooksInLaws
  <2>5. HooksIn(run'.results) = IF tool \in h.tools THEN done \o <<h>> ELSE done
    <3>1. HooksIn(Append(run.results, result)) = done \o <<result.hook>>
      BY <1>3, <1>8, HooksInLaws
    <3> HIDE DEF tool
    <3> QED BY <1>7, <2>3, <3>1 DEF result
  <2> HIDE DEF tool, done
  <2>6. done \o MatchIn(<<h>> \o rest, tool) =
          (IF tool \in h.tools THEN done \o <<h>> ELSE done) \o MatchIn(rest, tool)
    <3>1. MatchLaws(done, h, rest, tool)
      BY <1>4, <2>4, MatchFirst
    <3> QED BY <3>1 DEF MatchLaws
  <2>7. HooksIn(run'.results) \o MatchIn(rest, tool) = Matching(local, run.event, tool)
    BY <1>4, <2>2, <2>5, <2>6
  <2>8. HooksRan' = HooksIn(run'.results)
    BY DEF HooksRan, HooksIn
  <2>9. MatchIn(run.todo, run.tool)' = MatchIn(rest, tool)
    BY <1>7, <1>11 DEF MatchIn, tool
  <2>10. Matching(local, run.event, run.tool)' = Matching(local, run.event, tool)
    BY <1>1, <1>7 DEF Matching, tool
  <2>11. run'.tool \in Tools
    BY <1>7, <2>1 DEF tool
  <2> QED BY <2>7, <2>8, <2>9, <2>10, <2>11 DEF HeardSoFar
<1>12. ASSUME phase' = "running", run'.event = "PreToolUse", ~run'.blocked
       PROVE  HeardSoFar' /\ \A i \in DOMAIN run'.results : run'.results[i].ending # "vetoes"
  <2>1. phase = "running" /\ run.event = "PreToolUse" /\ ~run.blocked /\ ~(runs /\ Vetoes(ending))
    BY <1>1, <1>7, <1>12
  <2>2. HeardSoFar /\ \A i \in DOMAIN run.results : run.results[i].ending # "vetoes"
    BY <2>1 DEF Heard
  <2>3. run'.todo = rest
    BY <1>7, <2>1
  <2>4. HeardSoFar'
    BY <1>11, <2>2, <2>3
  <2>5. \A i \in DOMAIN run'.results : run'.results[i].ending # "vetoes"
    <3>1. CASE runs
      <4>1. ending # "vetoes"
        BY <2>1, <3>1 DEF Vetoes
      <4>2. run'.results = Append(run.results, result) /\ result.ending = ending
        BY <1>7, <3>1 DEF result
      <4>3. \A i \in DOMAIN run'.results :
              \/ run'.results[i] = result
              \/ i \in DOMAIN run.results /\ run'.results[i] = run.results[i]
        <5> DEFINE t == Append(run.results, result)
                   n == Len(run.results)
        <5>1. /\ n \in Nat /\ DOMAIN t = 1..(n + 1) /\ DOMAIN run.results = 1..n
              /\ t[n + 1] = result /\ \A i \in 1..n : t[i] = run.results[i]
          BY <1>3, <1>8
        <5>2. run'.results = t
          BY <4>2
        <5> HIDE DEF t, n
        <5>3. \A i \in 1..(n + 1) : i = n + 1 \/ i \in 1..n
          BY <5>1
        <5>4. ASSUME NEW i \in 1..(n + 1)
              PROVE  t[i] = result \/ (i \in 1..n /\ t[i] = run.results[i])
          BY <5>1, <5>3
        <5> QED BY <5>1, <5>2, <5>4
      <4> QED BY <2>2, <4>1, <4>2, <4>3
    <3>2. CASE ~runs
      <4>1. run'.results = run.results
        BY <1>7, <3>2
      <4> QED BY <2>2, <4>1
    <3> QED BY <3>1, <3>2
  <2> QED BY <2>4, <2>5
<1>13. ASSUME phase' = "running", run'.event = "PostToolUse" PROVE HeardSoFar'
  <2>1. phase = "running" /\ run.event = "PostToolUse"
    BY <1>1, <1>7, <1>13
  <2>2. run'.todo = rest
    BY <1>7, <2>1 DEF StopsOnBlock
  <2> QED BY <1>11, <2>1, <2>2 DEF Heard
<1>14. Heard'
  BY <1>12, <1>13 DEF Heard
<1> QED BY <1>10, <1>14

\* A call of the task, from the first hook before it to the last one after it.
LEMMA CallsKeep ==
  ASSUME Inv, CallTool \/ ToolBlocked \/ RunTool \/ ToolDone
  PROVE  Inv'
<1> USE DEF Inv
<1>1. /\ phase = "running" /\ phase' = phase /\ loaded' = loaded /\ active' = active
      /\ header' = header /\ saved' = saved /\ registry' = registry /\ local' = local
      /\ channel' = channel /\ before' = before
  BY DEF CallTool, ToolBlocked, RunTool, ToolDone, Free, task
<1>2. \/ run' = NoRun
      \/ \E t \in Tools : run' = Begin(local, "PreToolUse", t)
      \/ \E t \in Tools : run' = Begin(local, "PostToolUse", t)
  <2>1. ASSUME RunTool PROVE run.tool \in Tools
    <3>1. run.event = "PreToolUse" /\ ~run.blocked
      BY <2>1 DEF RunTool
    <3> QED BY <1>1, <3>1 DEF Heard, HeardSoFar
  <2> QED BY <2>1 DEF CallTool, ToolBlocked, RunTool, ToolDone
<1>3. /\ run' \in Runs
      /\ run'.event \in {"PreToolUse", "PostToolUse"} => HeardSoFar' /\ run'.results = <<>>
  <2>1. CASE run' = NoRun
    BY <2>1, NoRunTyped DEF None
  <2>2. ASSUME NEW t \in Tools, NEW e \in {"PreToolUse", "PostToolUse"}, run' = Begin(local, e, t)
        PROVE  run' \in Runs /\ HeardSoFar' /\ run'.results = <<>>
    <3>1. e \in Events
      BY DEF Events
    <3>2. run' \in Runs
      BY <2>2, <3>1, BeginTyped DEF Typed
    <3>3. HeardSoFar' /\ run'.results = <<>>
      BY <1>1, <2>2, <3>1, BeginHeard
    <3> QED BY <3>2, <3>3
  <2> QED BY <1>2, <2>1, <2>2
<1>4. Typed' /\ RegistryExact' /\ InStep' /\ Persisted'
  BY <1>1, <1>3, SameContext
<1>5. Heard'
  BY <1>3 DEF Heard
<1> QED BY <1>4, <1>5

\* The task ends, and the Stop hooks let the turn end or send it on.
LEMMA EndsKeep ==
  ASSUME Inv, Finish \/ Stopped
  PROVE  Inv'
<1> USE DEF Inv
<1>1. /\ loaded' = loaded /\ active' = active
      /\ header' = header /\ saved' = saved /\ registry' = registry /\ before' = before
  BY DEF Finish, Stopped
<1>2. ASSUME run' \in Runs, phase' \in {"idle", "stopping"}, channel = <<>>, UNCHANGED task
      PROVE  Inv'
  <2>1. Typed' /\ RegistryExact' /\ InStep' /\ Persisted'
    BY <1>1, <1>2, SameContext DEF task
  <2>2. Heard'
    BY <1>2 DEF Heard
  <2> QED BY <2>1, <2>2
<1>3. CASE Finish
  <2>1. run' = Begin(registry, "Stop", None) /\ channel = <<>> /\ phase' = "stopping" /\ UNCHANGED task
    BY <1>3 DEF Finish
  <2>2. run' \in Runs
    BY <2>1, BeginTyped DEF Typed, Events
  <2> QED BY <1>2, <2>1, <2>2
<1>4. CASE Stopped /\ phase' = "idle"
  <2>1. phase = "stopping" /\ run' = NoRun /\ UNCHANGED task
    BY <1>4 DEF Stopped, Restart
  <2>2. channel = <<>>
    BY <2>1 DEF InStep
  <2> QED BY <1>2, <1>4, <2>1, <2>2, NoRunTyped
<1>5. CASE Stopped /\ phase' # "idle"
  <2>1. run' = NoRun /\ Restart
    BY <1>5 DEF Stopped
  <2>2. local' = registry /\ channel' = <<>> /\ phase' = "running"
    BY <2>1 DEF Restart
  <2>3. RegisterAll(registry, <<>>) = registry /\ LoadedOK
    BY RegisterAllSteps DEF Typed
  <2>4. channel' \in Seq(Labels) /\ registry' \in Registry
    BY <1>1, <2>2, SeqFacts DEF Typed, SeqLaws
  <2>5. InStep'
    BY <1>1, <2>2, <2>3, <2>4, StaysInStep
  <2>6. Typed'
    <3>1. LoadedOK'
      BY <1>1, <2>3, SameLoaded
    <3> QED BY <1>1, <2>1, <2>2, <2>4, <3>1, NoRunTyped DEF Typed
  <2>7. RegistryExact'
    BY <1>1, SameSkills
  <2>8. Persisted' /\ Heard'
    BY <1>1, <2>1, <2>2, NoRunTyped DEF Persisted, Heard, None
  <2> QED BY <2>5, <2>6, <2>7, <2>8
<1> QED BY <1>3, <1>4, <1>5

LEMMA NextKeeps ==
  ASSUME Inv, [Next]_vars
  PROVE  Inv'
<1>1. CASE EditScripts \/ UNCHANGED vars
  <2>1. /\ loaded' = loaded /\ active' = active /\ header' = header /\ saved' = saved
        /\ registry' = registry /\ local' = local /\ channel' = channel /\ before' = before
        /\ run' = run /\ phase' = phase
    BY <1>1 DEF EditScripts, vars, task
  <2>2. run \in Runs /\ (phase # "running" => channel = <<>>)
    BY DEF Inv, Typed, InStep
  <2>3. Typed' /\ RegistryExact' /\ InStep' /\ Persisted'
    BY <2>1, <2>2, SameContext
  <2>4. Heard'
    BY <2>1 DEF Inv, Heard, HeardSoFar, HooksRan, Matching, MatchIn
  <2> QED BY <2>3, <2>4 DEF Inv
<1>2. CASE Next
  BY <1>1, <1>2, RunHookKeeps, PromptsKeep, SubmitKeeps, CommandsKeep, ActivateByModelKeeps,
     ApplyActivationKeeps, CallsKeep, EndsKeep DEF Next
<1> QED BY <1>1, <1>2

LEMMA InvHolds == Spec => []Inv
<1>1. Init => Inv
  BY InitInv
<1>2. Inv /\ [Next]_vars => Inv'
  BY NextKeeps
<1> QED BY <1>1, <1>2, PTL DEF Spec

-----------------------------------------------------------------------------
(* Between turns and during one, whatever was activated, rolled back,      *)
(* resumed or reloaded and in whatever order read_dir and the HashSet gave *)
(* the names, the registry holds each hook of each active skill once and   *)
(* none of another, and a running task's copy is what the registry will be *)
(* once the activations it announced are read (src/hooks/mod.rs register   *)
(* and rebuild, handle_skill_activation_event in agent_events.rs).         *)
THEOREM RegistriesStayExact == Spec => []RegistriesExact
<1>1. Inv => RegistriesExact
  BY DEF Inv, InStep, RegistriesExact
<1> QED BY <1>1, InvHolds, PTL

(* No tool runs before every PreToolUse hook of the task's registry that   *)
(* matches it ran to its end without a veto, and no PostToolUse hook that  *)
(* matches is passed over, an objection of an earlier one notwithstanding  *)
(* (run_tool_hooks in src/hooks/mod.rs, called by the agent's tool loop).  *)
THEOREM HooksStayHeard == Spec => []HooksHeard
<1>1. Inv => HooksHeard
  <2> SUFFICES ASSUME Inv PROVE HooksHeard
    OBVIOUS
  <2>1. ASSUME HeardSoFar, Ran PROVE HooksRan = Matching(local, run.event, run.tool)
    <3>1. run.results \in Seq(Results)
      BY DEF Inv, Typed, Runs, Results
    <3>2. HooksRan \in Seq(Hook)
      BY <3>1, HooksInLaws DEF HooksRan, HooksIn
    <3>3. MatchIn(<<>>, run.tool) = <<>>
      <4>1. OnlyLaws(Hook, {g \in Hook : run.tool \in g.tools})
        BY OnlySteps
      <4> QED BY <4>1 DEF OnlyLaws, MatchIn
    <3>4. HooksRan \o <<>> = HooksRan
      BY <3>2
    <3>5. MatchIn(run.todo, run.tool) = <<>>
      BY <2>1, <3>3 DEF Ran
    <3> QED BY <2>1, <3>4, <3>5 DEF HeardSoFar
  <2>2. VetoHolds
    BY <2>1 DEF Inv, Heard, VetoHolds
  <2>3. ObjectionsHeard
    BY <2>1 DEF Inv, Heard, ObjectionsHeard
  <2> QED BY <2>2, <2>3 DEF HooksHeard
<1> QED BY <1>1, InvHolds, PTL

(* Once the session has a header it lists every active skill, whoever      *)
(* activated it and whenever: before the session was created, by the user, *)
(* by the model, or by a rolled-back turn (App::activate_skill, ensure_    *)
(* session and undo_turn_setup), so a resumed session activates them again.*)
THEOREM ActiveStaysPersisted == Spec => []ActivePersisted
<1>1. Inv => ActivePersisted
  BY DEF Inv, Persisted, ActivePersisted
<1> QED BY <1>1, InvHolds, PTL
=============================================================================
