--------------------------- MODULE Provider_proofs ---------------------------
(***************************************************************************)
(* The provider seen from the program, for every value of its constants.   *)
(***************************************************************************)
EXTENDS Provider, Induction, TLAPS

-----------------------------------------------------------------------------
(* The models: what the user configured, what a file says and what is live *)
(* of it.                                                                  *)

\* The models the user configured come first, as they were.
Keeps(list) == Len(user) <= Len(list) /\ \A i \in 1 .. Len(user) : list[i] = user[i]

Configs ==
  [kind : {"openai", "llamacpp"}, models : Seq(Config!Model), active : Config!Name,
   ui : Config!Displays]
Mine == [name |-> live.name, ctx |-> live.ctx, vision |-> live.vision]
LiveModel ==
  [name : Config!Name, ctx : Nat, vision : BOOLEAN, loaded : BOOLEAN \cup {Absent}]

FilesTyped ==
  /\ file \in Config!File \cup {Absent, Torn}
  /\ user \in Seq(Config!Model)
  /\ server \in Servers
  /\ cache \in Seq(Config!Entry) \cup {Absent}
  /\ file = Absent => user = <<>>
  /\ file \in Config!File => Keeps(Config!Parse(file).models)

OpenAI ==
  /\ live \in LiveModel
  /\ live.name \in Config!Names(user) => Config!Find(user, live.name) = Mine
  /\ fetch = Absent
  /\ picker # Absent => picker \subseteq Config!Names(conf.models)

Running ==
  /\ file \in Config!File \cup {Torn}
  /\ file # Torn => Config!Kind(file) = conf.kind
  /\ conf \in Configs
  /\ display \in Config!Displays
  /\ conf.kind = "llamacpp" => conf.models = <<>> /\ conf.active = ""
  /\ Keeps(conf.models)
  /\ conf.kind = "openai" => OpenAI

ModelsInv ==
  IF part = "models" THEN FilesTyped /\ (up => Running)
  ELSE up = FALSE /\ user = <<>>

LEMMA Distinct ==
  /\ UserFiles \subseteq Config!File /\ Servers \subseteq Seq(Config!Entry)
  /\ Absent \notin Seq(Config!Written) /\ Other \notin Seq(Config!Written)
  /\ Absent \notin Seq(Config!Entry)
  /\ Absent \notin Config!Name /\ Other \notin Config!Name
  /\ Absent \notin Nat /\ Other \notin Nat
  /\ Absent \notin BOOLEAN /\ Other \notin BOOLEAN
  /\ Absent \notin Config!Displays /\ Other \notin Config!Displays
  /\ Absent \notin Config!File /\ Torn \notin Config!File /\ Torn # Absent
<1>1. Config!ModelsAssumption
  BY ProviderAssumption
<1>2. /\ UserFiles \subseteq Config!File /\ Servers \subseteq Seq(Config!Entry)
      /\ Absent \notin Seq(Config!Entry)
      /\ {Absent, Torn} \cap Config!File = {} /\ Absent # Torn
  BY <1>1 DEF Config!ModelsAssumption
<1>3. \A x \in {Absent, Other} :
        x \notin Seq(Config!Written) \cup Config!Name \cup Nat \cup BOOLEAN \cup Config!Displays
  BY <1>1 DEF Config!ModelsAssumption
<1>4. \A x \in {Absent, Other} :
        /\ x \notin Seq(Config!Written) /\ x \notin Config!Name /\ x \notin Nat
        /\ x \notin BOOLEAN /\ x \notin Config!Displays
  <2> DEFINE A == Seq(Config!Written)
             B == Config!Name
             C == Nat
             D == BOOLEAN
             E == Config!Displays
  <2>1. \A x \in {Absent, Other} : x \notin A \cup B \cup C \cup D \cup E
    BY <1>3
  <2> HIDE DEF A, B, C, D, E
  <2>2. \A x \in {Absent, Other} : x \notin A /\ x \notin B /\ x \notin C /\ x \notin D /\ x \notin E
    BY <2>1
  <2> QED BY <2>2 DEF A, B, C, D, E
<1>5. Absent \notin Config!File /\ Torn \notin Config!File
  BY <1>2, Zenon
<1> QED BY <1>2, <1>4, <1>5, Zenon

\* The default window is one.
LEMMA DefaultWindow == WindowMax \in Nat /\ 32768 \in 0 .. WindowMax
<1>1. Config!ModelsAssumption
  BY ProviderAssumption
<1>2. WindowMax \in Nat /\ WindowMax >= 32768
  BY <1>1 DEF Config!ModelsAssumption
<1> QED BY <1>2

LEMMA DisplayLaws ==
  /\ Config!Displays = {"hidden", "collapsed", "expanded"}
  /\ \A d \in Config!Displays : Config!NextDisplay[d] \in Config!Displays
BY DEF Config!Displays, Config!NextDisplay

\* The first of a name is one of that name.
LEMMA FindLaws ==
  ASSUME NEW S, NEW list \in Seq(S), NEW n \in Config!Names(list)
  PROVE  \E i \in 1 .. Len(list) :
            /\ Config!Find(list, n) = list[i] /\ list[i].name = n
            /\ \A j \in 1 .. i - 1 : list[j].name # n
<1> DEFINE T == {i \in 1 .. Len(list) : list[i].name = n}
           R == {Len(list) - i : i \in T}
<1>1. Len(list) \in Nat /\ DOMAIN list = 1 .. Len(list)
  OBVIOUS
<1>2. PICK i \in T : \A j \in T : i <= j
  <2>1. PICK t \in T : TRUE
    BY <1>1 DEF Config!Names
  <2>2. \A j \in T : Len(list) - j \in 0 .. Len(list)
    BY <1>1
  <2>3. R \in SUBSET (0 .. Len(list)) /\ R # {}
    <3>1. Len(list) - t \in R
      BY <2>1
    <3> HIDE DEF T
    <3> QED BY <2>2, <3>1
  <2>4. PICK r \in R : \A y \in R : r >= y
    <3> HIDE DEF R
    <3> QED BY <1>1, <2>3, LargestExists
  <2>5. PICK i \in T : r = Len(list) - i
    BY <2>4
  <2>6. ASSUME NEW j \in T PROVE i <= j
    <3>1. Len(list) - j \in R
      OBVIOUS
    <3>2. r >= Len(list) - j
      BY <2>4, <3>1
    <3>3. i \in Nat /\ j \in Nat
      BY <1>1
    <3> HIDE DEF R, T
    <3> QED BY <1>1, <2>5, <3>2, <3>3
  <2> QED BY <2>6
<1>3. i \in DOMAIN list /\ list[i].name = n /\ \A j \in 1 .. i - 1 : list[j].name # n
  <2>1. i \in 1 .. Len(list) /\ list[i].name = n
    OBVIOUS
  <2>2. ASSUME NEW j \in 1 .. i - 1, list[j].name = n PROVE FALSE
    <3>1. j \in T /\ ~(i <= j)
      BY <1>1, <2>1, <2>2
    <3> HIDE DEF T
    <3> QED BY <1>2, <3>1
  <2> QED BY <1>1, <2>1, <2>2
<1> DEFINE First(k) == list[k].name = n /\ \A j \in 1 .. k - 1 : list[j].name # n
           c == CHOOSE k \in DOMAIN list : First(k)
<1>4. c \in DOMAIN list /\ First(c)
  <2>1. \E k \in DOMAIN list : First(k)
    BY <1>3
  <2> HIDE DEF First
  <2> QED BY <2>1
<1>5. Config!Find(list, n) = list[c]
  BY DEF Config!Find
<1> HIDE DEF c
<1> QED BY <1>1, <1>4, <1>5

\* What was configured is still found, wherever the rest comes from.
LEMMA StillFound ==
  ASSUME user \in Seq(Config!Model), NEW list \in Seq(Config!Model), Keeps(list),
         NEW n \in Config!Names(user)
  PROVE  Config!Find(list, n) = Config!Find(user, n) /\ n \in Config!Names(list)
<1> DEFINE M == Config!Model
<1> HIDE DEF M
<1>1. user \in Seq(M) /\ list \in Seq(M)
  BY DEF M
<1>2. PICK i \in 1 .. Len(user) : /\ Config!Find(user, n) = user[i] /\ user[i].name = n
                                 /\ \A j \in 1 .. i - 1 : user[j].name # n
  BY <1>1, FindLaws
<1>3. Len(user) \in Nat /\ Len(list) \in Nat /\ DOMAIN list = 1 .. Len(list)
  BY <1>1
<1>4. i \in 1 .. Len(list) /\ list[i] = user[i]
  BY <1>3 DEF Keeps
<1>5. n \in Config!Names(list)
  BY <1>2, <1>3, <1>4 DEF Config!Names
<1>6. PICK k \in 1 .. Len(list) : /\ Config!Find(list, n) = list[k] /\ list[k].name = n
                                 /\ \A j \in 1 .. k - 1 : list[j].name # n
  BY <1>1, <1>5, FindLaws
<1>7. ~(i < k)
  BY <1>2, <1>3, <1>4, <1>6
<1>8. ~(k < i)
  <2> SUFFICES ASSUME k < i PROVE FALSE
    OBVIOUS
  <2>1. k \in 1 .. i - 1 /\ k \in 1 .. Len(user)
    BY <1>3
  <2>2. list[k] = user[k]
    BY <2>1 DEF Keeps
  <2> QED BY <1>2, <1>6, <2>1, <2>2
<1>9. i = k
  BY <1>3, <1>7, <1>8
<1> QED BY <1>2, <1>4, <1>5, <1>6, <1>9

\* What a server reports is put behind what is configured.
LEMMA DiscoveredLaws ==
  ASSUME user \in Seq(Config!Model), NEW list \in Seq(Config!Model), Keeps(list),
         NEW body \in Seq(Config!Entry)
  PROVE  LET known == Config!Discovered(list, body)
         IN known \in Seq(Config!Model) /\ Keeps(known)
<1> DEFINE S == {s \in Seq(Config!Model) : Keeps(s)}
           X == Config!Entry
           basic(e) == [name |-> e.name, ctx |-> e.ctx]
           step == [q \in S \X X |-> Config!Add(q[1], basic(q[2]))]
           F(g) == g = [i \in 0 .. Len(body) |->
                          IF i = 0 THEN list ELSE Config!Add(g[i - 1], Config!Basic(body)[i])]
           known == CHOOSE g : F(g)
<1>1. ASSUME NEW s \in S, NEW e \in X PROVE Config!Add(s, basic(e)) \in S
  <2> DEFINE new == [name |-> e.name, ctx |-> Config!Or(e.ctx, 32768), vision |-> TRUE]
  <2>1. new \in Config!Model
    <3>1. 32768 \in 0 .. WindowMax
      BY DefaultWindow
    <3>2. e.name \in Config!Named /\ e.ctx \in 0 .. WindowMax \cup {Absent}
      BY DEF Config!Entry
    <3>3. Config!Or(e.ctx, 32768) \in 0 .. WindowMax
      BY <3>1, <3>2 DEF Config!Or
    <3> QED BY <3>2, <3>3 DEF Config!Model
  <2>2. Config!Add(s, basic(e)) = IF e.name \in Config!Names(s) THEN s ELSE Append(s, new)
    BY DEF Config!Add
  <2> HIDE DEF new
  <2>3. s \in Seq(Config!Model) /\ Keeps(s)
    OBVIOUS
  <2> DEFINE M == Config!Model
  <2>4. Append(s, new) \in S
    <3>1. s \in Seq(M) /\ new \in M
      BY <2>1, <2>3
    <3> HIDE DEF M
    <3>2. /\ Append(s, new) \in Seq(M) /\ Len(Append(s, new)) = Len(s) + 1 /\ Len(s) \in Nat
          /\ \A i \in 1 .. Len(s) : Append(s, new)[i] = s[i]
      BY <3>1
    <3>3. Len(user) \in Nat
      OBVIOUS
    <3>4. Keeps(Append(s, new))
      BY <2>3, <3>2, <3>3 DEF Keeps
    <3> QED BY <3>2, <3>4 DEF M
  <2> QED BY <2>2, <2>4
<1>2. list \in S
  OBVIOUS
<1>3. Len(body) \in Nat /\ \A i \in 1 .. Len(body) : body[i] \in X
  <2> HIDE DEF X
  <2>1. body \in Seq(X)
    BY DEF X
  <2> QED BY <2>1
<1>4. \A i \in 1 .. Len(body) : Config!Basic(body)[i] = basic(body[i])
  BY <1>3 DEF Config!Basic
<1> HIDE DEF S, X, basic
<1>5. step \in Steps(S, X) /\ \A s \in S, e \in X : step[<<s, e>>] = Config!Add(s, basic(e))
  BY <1>1 DEF Steps
<1> HIDE DEF step
<1>6. body \in Seq(X)
  BY DEF X
<1>7. Config!Discovered(list, body) = known[Len(body)]
  BY DEF Config!Discovered
<1> HIDE DEF known
<1> PICK h : IsWalk(h, step, list, body)
  BY <1>2, <1>5, <1>6, WalkExists
<1>8. \A i \in 0 .. Len(body) : h[i] \in S
  BY <1>2, <1>5, <1>6, WalkStays
<1>9. F([i \in 0 .. Len(body) |-> h[i]])
  <2> DEFINE g == [i \in 0 .. Len(body) |-> h[i]]
  <2>1. g[0] = list
    BY <1>3 DEF IsWalk
  <2>2. ASSUME NEW i \in 1 .. Len(body) PROVE g[i] = Config!Add(g[i - 1], Config!Basic(body)[i])
    <3>1. i \in 0 .. Len(body) /\ i - 1 \in 0 .. Len(body)
      BY <1>3
    <3>2. h[i] = step[<<h[i - 1], body[i]>>]
      BY DEF IsWalk
    <3>3. h[i - 1] \in S /\ body[i] \in X
      BY <1>3, <1>8, <3>1
    <3>4. h[i] = Config!Add(h[i - 1], basic(body[i]))
      BY <1>5, <3>2, <3>3
    <3> QED BY <1>4, <3>1, <3>4
  <2>3. g = [i \in 0 .. Len(body) |-> g[i]]
    OBVIOUS
  <2> HIDE DEF g
  <2>4. \A i \in 0 .. Len(body) :
          g[i] = IF i = 0 THEN list ELSE Config!Add(g[i - 1], Config!Basic(body)[i])
    BY <1>3, <2>1, <2>2
  <2>5. F(g)
    BY <2>3, <2>4
  <2> QED BY <2>5 DEF g
<1>10. F(known)
  <2>1. \E g : F(g)
    BY <1>9
  <2> HIDE DEF F
  <2> QED BY <2>1, Zenon DEF known
<1>11. Obeys(known, S, step, list, body, Len(body))
  <2>1. known[0] = list
    BY <1>3, <1>10
  <2>2. ASSUME NEW i \in 1 .. Len(body), known[i - 1] \in S
        PROVE  known[i] = step[<<known[i - 1], body[i]>>]
    <3>1. known[i] = Config!Add(known[i - 1], Config!Basic(body)[i])
      <4>1. i \in 0 .. Len(body) /\ i # 0
        BY <1>3
      <4> QED BY <1>10, <4>1
    <3> HIDE DEF F
    <3> QED BY <1>3, <1>4, <1>5, <2>2, <3>1
  <2> HIDE DEF F
  <2> QED BY <2>1, <2>2 DEF Obeys
<1> HIDE DEF F
<1>12. known[Len(body)] \in S
  BY <1>2, <1>5, <1>6, <1>11, WalkedIsEnd
<1> QED BY <1>7, <1>12 DEF S

\* A window is read with a bound, and one within it as it is.
LEMMA WindowLaws ==
  /\ \A x \in Config!Key(Nat) : Config!Window(x) \in 0 .. WindowMax
  /\ \A x \in 0 .. WindowMax : Config!Window(x) = x
<1>1. WindowMax \in Nat /\ 32768 \in 0 .. WindowMax
  BY DefaultWindow
<1>2. \A x \in Nat : Config!Or(x, 32768) = x
  BY Distinct DEF Config!Or
<1>3. \A x \in Config!Key(Nat) : Config!Or(x, 32768) \in Nat
  BY DEF Config!Or, Config!Key
<1>4. ASSUME NEW x \in Config!Key(Nat) PROVE Config!Window(x) \in 0 .. WindowMax
  BY <1>1, <1>3 DEF Config!Window
<1>5. ASSUME NEW x \in 0 .. WindowMax PROVE Config!Window(x) = x
  BY <1>1, <1>2 DEF Config!Window
<1> QED BY <1>4, <1>5

\* What an entry of the file gives.
Given == [m \in Config!Written |-> Config!Read(m)]

\* An entry gives a model or nothing, and a saved model gives itself.
LEMMA GivenLaws ==
  /\ Gives(Config!Written, Config!Model, Given)
  /\ Config!Model \subseteq Config!Written
  /\ \A m \in Config!Model : Given[m] = <<m>>
<1>1. Config!Model \subseteq Config!Written
  <2> SUFFICES ASSUME NEW m \in Config!Model PROVE m \in Config!Written
    BY Zenon
  <2>1. /\ m.name \in Config!Named /\ m.ctx \in 0 .. WindowMax /\ m.vision \in BOOLEAN
        /\ m = [name |-> m.name, ctx |-> m.ctx, vision |-> m.vision]
    BY DEF Config!Model
  <2>2. m.name \in Config!Key(Config!Name)
    BY <2>1, Zenon DEF Config!Key, Config!Named
  <2>3. m.ctx \in Config!Key(Nat)
    <3>1. m.ctx \in Nat
      BY <2>1, DefaultWindow
    <3> QED BY <3>1 DEF Config!Key
  <2>4. m.vision \in Config!Key(BOOLEAN)
    BY <2>1, Zenon DEF Config!Key
  <2> QED BY <2>1, <2>2, <2>3, <2>4 DEF Config!Written
<1>2. ASSUME NEW m \in Config!Written PROVE Config!Read(m) \in Seq(Config!Model)
  <2> DEFINE M == Config!Model
             read == [name |-> m.name, ctx |-> Config!Window(m.ctx), vision |-> Config!Or(m.vision, TRUE)]
  <2>1. Config!Read(m) = IF Config!Or(m.name, "") = "" THEN <<>> ELSE <<read>>
    BY DEF Config!Read
  <2>2. Config!Or(m.name, "") # "" => read \in M
    <3> SUFFICES ASSUME Config!Or(m.name, "") # "" PROVE read \in M
      OBVIOUS
    <3>1. m.name \in Config!Key(Config!Name) /\ m.ctx \in Config!Key(Nat) /\ m.vision \in Config!Key(BOOLEAN)
      BY DEF Config!Written
    <3>2. m.name \in Config!Named
      BY <3>1 DEF Config!Named, Config!Or, Config!Key
    <3>3. Config!Or(m.vision, TRUE) \in BOOLEAN
      BY <3>1 DEF Config!Or, Config!Key
    <3>4. Config!Window(m.ctx) \in 0 .. WindowMax
      BY <3>1, WindowLaws
    <3> QED BY <3>2, <3>3, <3>4 DEF Config!Model
  <2> HIDE DEF read, M
  <2>3. <<>> \in Seq(M) /\ (read \in M => <<read>> \in Seq(M))
    OBVIOUS
  <2> QED BY <2>1, <2>2, <2>3 DEF M
<1>3. ASSUME NEW m \in Config!Model PROVE Config!Read(m) = <<m>>
  <2>1. /\ m.name \in Config!Named /\ m.ctx \in 0 .. WindowMax /\ m.vision \in BOOLEAN
        /\ m = [name |-> m.name, ctx |-> m.ctx, vision |-> m.vision]
    BY DEF Config!Model
  <2>2. Config!Or(m.name, "") = m.name /\ m.name # ""
    BY <2>1, Distinct DEF Config!Or, Config!Named
  <2>3. Config!Or(m.vision, TRUE) = m.vision
    BY <2>1, Distinct, Zenon DEF Config!Or
  <2>4. Config!Window(m.ctx) = m.ctx
    BY <2>1, WindowLaws
  <2> QED BY <2>1, <2>2, <2>3, <2>4 DEF Config!Read
<1>4. \A m \in Config!Written : Given[m] = Config!Read(m)
  BY DEF Given
<1>5. Given \in [Config!Written -> Seq(Config!Model)]
  BY <1>2, <1>4 DEF Given
<1> QED BY <1>1, <1>3, <1>4, <1>5 DEF Gives

\* A list gives a list of models, and a saved one gives itself.
LEMMA ReadLaws ==
  ASSUME NEW list \in Seq(Config!Written)
  PROVE  LET read == Config!FlattenSeq([i \in DOMAIN list |-> Config!Read(list[i])])
         IN read \in Seq(Config!Model) /\ (list \in Seq(Config!Model) => read = list)
<1> DEFINE W == Config!Written
           M == Config!Model
<1>1. \A ss : Config!FlattenSeq(ss) = FlattenSeq(ss)
  BY Zenon DEF Config!FlattenSeq, FlattenSeq
<1>2. Config!FlattenSeq([i \in DOMAIN list |-> Config!Read(list[i])]) = Flat(Given, list)
  <2>1. ASSUME NEW i \in DOMAIN list PROVE Config!Read(list[i]) = Given[list[i]]
    <3> HIDE DEF W
    <3>1. list \in Seq(W)
      BY DEF W
    <3>2. list[i] \in W
      BY <3>1
    <3> QED BY <3>2 DEF Given, W
  <2>2. [i \in DOMAIN list |-> Config!Read(list[i])] = [i \in DOMAIN list |-> Given[list[i]]]
    BY <2>1
  <2> QED BY <1>1, <2>2 DEF Flat
<1>3. Given \in [W -> Seq(M)] /\ M \subseteq W /\ \A m \in M : Given[m] = <<m>>
  BY GivenLaws DEF Gives
<1> DEFINE op == Given
           T == {s \in Seq(M) : Flat(op, s) = s}
<1> HIDE DEF W, M, op
<1>4. /\ Flat(op, <<>>) = <<>>
      /\ \A s \in Seq(W) : Flat(op, s) \in Seq(M)
      /\ \A s \in Seq(W) : \A e \in W : Flat(op, Append(s, e)) = Flat(op, s) \o op[e]
  BY <1>3, FlatLaws DEF op
<1>5. T = Seq(M)
  <2>1. <<>> \in T
    BY <1>4
  <2>2. ASSUME NEW s \in T, NEW e \in M PROVE Append(s, e) \in T
    <3>1. s \in Seq(M) /\ Flat(op, s) = s
      OBVIOUS
    <3>2. s \in Seq(W) /\ e \in W /\ op[e] = <<e>>
      BY <1>3, <3>1 DEF op
    <3>3. Append(s, e) \in Seq(M) /\ Append(s, e) = s \o <<e>>
      BY <3>1
    <3>4. Flat(op, Append(s, e)) = Append(s, e)
      BY <1>4, <3>1, <3>2, <3>3
    <3> QED BY <3>3, <3>4
  <2>3. T \in SUBSET Seq(M)
    OBVIOUS
  <2> HIDE DEF T
  <2> QED BY <2>1, <2>2, <2>3, SeqInduction
<1>6. Flat(op, list) \in Seq(M) /\ (list \in Seq(M) => Flat(op, list) = list)
  BY <1>4, <1>5 DEF W
<1> QED BY <1>2, <1>6 DEF M, op

\* A file is read as a configuration, and a saved one as what was saved.
LEMMA ParseLaws ==
  ASSUME NEW raw \in Config!File
  PROVE  /\ Config!Parse(raw) \in Configs
         /\ Config!Parse(raw).kind = Config!Kind(raw)
         /\ Config!Parse(raw).kind = "llamacpp" =>
              Config!Parse(raw).models = <<>> /\ Config!Parse(raw).active = ""
         /\ Config!Parse(raw).models = Config!ParsedModels(raw)
         /\ raw.models \in Seq(Config!Model) => Config!Parse(raw).models = raw.models
<1> DEFINE M == Config!Model
           N == Config!Name
           D == Config!Displays
           W == Config!Written
           models == Config!ParsedModels(raw)
           first == [name |-> Config!Or(raw.model, "llama3.2"), ctx |-> Config!Window(raw.window),
                     vision |-> Config!Or(raw.vision, TRUE)]
           listed == Config!FlattenSeq([i \in DOMAIN raw.models |-> Config!Read(raw.models[i])])
           active == IF Config!Kind(raw) = "llamacpp" THEN ""
                     ELSE Config!Or(raw.active, Config!Or(raw.model, IF models = <<>> THEN "" ELSE models[1].name))
           ui == Config!Or(raw.ui, "collapsed")
<1>1. /\ raw.models \in Seq(W) \cup {Absent, Other} /\ raw.active \in N \cup {Absent, Other}
      /\ raw.model \in Config!Named \cup {Absent, Other} /\ raw.ui \in D \cup {Absent}
      /\ raw.window \in Config!Key(Nat) /\ raw.vision \in BOOLEAN \cup {Absent, Other}
  BY DEF Config!File, Config!Key
<1>2. Config!Kind(raw) \in {"openai", "llamacpp"}
  BY DEF Config!Kind
<1>3. first \in M
  <2>1. Config!Or(raw.model, "llama3.2") \in Config!Named
    BY <1>1 DEF Config!Or, Config!Name, Config!Named
  <2>2. Config!Window(raw.window) \in 0 .. WindowMax
    BY <1>1, WindowLaws
  <2>3. Config!Or(raw.vision, TRUE) \in BOOLEAN
    BY <1>1 DEF Config!Or
  <2> QED BY <2>1, <2>2, <2>3 DEF Config!Model
<1>4. /\ models = IF Config!Kind(raw) = "llamacpp" THEN <<>>
                  ELSE IF raw.models \notin {Absent, Other} THEN listed ELSE <<first>>
  BY DEF Config!ParsedModels
<1>5. Config!Kind(raw) = "llamacpp" => raw.models = Absent
  BY DEF Config!Kind, Config!HasModelBlock
<1>6. Config!Parse(raw) = [kind |-> Config!Kind(raw), models |-> models, active |-> active, ui |-> ui]
  BY DEF Config!Parse
<1>7. \A m \in M : m.name \in N
  BY DEF Config!Model, Config!Named
<1>17. raw.models \in Seq(W) => listed \in Seq(M) /\ (raw.models \in Seq(M) => listed = raw.models)
  BY ReadLaws
<1>18. /\ \A s \in Seq(M) : s \in Seq(W)
       /\ Absent \notin Seq(W) /\ Other \notin Seq(W)
  <2>1. M \subseteq W
    BY GivenLaws
  <2>2. Absent \notin Seq(W) /\ Other \notin Seq(W)
    BY Distinct
  <2> HIDE DEF M, W
  <2> QED BY <2>1, <2>2
<1> HIDE DEF models, first, M, W, listed
<1>8. models \in Seq(M)
  <2>1. <<>> \in Seq(M) /\ <<first>> \in Seq(M)
    BY <1>3
  <2> QED BY <1>1, <1>4, <1>17, <2>1
<1>9. models # <<>> => models[1] \in M
  BY <1>8
<1>10. active \in N
  BY <1>1, <1>7, <1>9 DEF Config!Or, Config!Name, Config!Named
<1>11. ui \in D
  BY <1>1, DisplayLaws DEF Config!Or
<1>12. Config!Kind(raw) = "llamacpp" => models = <<>> /\ active = ""
  BY <1>4
<1>13. raw.models \in Seq(M) => models = raw.models
  <2> SUFFICES ASSUME raw.models \in Seq(M) PROVE models = raw.models
    OBVIOUS
  <2>1. raw.models \in Seq(W) /\ raw.models \notin {Absent, Other}
    BY <1>18
  <2> QED BY <1>2, <1>4, <1>5, <1>17, <2>1
<1> HIDE DEF active, ui, N, D
<1>14. [kind |-> Config!Kind(raw), models |-> models, active |-> active, ui |-> ui] \in Configs
  BY <1>2, <1>8, <1>10, <1>11 DEF Configs, M, N, D
<1>15. /\ Config!Parse(raw).kind = Config!Kind(raw)
       /\ Config!Parse(raw).models = models
       /\ Config!Parse(raw).active = active
  BY <1>6
<1>16. Config!Parse(raw) \in Configs
  BY <1>6, <1>14
<1> QED BY <1>12, <1>13, <1>15, <1>16 DEF models, M

\* A sequence over a part is one over the whole.
LEMMA SeqGrows ==
  ASSUME NEW M, NEW W, M \subseteq W
  PROVE  \A s \in Seq(M) : s \in Seq(W)
OBVIOUS

LEMMA SaveLaws ==
  ASSUME NEW c \in Configs, c.kind = "llamacpp" => c.models = <<>> /\ c.active = ""
  PROVE  LET saved == Config!Serialize(c)
         IN saved \in Config!File /\ Config!Parse(saved) = c /\ Config!Kind(saved) = c.kind
<1> DEFINE saved == Config!Serialize(c)
           list == c.kind = "openai"
<1>1. /\ c.kind \in {"openai", "llamacpp"} /\ c.models \in Seq(Config!Model)
      /\ c.active \in Config!Name /\ c.ui \in Config!Displays
      /\ c = [kind |-> c.kind, models |-> c.models, active |-> c.active, ui |-> c.ui]
  BY DEF Configs
<1>2. /\ saved.type = c.kind /\ saved.models = (IF list THEN c.models ELSE Absent)
      /\ saved.active = (IF list THEN c.active ELSE Absent)
      /\ saved.model = Absent /\ saved.window = Absent /\ saved.vision = Absent /\ saved.ui = c.ui
  BY <1>1 DEF Config!Serialize
<1>11. c.models \in Seq(Config!Written)
  <2> DEFINE M == Config!Model
             W == Config!Written
  <2>1. c.models \in Seq(M) /\ M \subseteq W
    BY <1>1, GivenLaws
  <2> HIDE DEF M, W
  <2>2. \A s \in Seq(M) : s \in Seq(W)
    BY <2>1, SeqGrows
  <2>3. c.models \in Seq(W)
    BY <2>1, <2>2, Zenon
  <2> QED BY <2>3 DEF W
<1>3. saved \in Config!File
  <2> DEFINE S == Seq(Config!Written)
  <2>1. c.models \in S
    BY <1>11
  <2> HIDE DEF S
  <2>2. /\ (IF list THEN c.models ELSE Absent) \in Config!Key(S)
        /\ (IF list THEN c.active ELSE Absent) \in Config!Key(Config!Name)
    BY <1>1, <2>1 DEF Config!Key
  <2>3. /\ c.kind \in Config!Key({"openai", "llamacpp"}) /\ Absent \in Config!Key(Config!Named)
        /\ Absent \in Config!Key(Nat) /\ Absent \in Config!Key(BOOLEAN)
    BY <1>1 DEF Config!Key
  <2>4. saved = [type |-> c.kind, models |-> IF list THEN c.models ELSE Absent,
                 active |-> IF list THEN c.active ELSE Absent, model |-> Absent,
                 window |-> Absent, vision |-> Absent, ui |-> c.ui]
    BY <1>1 DEF Config!Serialize
  <2> HIDE DEF saved, list
  <2> QED BY <1>1, <2>2, <2>3, <2>4 DEF Config!File, S
<1>4. /\ c.models # Absent /\ c.active \notin {Absent, Other} /\ c.ui \notin {Absent, Other}
  BY <1>1, <1>11, Distinct
<1> HIDE DEF saved
<1>5. Config!Kind(saved) = c.kind
  BY <1>1, <1>2, <1>4 DEF Config!Kind, Config!HasModelBlock
<1> DEFINE p == Config!Parse(saved)
<1>6. p = [kind |-> c.kind, models |-> p.models, active |-> p.active, ui |-> p.ui]
  BY <1>5 DEF Config!Parse
<1>7. p.models = c.models
  <2>1. /\ saved.models \in Seq(Config!Model) => p.models = saved.models
        /\ p.kind = "llamacpp" => p.models = <<>>
    BY <1>3, ParseLaws
  <2>2. p.kind = c.kind
    BY <1>3, <1>5, ParseLaws
  <2> HIDE DEF p
  <2> QED BY <1>1, <1>2, <1>4, <2>1, <2>2
<1>8. p.active = c.active
  <2>1. p.active = IF Config!Kind(saved) = "llamacpp" THEN ""
                   ELSE Config!Or(saved.active, Config!Or(saved.model,
                          IF Config!ParsedModels(saved) = <<>> THEN ""
                          ELSE Config!ParsedModels(saved)[1].name))
    BY DEF Config!Parse
  <2> HIDE DEF p
  <2>2. CASE c.kind = "openai"
    <3>1. saved.active = c.active /\ c.active \notin {Absent, Other} /\ Config!Kind(saved) # "llamacpp"
      BY <1>2, <1>4, <1>5, <2>2
    <3> QED BY <2>1, <3>1 DEF Config!Or
  <2>3. CASE c.kind = "llamacpp"
    BY <1>5, <2>1, <2>3
  <2> QED BY <1>1, <2>2, <2>3
<1>9. p.ui = c.ui
  BY <1>2, <1>4 DEF Config!Parse, Config!Or
<1> HIDE DEF p
<1>10. p = c
  BY <1>1, <1>6, <1>7, <1>8, <1>9
<1> QED BY <1>3, <1>5, <1>10 DEF p, saved

\* What is read first is what a user configured.
LEMMA UserKept ==
  ASSUME NEW raw \in Config!File, user = Config!ParsedModels(raw)
  PROVE  user \in Seq(Config!Model) /\ Keeps(Config!Parse(raw).models)
<1> DEFINE M == Config!Model
<1>1. Config!Parse(raw).models \in Seq(M) /\ Config!Parse(raw).models = user
  BY ParseLaws DEF Configs
<1> HIDE DEF M
<1>2. user \in Seq(M)
  BY <1>1
<1>3. Len(user) \in Nat
  BY <1>2
<1> QED BY <1>1, <1>3 DEF Keeps, M

-----------------------------------------------------------------------------
(* What each step does to them.                                            *)

\* The live model is the one configured, when the user configured it.
LEMMA FoundIsMine ==
  ASSUME user \in Seq(Config!Model), NEW list \in Seq(Config!Model), Keeps(list),
         NEW n \in Config!Names(list)
  PROVE  /\ Config!Find(list, n) \in Config!Model
         /\ Config!Find(list, n).name = n
         /\ n \in Config!Names(user) => Config!Find(user, n) = Config!Find(list, n)
<1>1. n \in Config!Names(user) => Config!Find(user, n) = Config!Find(list, n)
  BY StillFound
<1> DEFINE M == Config!Model
<1> HIDE DEF M
<1>2. list \in Seq(M)
  BY DEF M
<1>3. PICK i \in 1 .. Len(list) : Config!Find(list, n) = list[i] /\ list[i].name = n
  BY <1>2, FindLaws
<1>4. list[i] \in M
  BY <1>2
<1> QED BY <1>1, <1>3, <1>4 DEF M

LEMMA ModelsStart == Init => ModelsInv
<1> SUFFICES ASSUME Init PROVE ModelsInv
  OBVIOUS
<1>1. /\ file \in UserFiles \cup {Absent} /\ up = FALSE /\ cache = Absent /\ server \in Servers
      /\ user = IF file = Absent THEN <<>> ELSE Config!ParsedModels(file)
  BY DEF Init, Config!Init
<1>2. CASE part # "models"
  BY <1>1, <1>2 DEF Init, ModelsInv
<1>3. CASE part = "models"
  <2>1. CASE file = Absent
    <3>1. user = <<>> /\ user \in Seq(Config!Model) /\ Absent \notin Config!File
      BY <1>1, <2>1, Distinct
    <3> QED BY <1>1, <1>3, <2>1, <3>1 DEF ModelsInv, FilesTyped
  <2>2. CASE file # Absent
    <3>1. file \in Config!File
      BY <1>1, <2>2, Distinct
    <3>2. user \in Seq(Config!Model) /\ Keeps(Config!Parse(file).models)
      BY <1>1, <2>2, <3>1, UserKept
    <3> QED BY <1>1, <1>3, <2>2, <3>1, <3>2 DEF ModelsInv, FilesTyped
  <2> QED BY <2>1, <2>2
<1> QED BY <1>2, <1>3

\* The running program, as long as nothing but the file's text changes.
LEMMA RunningStays ==
  ASSUME Running, UNCHANGED <<file, user, conf, display, live, fetch, picker>>
  PROVE  Running'
BY DEF Running, OpenAI, Keeps, Mine

LEMMA FilesStay ==
  ASSUME FilesTyped, UNCHANGED <<file, user, server, cache>>
  PROVE  FilesTyped'
BY DEF FilesTyped, Keeps

\* A save that fails leaves the file as it was, or one that does not load.
LEMMA FailedSave ==
  ASSUME FilesTyped, Config!SaveFails, UNCHANGED <<user, server>>, cache' \in {cache, Absent}
  PROVE  FilesTyped'
<1>1. file' = file \/ file' = Torn
  BY DEF Config!SaveFails
<1>2. Torn # Absent /\ Torn \notin Config!File
  BY Distinct
<1>3. CASE file' = file
  BY <1>3 DEF FilesTyped, Keeps
<1>4. CASE file' = Torn
  BY <1>2, <1>4 DEF FilesTyped
<1> QED BY <1>1, <1>3, <1>4

\* A save that succeeds writes what is read back as the configuration.
LEMMA GoodSave ==
  ASSUME FilesTyped, Running, Config!Save(conf), UNCHANGED <<user, server, cache>>
  PROVE  FilesTyped' /\ file' \in Config!File /\ Config!Kind(file') = conf.kind
<1>1. file' = Config!Serialize(conf)
  BY DEF Config!Save
<1>2. /\ Config!Serialize(conf) \in Config!File
      /\ Config!Parse(Config!Serialize(conf)) = conf
      /\ Config!Kind(Config!Serialize(conf)) = conf.kind
  BY SaveLaws DEF Running
<1>3. Keeps(conf.models) /\ Absent \notin Config!File
  BY Distinct DEF Running
<1> QED BY <1>1, <1>2, <1>3 DEF FilesTyped, Keeps

LEMMA StartKeeps ==
  ASSUME FilesTyped, Config!Start
  PROVE  FilesTyped' /\ Running'
<1> DEFINE loaded == Config!Loaded
           models == loaded.models
<1>1. /\ file # Torn /\ Config!Valid(loaded) /\ conf' = loaded /\ display' = loaded.ui
      /\ picker' = Absent /\ cache' = Absent /\ user' = user /\ server' = server
      /\ live' = IF loaded.kind = "llamacpp"
                 THEN [name |-> "...", ctx |-> 32768, vision |-> FALSE, loaded |-> Absent]
                 ELSE [name |-> loaded.active, ctx |-> Config!ActiveModel(loaded).ctx,
                       vision |-> Config!ActiveModel(loaded).vision, loaded |-> Absent]
      /\ loaded.kind # "llamacpp" => fetch' = Absent
      /\ file' = Config!Serialize(loaded) \/ (file # Absent /\ file' = file)
  BY DEF Config!Start, Config!Save
<1>2. /\ loaded \in Configs /\ Keeps(models)
      /\ loaded.kind = "llamacpp" => models = <<>> /\ loaded.active = ""
      /\ file # Absent => file \in Config!File /\ Config!Kind(file) = loaded.kind
  <2>1. CASE file = Absent
    <3>1. loaded = Config!DefaultConfig
      BY <2>1 DEF Config!Loaded
    <3> DEFINE first == [name |-> "llama3.2", ctx |-> 32768, vision |-> TRUE]
    <3>2. first \in Config!Model
      BY DefaultWindow DEF Config!Model, Config!Name, Config!Named
    <3>3. loaded = [kind |-> "openai", active |-> "llama3.2", ui |-> "collapsed", models |-> <<first>>]
      BY <3>1 DEF Config!DefaultConfig
    <3> DEFINE M == Config!Model
    <3> HIDE DEF first, M
    <3>4. <<first>> \in Seq(M) /\ Len(<<first>>) = 1
      BY <3>2 DEF M
    <3>5. loaded \in Configs
      BY <3>3, <3>4, DisplayLaws DEF Configs, M, Config!Name
    <3>6. user = <<>> /\ Len(user) = 0
      BY <2>1 DEF FilesTyped
    <3>7. models = <<first>> /\ loaded.kind = "openai"
      BY <3>3
    <3>8. Keeps(models)
      BY <3>4, <3>6, <3>7 DEF Keeps
    <3> QED BY <2>1, <3>5, <3>7, <3>8
  <2>2. CASE file # Absent
    <3>1. file \in Config!File /\ loaded = Config!Parse(file)
      BY <1>1, <2>2 DEF FilesTyped, Config!Loaded
    <3>2. Keeps(models)
      BY <3>1 DEF FilesTyped
    <3> QED BY <3>1, <3>2, ParseLaws
  <2> QED BY <2>1, <2>2
<1>3. file' \in Config!File /\ Config!Kind(file') = loaded.kind /\ Keeps(Config!Parse(file').models)
  <2>1. CASE file' = Config!Serialize(loaded)
    <3> HIDE DEF loaded
    <3>2. /\ Config!Serialize(loaded) \in Config!File
          /\ Config!Parse(Config!Serialize(loaded)) = loaded
          /\ Config!Kind(Config!Serialize(loaded)) = loaded.kind
      BY <1>2, SaveLaws
    <3> QED BY <1>2, <2>1, <3>2
  <2>2. CASE file # Absent /\ file' = file
    BY <1>2, <2>2 DEF FilesTyped
  <2> QED BY <1>1, <2>1, <2>2
<1> HIDE DEF loaded
<1>4. FilesTyped'
  <2>1. file' # Absent
    BY <1>3, Distinct
  <2> QED BY <1>1, <1>3, <2>1 DEF FilesTyped, Keeps
<1>5. ASSUME loaded.kind = "openai" PROVE OpenAI'
  <2> DEFINE M == Config!Model
             e == Config!ActiveModel(loaded)
  <2>1. models # <<>> /\ models \in Seq(M) /\ loaded.active \in Config!Name
    BY <1>1, <1>2, <1>5 DEF Config!Valid, Configs
  <2>2. /\ e = IF loaded.active \in Config!Names(models) THEN Config!Find(models, loaded.active)
               ELSE models[1]
    BY <2>1 DEF Config!ActiveModel
  <2>3. user \in Seq(M)
    BY DEF FilesTyped
  <2> HIDE DEF e
  <2>4. e \in M
    <3>1. models[1] \in M
      <4> HIDE DEF M
      <4> QED BY <2>1
    <3> QED BY <1>2, <2>1, <2>2, <2>3, <3>1, FoundIsMine
  <2>5. live' = [name |-> loaded.active, ctx |-> e.ctx, vision |-> e.vision, loaded |-> Absent]
    BY <1>1, <1>5 DEF e
  <2>6. e.ctx \in Nat /\ e.vision \in BOOLEAN /\ e = [name |-> e.name, ctx |-> e.ctx, vision |-> e.vision]
    BY <2>4 DEF Config!Model
  <2>7. live' \in LiveModel /\ live'.name = loaded.active /\ live'.ctx = e.ctx /\ live'.vision = e.vision
    BY <2>1, <2>5, <2>6 DEF LiveModel
  <2>8. ASSUME loaded.active \in Config!Names(user)
        PROVE  Config!Find(user, loaded.active) = e /\ e.name = loaded.active
    <3>1. loaded.active \in Config!Names(models)
      BY <1>2, <2>1, <2>3, <2>8, StillFound
    <3> QED BY <1>2, <2>1, <2>2, <2>3, <2>8, <3>1, FoundIsMine
  <2>9. live'.name \in Config!Names(user) =>
          Config!Find(user, live'.name) = [name |-> live'.name, ctx |-> live'.ctx, vision |-> live'.vision]
    BY <2>6, <2>7, <2>8
  <2>10. fetch' = Absent /\ picker' = Absent /\ user' = user
    BY <1>1, <1>5
  <2> QED BY <2>7, <2>9, <2>10 DEF OpenAI, Mine, Config!Names, Config!Find
<1>6. Running'
  <2>1. conf' = loaded /\ user' = user /\ display' = loaded.ui
    BY <1>1
  <2>2. loaded.ui \in Config!Displays
    BY <1>2 DEF Configs
  <2> QED BY <1>2, <1>3, <1>5, <2>1, <2>2 DEF Running, Keeps
<1> QED BY <1>4, <1>6

LEMMA BodiesTyped ==
  ASSUME FilesTyped, NEW b \in Config!Bodies \cup {<<>>}
  PROVE  /\ b \in Seq(Config!Entry)
         /\ Config!Fetched(b) => cache' \in Seq(Config!Entry) \cup {Absent}
<1> DEFINE E == Config!Entry
<1>1. server \in Seq(E) /\ cache \in Seq(E) \cup {Absent}
  BY Distinct DEF FilesTyped
<1> HIDE DEF E
<1>2. b \in {cache, server, <<>>} /\ (b = cache => cache \in Seq(E) \/ b = server \/ b = <<>>)
  BY <1>1 DEF Config!Bodies
<1>3. <<>> \in Seq(E)
  OBVIOUS
<1>4. b \in Seq(E)
  BY <1>1, <1>2, <1>3
<1>5. Config!Fetched(b) => cache' \in {cache, b}
  BY DEF Config!Fetched
<1> QED BY <1>1, <1>4, <1>5 DEF E

LEMMA OpenPickerKeeps ==
  ASSUME FilesTyped, Running, Config!OpenPicker
  PROVE  FilesTyped' /\ Running'
<1>1. PICK b \in Config!Bodies \cup {<<>>} :
        /\ Config!Fetched(b) \/ cache' = cache
        /\ LET list == IF conf.kind = "llamacpp" THEN b ELSE Config!Discovered(conf.models, b) IN
           IF conf.kind = "llamacpp" THEN conf' = conf
           ELSE /\ conf' = [conf EXCEPT !.models = list] /\ live' = live
                /\ picker' = IF list = <<>> THEN Absent ELSE Config!Names(list)
  BY DEF Config!OpenPicker
<1>2. UNCHANGED <<file, user, up, display, fetch, server>>
  BY DEF Config!OpenPicker
<1>3. b \in Seq(Config!Entry) /\ cache' \in Seq(Config!Entry) \cup {Absent}
  <2>1. b \in Seq(Config!Entry)
    BY BodiesTyped
  <2>2. CASE Config!Fetched(b)
    BY <2>1, <2>2, BodiesTyped
  <2>3. CASE cache' = cache
    BY <2>1, <2>3 DEF FilesTyped
  <2> QED BY <1>1, <2>2, <2>3
<1>4. FilesTyped'
  BY <1>2, <1>3 DEF FilesTyped, Keeps
<1>5. CASE conf.kind = "llamacpp"
  <2>1. conf' = conf
    BY <1>1, <1>5
  <2>2. Keeps(conf.models)'
    BY <1>2, <2>1 DEF Running, Keeps
  <2>3. (conf.kind = "openai")' => OpenAI'
    BY <1>5, <2>1
  <2>4. file' \in Config!File \cup {Torn} /\ (file' # Torn => Config!Kind(file)' = conf'.kind)
        /\ display' \in Config!Displays
    BY <1>2, <2>1 DEF Running
  <2> QED BY <1>4, <1>5, <2>1, <2>2, <2>3, <2>4 DEF Running
<1>6. CASE conf.kind = "openai"
  <2> DEFINE list == Config!Discovered(conf.models, b)
  <2>1. conf' = [conf EXCEPT !.models = list] /\ live' = live
        /\ picker' = IF list = <<>> THEN Absent ELSE Config!Names(list)
    BY <1>1, <1>6
  <2>2. user \in Seq(Config!Model) /\ conf.models \in Seq(Config!Model) /\ Keeps(conf.models)
    BY DEF FilesTyped, Running, Configs
  <2>3. list \in Seq(Config!Model) /\ Keeps(list)
    BY <1>3, <2>2, DiscoveredLaws
  <2> HIDE DEF list
  <2>4. conf \in Configs
    BY DEF Running
  <2>5. conf' \in Configs /\ conf'.kind = conf.kind /\ conf'.models = list
    BY <2>1, <2>3, <2>4 DEF Configs
  <2>6. OpenAI
    BY <1>6 DEF Running
  <2>7. OpenAI'
    <3>1. picker' # Absent => picker' \subseteq Config!Names(conf'.models)
      BY <2>1, <2>5
    <3>2. /\ live' \in LiveModel /\ fetch' = Absent
          /\ live'.name \in Config!Names(user') => Config!Find(user', live'.name) = Mine'
      BY <1>2, <2>1, <2>6 DEF OpenAI, Mine
    <3> QED BY <3>1, <3>2 DEF OpenAI, Config!Names, Config!Find
  <2>8. Keeps(conf.models)'
    BY <1>2, <2>3, <2>5 DEF Keeps
  <2>9. file' \in Config!File \cup {Torn} /\ (file' # Torn => Config!Kind(file)' = conf'.kind)
        /\ display' \in Config!Displays
    BY <1>2, <2>5 DEF Running
  <2> QED BY <1>4, <1>6, <2>5, <2>7, <2>8, <2>9 DEF Running
<1> QED BY <1>4, <1>5, <1>6 DEF Running, Configs

LEMMA SelectKeeps ==
  ASSUME FilesTyped, Running, Config!Select
  PROVE  FilesTyped' /\ Running'
<1>1. PICK n \in picker :
         IF conf.kind = "llamacpp" THEN conf' = conf
         ELSE /\ conf' = [conf EXCEPT !.active = n]
              /\ LET e == Config!Find(conf.models, n) IN
                 live' = [live EXCEPT !.name = n, !.ctx = e.ctx, !.vision = e.vision]
  BY DEF Config!Select
<1>2. /\ picker # Absent /\ picker' = Absent /\ UNCHANGED <<file, user, up, display, cache, server>>
      /\ conf.kind # "llamacpp" => fetch' = fetch
  BY DEF Config!Select, Config!Spawn
<1>3. FilesTyped'
  BY <1>2, FilesStay
<1>4. CASE conf.kind = "llamacpp"
  <2>1. conf' = conf
    BY <1>1, <1>4
  <2> QED BY <1>2, <1>3, <1>4, <2>1 DEF Running, Keeps
<1>5. CASE conf.kind = "openai"
  <2> DEFINE e == Config!Find(conf.models, n)
  <2>1. conf' = [conf EXCEPT !.active = n]
        /\ live' = [live EXCEPT !.name = n, !.ctx = e.ctx, !.vision = e.vision]
    BY <1>1, <1>5
  <2>2. OpenAI /\ conf \in Configs
    BY <1>5 DEF Running
  <2>3. n \in Config!Names(conf.models)
    BY <1>2, <2>2 DEF OpenAI
  <2>4. user \in Seq(Config!Model) /\ conf.models \in Seq(Config!Model) /\ Keeps(conf.models)
    BY <2>2 DEF FilesTyped, Running, Configs
  <2>5. /\ e \in Config!Model /\ e.name = n
        /\ n \in Config!Names(user) => Config!Find(user, n) = e
    BY <2>3, <2>4, FoundIsMine
  <2> HIDE DEF e
  <2>6. /\ e.ctx \in Nat /\ e.vision \in BOOLEAN /\ n \in Config!Name
        /\ e = [name |-> n, ctx |-> e.ctx, vision |-> e.vision]
    <3>1. /\ e.name \in Config!Named /\ e.ctx \in 0 .. WindowMax /\ e.vision \in BOOLEAN
          /\ e = [name |-> e.name, ctx |-> e.ctx, vision |-> e.vision]
      BY <2>5 DEF Config!Model
    <3>2. e.ctx \in Nat
      BY <3>1, DefaultWindow
    <3>3. n \in Config!Name
      BY <2>5, <3>1, Zenon DEF Config!Named
    <3> QED BY <2>5, <3>1, <3>2, <3>3
  <2>7. live \in LiveModel
    BY <2>2 DEF OpenAI
  <2>8. live' \in LiveModel /\ live'.name = n /\ live'.ctx = e.ctx /\ live'.vision = e.vision
    BY <2>1, <2>6, <2>7 DEF LiveModel
  <2>9. conf' \in Configs /\ conf'.kind = "openai" /\ conf'.models = conf.models
    BY <1>5, <2>1, <2>2, <2>6 DEF Configs
  <2>10. fetch' = Absent
    BY <1>2, <1>5, <2>2 DEF OpenAI
  <2>11. Mine' = e
    BY <2>6, <2>8 DEF Mine
  <2>12. OpenAI'
    BY <1>2, <2>5, <2>8, <2>10, <2>11 DEF OpenAI, Config!Names, Config!Find
  <2> QED BY <1>2, <1>3, <1>5, <2>4, <2>9, <2>12 DEF Running, Keeps
<1> QED BY <1>4, <1>5 DEF Running, Configs

LEMMA ToggleKeeps ==
  ASSUME FilesTyped, Running, Config!Toggle
  PROVE  FilesTyped' /\ (up' => Running')
<1>1. user' = user /\ server' = server
  BY DEF Config!Toggle
<1>2. CASE Config!SaveFails /\ Config!Exit
  <2>1. up' = FALSE /\ cache' \in {cache, Absent}
    BY <1>2 DEF Config!Exit
  <2> QED BY <1>1, <1>2, <2>1, FailedSave
<1>3. CASE ~(Config!SaveFails /\ Config!Exit)
  <2>1. /\ display' = Config!NextDisplay[display]
        /\ Config!Save(conf)
        /\ UNCHANGED <<up, conf, live, fetch, picker, cache>>
    BY <1>3 DEF Config!Toggle
  <2>2. FilesTyped' /\ file' \in Config!File /\ Config!Kind(file') = conf.kind
    BY <1>1, <2>1, GoodSave
  <2>3. display' \in Config!Displays
    BY <2>1, DisplayLaws DEF Running
  <2>4. conf.kind = "openai" => OpenAI'
    BY <1>1, <2>1 DEF Running, OpenAI, Mine
  <2>5. Running'
    BY <1>1, <2>1, <2>2, <2>3, <2>4 DEF Running, Keeps
  <2> QED BY <2>2, <2>5
<1> QED BY <1>2, <1>3

LEMMA ShowHiddenKeeps ==
  ASSUME FilesTyped, Running, Config!ShowHidden
  PROVE  FilesTyped' /\ Running'
<1>1. /\ UNCHANGED <<user, server, cache>>
      /\ UNCHANGED <<conf, display, live, fetch, picker>>
      /\ Config!Save(conf) \/ Config!SaveFails
  BY DEF Config!ShowHidden, Config!memory
<1>2. /\ FilesTyped'
      /\ file' \in Config!File \cup {Torn}
      /\ file' # Torn => Config!Kind(file') = conf.kind
  <2>1. CASE Config!Save(conf)
    BY <1>1, <2>1, GoodSave
  <2>2. CASE Config!SaveFails
    <3>1. FilesTyped'
      BY <1>1, <2>2, FailedSave
    <3> QED BY <2>2, <3>1 DEF Config!SaveFails, Running
  <2> QED BY <1>1, <2>1, <2>2
<1>3. conf.kind = "openai" => OpenAI'
  BY <1>1 DEF Running, OpenAI, Mine
<1> QED BY <1>1, <1>2, <1>3 DEF Running, Keeps

LEMMA ConfigureKeeps ==
  ASSUME ModelsInv, part = "models", part' = part, Config!Next
  PROVE  ModelsInv'
<1>1. FilesTyped /\ (up => Running)
  BY DEF ModelsInv
<1> SUFFICES FilesTyped' /\ (up' => Running')
  BY DEF ModelsInv
<1>2. CASE Config!Start
  BY <1>1, <1>2, StartKeeps
<1>3. CASE Config!Quit
  <2>1. up' = FALSE /\ cache' = Absent /\ UNCHANGED <<file, user, server>>
    BY <1>3 DEF Config!Quit, Config!Exit
  <2> QED BY <1>1, <2>1 DEF FilesTyped, Keeps
<1>4. CASE Config!ServerChanges
  <2>1. /\ server' \in Servers /\ UNCHANGED <<file, user, up, cache>>
        /\ UNCHANGED <<conf, display, live, fetch, picker>>
    BY <1>4 DEF Config!ServerChanges, Config!memory
  <2> QED BY <1>1, <2>1, RunningStays DEF FilesTyped, Keeps
<1>5. CASE Config!CacheExpires
  <2>1. /\ cache' = Absent /\ UNCHANGED <<file, user, up, server>>
        /\ UNCHANGED <<conf, display, live, fetch, picker>>
    BY <1>5 DEF Config!CacheExpires, Config!memory
  <2> QED BY <1>1, <2>1, RunningStays DEF FilesTyped, Keeps
<1>6. CASE Config!Reply
  <2>1. /\ UNCHANGED <<file, user, up, server, conf, display, live, picker>>
        /\ fetch # Absent
        /\ cache' = cache \/ \E b \in Config!Bodies : Config!Fetched(b)
    BY <1>6 DEF Config!Reply
  <2>2. cache' \in Seq(Config!Entry) \cup {Absent}
    BY <1>1, <2>1, BodiesTyped DEF FilesTyped
  <2>3. up => conf.kind = "llamacpp"
    BY <1>1, <2>1 DEF Running, OpenAI, Configs
  <2> QED BY <1>1, <2>1, <2>2, <2>3 DEF FilesTyped, Running, Keeps
<1>7. CASE Config!OrphanReplies
  <2>1. /\ UNCHANGED <<file, user, up, server>>
        /\ UNCHANGED <<conf, display, live, fetch, picker>>
        /\ \E b \in Config!Bodies : Config!Fetched(b)
    BY <1>7 DEF Config!OrphanReplies, Config!memory
  <2>2. cache' \in Seq(Config!Entry) \cup {Absent}
    BY <1>1, <2>1, BodiesTyped
  <2> QED BY <1>1, <2>1, <2>2, RunningStays DEF FilesTyped, Keeps
<1>8. CASE Config!PollFetch
  <2>1. /\ UNCHANGED <<file, user, up, server, cache, conf, display, picker>>
        /\ fetch # Absent
    BY <1>8 DEF Config!PollFetch
  <2>2. up => conf.kind = "llamacpp"
    BY <1>1, <2>1 DEF Running, OpenAI, Configs
  <2> QED BY <1>1, <2>1, <2>2 DEF FilesTyped, Running, Keeps
<1>9. CASE Config!OpenPicker
  <2>1. up /\ up' = up
    BY <1>9 DEF Config!OpenPicker
  <2> QED BY <1>1, <1>9, <2>1, OpenPickerKeeps
<1>10. CASE Config!Select
  <2>1. up /\ up' = up
    BY <1>10 DEF Config!Select
  <2> QED BY <1>1, <1>10, <2>1, SelectKeeps
<1>11. CASE Config!CancelPicker
  <2>1. /\ UNCHANGED <<file, user, up, server, cache, conf, display, live, fetch>>
        /\ picker' = Absent
    BY <1>11 DEF Config!CancelPicker
  <2> QED BY <1>1, <2>1 DEF FilesTyped, Running, OpenAI, Keeps, Mine
<1>12. CASE Config!LoadSession
  <2>1. /\ UNCHANGED <<file, user, up, server, cache, conf, display, live, picker>>
        /\ conf.kind # "llamacpp" => fetch' = fetch
    BY <1>12 DEF Config!LoadSession, Config!Spawn
  <2> QED BY <1>1, <2>1 DEF FilesTyped, Running, OpenAI, Keeps, Mine
<1>13. CASE Config!Toggle
  <2>1. up
    BY <1>13 DEF Config!Toggle
  <2> QED BY <1>1, <1>13, <2>1, ToggleKeeps
<1>14. CASE Config!StartFails
  <2>1. /\ ~up /\ Config!SaveFails /\ UNCHANGED <<user, up, server>> /\ cache' \in {cache, Absent}
    BY <1>14 DEF Config!StartFails
  <2> QED BY <1>1, <2>1, FailedSave
<1>15. CASE Config!ShowHidden
  <2>1. up
    BY <1>15 DEF Config!ShowHidden
  <2> QED BY <1>1, <1>15, <2>1, ShowHiddenKeeps
<1> QED BY <1>2, <1>3, <1>4, <1>5, <1>6, <1>7, <1>8, <1>9, <1>10, <1>11, <1>12, <1>13,
           <1>14, <1>15 DEF Config!Next

LEMMA ModelsStep == ModelsInv /\ [Next]_vars => ModelsInv'
<1> SUFFICES ASSUME ModelsInv, [Next]_vars PROVE ModelsInv'
  OBVIOUS
<1>1. CASE Configure
  BY <1>1, ConfigureKeeps DEF Configure
<1>2. CASE Send \/ Receive(Answer!Next) \/ UNCHANGED vars
  <2>1. UNCHANGED <<part, modelVars>>
    BY <1>2 DEF Send, Receive, vars
  <2>2. /\ UNCHANGED <<part, file, user, up, server, cache>>
        /\ UNCHANGED <<conf, display, live, fetch, picker>>
    BY <2>1 DEF modelVars
  <2>3. FilesTyped => FilesTyped'
    BY <2>2, FilesStay
  <2>4. Running => Running'
    BY <2>2, RunningStays
  <2> QED BY <2>2, <2>3, <2>4 DEF ModelsInv
<1> QED BY <1>1, <1>2 DEF Next

LEMMA ModelsAgree == ModelsInv => ConfigAgrees
<1> SUFFICES ASSUME ModelsInv PROVE ConfigAgrees
  OBVIOUS
<1>1. user \in Seq(Config!Model)
  <2>1. <<>> \in Seq(Config!Model)
    <3> DEFINE M == Config!Model
    <3>1. <<>> \in Seq(M)
      <4> HIDE DEF M
      <4> QED OBVIOUS
    <3> QED BY <3>1
  <2> QED BY <2>1 DEF ModelsInv, FilesTyped
<1> SUFFICES Config!SavedLoads /\ Config!ConfiguredKept /\ Config!AgentSeesLive
  BY DEF ConfigAgrees, Config!ConfigAgrees
<1>2. up => part = "models" /\ FilesTyped /\ Running
  BY DEF ModelsInv
<1>3. Config!SavedLoads
  <2> SUFFICES ASSUME up
               PROVE  /\ Config!Parse(Config!Serialize(conf)) = conf
                      /\ file # Torn => Config!Kind(file) = conf.kind
    BY DEF Config!SavedLoads
  <2> QED BY <1>2, SaveLaws DEF Running
<1>4. Config!ConfiguredKept
  <2>1. ASSUME NEW list \in Seq(Config!Model), Keeps(list), NEW i \in DOMAIN user
        PROVE  user[i] \in Config!ToSet(list)
    <3> DEFINE M == Config!Model
    <3>1. user \in Seq(M) /\ list \in Seq(M)
      BY <1>1
    <3> HIDE DEF M
    <3>2. i \in 1 .. Len(user) /\ Len(user) \in Nat /\ Len(list) \in Nat /\ DOMAIN list = 1 .. Len(list)
      BY <3>1
    <3>3. i \in DOMAIN list /\ list[i] = user[i]
      BY <2>1, <3>2 DEF Keeps
    <3> QED BY <3>3 DEF Config!ToSet
  <2> SUFFICES ASSUME NEW i \in DOMAIN user
               PROVE  /\ up => user[i] \in Config!ToSet(conf.models)
                      /\ file \notin {Torn, Absent} => user[i] \in Config!ToSet(Config!Parse(file).models)
    BY DEF Config!ConfiguredKept
  <2>2. part = "models" /\ FilesTyped
    BY DEF ModelsInv
  <2>3. up => user[i] \in Config!ToSet(conf.models)
    BY <1>2, <2>1 DEF Running, Configs
  <2>4. file \notin {Torn, Absent} => user[i] \in Config!ToSet(Config!Parse(file).models)
    <3> SUFFICES ASSUME file \notin {Torn, Absent}
                 PROVE  user[i] \in Config!ToSet(Config!Parse(file).models)
      OBVIOUS
    <3>1. file \in Config!File /\ Keeps(Config!Parse(file).models)
      BY <2>2 DEF FilesTyped
    <3>2. Config!Parse(file).models \in Seq(Config!Model)
      BY <3>1, ParseLaws DEF Configs
    <3> QED BY <2>1, <3>1, <3>2
  <2> QED BY <2>3, <2>4
<1>5. Config!AgentSeesLive
  <2> SUFFICES ASSUME up
               PROVE  /\ Config!ActiveModel(Config!LiveConfig) = Mine
                      /\ (conf.kind = "openai" /\ live.name \in Config!Names(user)) =>
                            Config!Find(user, live.name) = Config!ActiveModel(Config!LiveConfig)
    BY DEF Config!AgentSeesLive, Mine
  <2>1. Config!ActiveModel(Config!LiveConfig) = Mine
    <3> DEFINE models == conf.models
               known == live.name \in Config!Names(models)
               given == IF ~known THEN Append(models, Mine)
                        ELSE [i \in DOMAIN models |-> IF models[i].name = live.name THEN Mine ELSE models[i]]
               M == Config!Model \cup {Mine}
    <3>1. conf \in Configs
      BY <1>2 DEF Running
    <3>2. Config!LiveConfig = [conf EXCEPT !.active = live.name, !.models = given]
      BY DEF Config!LiveConfig, Mine
    <3> HIDE DEF given
    <3>3. Config!LiveConfig.active = live.name /\ Config!LiveConfig.models = given
      BY <3>1, <3>2 DEF Configs
    <3>4. models \in Seq(M)
      <4>1. models \in Seq(Config!Model)
        BY <3>1 DEF Configs
      <4> DEFINE N == Config!Model
      <4> HIDE DEF N
      <4>2. models \in Seq(N)
        BY <4>1 DEF N
      <4>3. models \in Seq(N \cup {Mine})
        BY <4>2
      <4> QED BY <4>3 DEF N
    <3> HIDE DEF M, models
    <3>5. Mine \in M /\ Mine.name = live.name
      BY DEF M, Mine
    <3>6. given \in Seq(M)
      BY <3>4, <3>5 DEF given
    <3>7. /\ live.name \in Config!Names(given)
          /\ \A i \in DOMAIN given : given[i].name = live.name => given[i] = Mine
      <4>1. CASE ~known
        <5>1. /\ given = Append(models, Mine) /\ Len(models) \in Nat
              /\ DOMAIN given = 1 .. Len(models) + 1 /\ given[Len(models) + 1] = Mine
              /\ \A i \in 1 .. Len(models) : given[i] = models[i]
          BY <3>4, <3>5, <4>1 DEF given
        <5>2. \A i \in 1 .. Len(models) : models[i].name # live.name
          BY <3>4, <4>1 DEF Config!Names
        <5>3. live.name \in Config!Names(given)
          <6>1. Len(models) + 1 \in DOMAIN given /\ given[Len(models) + 1].name = live.name
            BY <3>5, <5>1
          <6> QED BY <6>1 DEF Config!Names
        <5> QED BY <5>1, <5>2, <5>3
      <4>2. CASE known
        <5>1. given = [i \in DOMAIN models |-> IF models[i].name = live.name THEN Mine ELSE models[i]]
          BY <4>2 DEF given
        <5>2. PICK i \in DOMAIN models : models[i].name = live.name
          BY <4>2 DEF Config!Names
        <5>3. i \in DOMAIN given /\ given[i].name = live.name
          BY <3>5, <5>1, <5>2
        <5>4. live.name \in Config!Names(given)
          BY <5>3 DEF Config!Names
        <5> QED BY <5>1, <5>4
      <4> QED BY <4>1, <4>2
    <3>8. Config!Find(given, live.name) = Mine
      <4>1. PICK i \in 1 .. Len(given) :
              Config!Find(given, live.name) = given[i] /\ given[i].name = live.name
        BY <3>6, <3>7, FindLaws
      <4>2. i \in DOMAIN given
        BY <3>6
      <4> QED BY <3>7, <4>1, <4>2
    <3> QED BY <3>3, <3>7, <3>8 DEF Config!ActiveModel
  <2>2. conf.kind = "openai" /\ live.name \in Config!Names(user) => Config!Find(user, live.name) = Mine
    BY <1>2 DEF Running, OpenAI
  <2> QED BY <2>1, <2>2
<1> QED BY <1>3, <1>4, <1>5

(* The configuration is one: a file that was saved is read as it was, the  *)
(* models the user configured stay in it and in memory as they were,       *)
(* whatever servers report and whatever is picked, and the agent is given  *)
(* the model of the status bar (config.rs, tui/app.rs, tui/config_state.rs *)
(* and commands.rs).                                                       *)
THEOREM ConfigStaysOne == Spec => []ConfigAgrees
<1> QED BY ModelsStart, ModelsStep, ModelsAgree, PTL DEF Spec

-----------------------------------------------------------------------------
(* What is sent: each message gives a piece of the request.                *)

\* The modules of a request and of an answer flatten alike.
LEMMA SameFlatten ==
  \A ss : Sending!FlattenSeq(ss) = FlattenSeq(ss) /\ Answer!FlattenSeq(ss) = FlattenSeq(ss)
BY Zenon DEF Sending!FlattenSeq, Answer!FlattenSeq, FlattenSeq

(* Of which type the pieces are, and what becomes of reasoning.            *)

Message == Sending!Message
Wire ==
  [role : {"user", "assistant", "tool"}, call : BOOLEAN, images : BOOLEAN,
   reasoning_content : Sending!Text, text : Sending!Text]
\* What is meant to be sent of a message.
Whole(m) ==
  [Sending!Converted(m) EXCEPT !.reasoning_content = IF m.role = "assistant" THEN m.reasoning ELSE ""]

Inj == [m \in Message |-> Sending!Injected(m)]
Conv == [m \in Message |-> Sending!ToOpenAi(m)]
Out == [m \in Message |-> IF Sending!Sent(m) THEN <<Whole(m)>> ELSE <<>>]

LEMMA WireTyped ==
  ASSUME NEW m \in Message
  PROVE  /\ Sending!Converted(m) \in Wire /\ Whole(m) \in Wire
         /\ Sending!Converted(m).reasoning_content = ""
         /\ Whole(m).reasoning_content = IF m.role = "assistant" THEN m.reasoning ELSE ""
         /\ \A f \in {"role", "call", "images", "text"} : Whole(m)[f] = Sending!Converted(m)[f]
<1> DEFINE T == Sending!Text
<1>1. /\ m.role \in {"user", "assistant", "tool"} /\ m.text \in T /\ m.reasoning \in T
      /\ m.call \in BOOLEAN /\ m.images \in BOOLEAN
  BY DEF Message, Sending!Message
<1>2. "" \in T /\ "Image attached." \in T
  BY DEF Sending!Text
<1> DEFINE c == Sending!Converted(m)
           text == IF m.role = "user" /\ m.images THEN "Image attached." ELSE m.text
<1>3. c = [role |-> m.role, call |-> m.call, images |-> m.images, reasoning_content |-> "", text |-> text]
  BY DEF Sending!Converted
<1> HIDE DEF c, T
<1>4. text \in T
  BY <1>1, <1>2
<1> HIDE DEF text
<1>5. c \in Wire /\ c.reasoning_content = ""
  BY <1>1, <1>2, <1>3, <1>4 DEF Wire, T
<1>6. Whole(m) = [c EXCEPT !.reasoning_content = IF m.role = "assistant" THEN m.reasoning ELSE ""]
  BY DEF Whole, c
<1>7. Whole(m) \in Wire
  BY <1>1, <1>2, <1>5, <1>6 DEF Wire, T
<1>8. /\ Whole(m).reasoning_content = IF m.role = "assistant" THEN m.reasoning ELSE ""
      /\ \A f \in {"role", "call", "images", "text"} : Whole(m)[f] = c[f]
  BY <1>5, <1>6 DEF Wire
<1> QED BY <1>5, <1>7, <1>8 DEF c

LEMMA PiecesTyped ==
  /\ Inj \in [Message -> Seq(Message)]
  /\ Conv \in [Message -> Seq(Wire)] /\ Out \in [Message -> Seq(Wire)]
  /\ \A m \in Message :
       /\ Inj[m] = Sending!Injected(m)
       /\ Conv[m] = IF Sending!Sent(m) THEN <<Sending!Converted(m)>> ELSE <<>>
       /\ Out[m] = IF Sending!Sent(m) THEN <<Whole(m)>> ELSE <<>>
       /\ Sending!Skipped(m) <=> ~Sending!Sent(m)
<1>1. ASSUME NEW m \in Message PROVE Sending!Injected(m) \in Seq(Message)
  <2> DEFINE a == [m EXCEPT !.images = FALSE]
             b == [Sending!Blank EXCEPT !.images = TRUE]
             M == Message
  <2>1. a \in M
    BY DEF Message, Sending!Message
  <2>2. b \in M
    BY DEF Message, Sending!Message, Sending!Blank, Sending!Text
  <2>3. Sending!Injected(m) = <<a, b>> \/ Sending!Injected(m) = <<m>>
    BY DEF Sending!Injected
  <2>4. m \in M
    OBVIOUS
  <2> HIDE DEF a, b, M
  <2>5. <<a, b>> \in Seq(M)
    BY <2>1, <2>2
  <2>6. <<m>> \in Seq(M)
    BY <2>4
  <2>7. Sending!Injected(m) \in Seq(M)
    BY <2>3, <2>5, <2>6
  <2> QED BY <2>7 DEF M
<1>2. ASSUME NEW m \in Message
      PROVE  /\ Sending!ToOpenAi(m) = IF Sending!Sent(m) THEN <<Sending!Converted(m)>> ELSE <<>>
             /\ Sending!ToOpenAi(m) \in Seq(Wire)
             /\ (IF Sending!Sent(m) THEN <<Whole(m)>> ELSE <<>>) \in Seq(Wire)
  <2> DEFINE W == Wire
  <2>1. Sending!Converted(m) \in W /\ Whole(m) \in W
    BY WireTyped
  <2> HIDE DEF W
  <2>2. <<>> \in Seq(W)
    OBVIOUS
  <2>3. <<Sending!Converted(m)>> \in Seq(W) /\ <<Whole(m)>> \in Seq(W)
    BY <2>1
  <2> QED BY <2>2, <2>3 DEF Sending!ToOpenAi, W
<1>3. ASSUME NEW m \in Message PROVE Sending!Skipped(m) <=> ~Sending!Sent(m)
  BY DEF Sending!Skipped, Sending!Sent, Message, Sending!Message
<1> QED BY <1>1, <1>2, <1>3, Zenon DEF Inj, Conv, Out

\* s is a, then x, then b, and y may be put into the place of x.
Replaceable(W, s, a, x, b, y) ==
  /\ s \in Seq(W) /\ Len(a) + 1 <= Len(s) /\ s[Len(a) + 1] = x
  /\ [s EXCEPT ![Len(a) + 1] = y] = a \o (<<y>> \o b)

LEMMA Replaced ==
  ASSUME NEW W, NEW a \in Seq(W), NEW b \in Seq(W), NEW x \in W, NEW y \in W,
         NEW s, s = a \o (<<x>> \o b)
  PROVE  Replaceable(W, s, a, x, b, y)
<1> DEFINE t == a \o (<<y>> \o b)
           n == Len(a)
           k == Len(b)
<1>1. n \in Nat /\ k \in Nat
  OBVIOUS
<1>2. /\ s \in Seq(W) /\ Len(s) = n + 1 + k
      /\ \A i \in 1 .. n : s[i] = a[i]
      /\ s[n + 1] = x
      /\ \A i \in 1 .. k : s[n + 1 + i] = b[i]
  OBVIOUS
<1>3. /\ t \in Seq(W) /\ Len(t) = n + 1 + k
      /\ \A i \in 1 .. n : t[i] = a[i]
      /\ t[n + 1] = y
      /\ \A i \in 1 .. k : t[n + 1 + i] = b[i]
  OBVIOUS
<1> HIDE DEF t, n, k
<1>4. \A i \in 1 .. n + 1 + k :
         \/ i \in 1 .. n
         \/ i = n + 1
         \/ i - (n + 1) \in 1 .. k /\ n + 1 + (i - (n + 1)) = i
  BY <1>1
<1>5. ASSUME NEW i \in 1 .. n + 1 + k, i # n + 1 PROVE s[i] = t[i]
  <2>1. CASE i \in 1 .. n
    BY <1>2, <1>3, <2>1
  <2>2. CASE i - (n + 1) \in 1 .. k /\ n + 1 + (i - (n + 1)) = i
    BY <1>2, <1>3, <2>2
  <2> QED BY <1>4, <1>5, <2>1, <2>2
<1>6. DOMAIN s = 1 .. n + 1 + k /\ DOMAIN t = 1 .. n + 1 + k
  BY <1>2, <1>3
<1>7. t = [i \in 1 .. n + 1 + k |-> t[i]]
  BY <1>3, <1>6
<1>8. [s EXCEPT ![n + 1] = y] = [i \in 1 .. n + 1 + k |-> IF i = n + 1 THEN y ELSE s[i]]
  BY <1>6
<1>9. [s EXCEPT ![n + 1] = y] = t
  BY <1>3, <1>5, <1>7, <1>8
<1>10. n + 1 <= Len(s)
  BY <1>1, <1>2
<1> QED BY <1>2, <1>9, <1>10 DEF t, n, Replaceable

(* The walk of inject_reasoning_content.                                   *)

Ats == [idx : Nat \ {0}, json : Seq(Wire)]
place == [p \in Ats \X Message |-> Sending!Placed(p[1], p[2])]
\* The walk over original, when it starts with these messages.
Placing(messages, original) == Walked(place, [idx |-> 1, json |-> messages], original)

\* Placed is a step, and in the right place it makes a message whole.
LEMMA PlacedLaws ==
  /\ place \in Steps(Ats, Message)
  /\ \A spot \in Ats, m \in Message : place[<<spot, m>>] = Sending!Placed(spot, m)
  /\ \A a \in Seq(Wire), b \in Seq(Wire), m \in Message :
       Sending!Placed([idx |-> Len(a) + 1, json |-> a \o (Conv[m] \o b)], m)
         = [idx |-> Len(a \o Out[m]) + 1, json |-> a \o (Out[m] \o b)]
<1>1. ASSUME NEW spot \in Ats, NEW m \in Message PROVE Sending!Placed(spot, m) \in Ats
  <2>1. spot.idx \in Nat \ {0} /\ spot.json \in Seq(Wire) /\ spot = [idx |-> spot.idx, json |-> spot.json]
    BY DEF Ats
  <2> DEFINE put == [spot.json EXCEPT ![spot.idx].reasoning_content = m.reasoning]
             new == IF spot.idx <= Len(spot.json) /\ m.role = "assistant" /\ m.reasoning # ""
                    THEN put ELSE spot.json
  <2>2. m.reasoning \in Sending!Text
    BY DEF Message, Sending!Message
  <2>3. ASSUME spot.idx <= Len(spot.json) PROVE put \in Seq(Wire)
    <3> DEFINE w == [spot.json[spot.idx] EXCEPT !.reasoning_content = m.reasoning]
               W == Wire
    <3>1. spot.idx \in 1 .. Len(spot.json)
      BY <2>1, <2>3
    <3>2. spot.json[spot.idx] \in Wire
      <4> HIDE DEF W
      <4>1. spot.json \in Seq(W)
        BY <2>1 DEF W
      <4>2. spot.json[spot.idx] \in W
        BY <3>1, <4>1
      <4> QED BY <4>2 DEF W
    <3>3. w \in W
      BY <2>2, <3>2 DEF Wire
    <3>4. put = [spot.json EXCEPT ![spot.idx] = w]
      OBVIOUS
    <3> HIDE DEF w, W, put
    <3>5. spot.json \in Seq(W)
      BY <2>1 DEF W
    <3>6. [spot.json EXCEPT ![spot.idx] = w] \in Seq(W)
      BY <3>1, <3>3, <3>5
    <3> QED BY <3>4, <3>6 DEF W
  <2>4. Sending!Placed(spot, m) = IF Sending!Skipped(m) THEN spot ELSE [idx |-> spot.idx + 1, json |-> new]
    BY DEF Sending!Placed
  <2> HIDE DEF put
  <2>5. new \in Seq(Wire)
    BY <2>1, <2>3
  <2> HIDE DEF new
  <2>6. spot.idx + 1 \in Nat \ {0}
    BY <2>1
  <2> QED BY <2>4, <2>5, <2>6 DEF Ats
<1>2. ASSUME NEW a \in Seq(Wire), NEW b \in Seq(Wire), NEW m \in Message
      PROVE  Sending!Placed([idx |-> Len(a) + 1, json |-> a \o (Conv[m] \o b)], m)
               = [idx |-> Len(a \o Out[m]) + 1, json |-> a \o (Out[m] \o b)]
  <2> DEFINE W == Wire
             x == Sending!Converted(m)
             y == Whole(m)
             s == a \o (<<x>> \o b)
             spot == [idx |-> Len(a) + 1, json |-> a \o (Conv[m] \o b)]
  <2>1. /\ Conv[m] = IF Sending!Sent(m) THEN <<x>> ELSE <<>>
        /\ Out[m] = IF Sending!Sent(m) THEN <<y>> ELSE <<>>
        /\ Sending!Skipped(m) <=> ~Sending!Sent(m)
    BY PiecesTyped
  <2>2. x \in W /\ y \in W
    BY WireTyped
  <2>3. a \in Seq(W) /\ b \in Seq(W)
    OBVIOUS
  <2>4. y = [x EXCEPT !.reasoning_content = IF m.role = "assistant" THEN m.reasoning ELSE ""]
    BY DEF Whole
  <2>5. x = [x EXCEPT !.reasoning_content = ""]
    BY <2>2, WireTyped DEF Wire
  <2> HIDE DEF W, x, y
  <2>6. CASE ~Sending!Sent(m)
    <3>1. Conv[m] = <<>> /\ Out[m] = <<>> /\ Sending!Skipped(m)
      BY <2>1, <2>6
    <3>2. a \o <<>> = a
      BY <2>3
    <3>3. Sending!Placed(spot, m) = spot
      BY <3>1 DEF Sending!Placed
    <3> QED BY <3>1, <3>2, <3>3
  <2>7. CASE Sending!Sent(m)
    <3>1. Conv[m] = <<x>> /\ Out[m] = <<y>> /\ ~Sending!Skipped(m)
      BY <2>1, <2>7
    <3>2. /\ s \in Seq(W) /\ Len(a) + 1 <= Len(s) /\ s[Len(a) + 1] = x
          /\ [s EXCEPT ![Len(a) + 1] = y] = a \o (<<y>> \o b)
      <4>1. s = a \o (<<x>> \o b)
        OBVIOUS
      <4> HIDE DEF s, spot
      <4>2. Replaceable(W, s, a, x, b, y)
        BY <2>2, <2>3, <4>1, Replaced
      <4> QED BY <4>2 DEF Replaceable
    <3>3. Len(a \o <<y>>) = Len(a) + 1
      BY <2>2, <2>3
    <3>4. spot = [idx |-> Len(a) + 1, json |-> s]
      BY <3>1
    <3> HIDE DEF s, spot
    <3>5. spot.idx = Len(a) + 1 /\ spot.json = s
      BY <3>4
    <3>6. Sending!Placed(spot, m) =
            [idx |-> Len(a) + 1 + 1,
             json |-> IF m.role = "assistant" /\ m.reasoning # ""
                      THEN [s EXCEPT ![Len(a) + 1].reasoning_content = m.reasoning] ELSE s]
      BY <3>1, <3>2, <3>5 DEF Sending!Placed
    <3>7. CASE m.role = "assistant" /\ m.reasoning # ""
      <4>1. y = [x EXCEPT !.reasoning_content = m.reasoning]
        BY <2>4, <3>7
      <4>2. [s EXCEPT ![Len(a) + 1].reasoning_content = m.reasoning] = [s EXCEPT ![Len(a) + 1] = y]
        BY <3>2, <4>1
      <4>3. Sending!Placed(spot, m) = [idx |-> Len(a) + 1 + 1, json |-> a \o (<<y>> \o b)]
        BY <3>2, <3>6, <3>7, <4>2
      <4> QED BY <3>1, <3>3, <4>3 DEF spot
    <3>8. CASE ~(m.role = "assistant" /\ m.reasoning # "")
      <4>1. y = x
        BY <2>4, <2>5, <3>8
      <4>2. Sending!Placed(spot, m) = [idx |-> Len(a) + 1 + 1, json |-> a \o (<<y>> \o b)]
        BY <3>6, <3>8, <4>1 DEF s
      <4> QED BY <3>1, <3>3, <4>2 DEF spot
    <3> QED BY <3>7, <3>8
  <2> QED BY <2>6, <2>7
<1>3. place \in Steps(Ats, Message)
  BY <1>1 DEF Steps, place
<1>4. \A spot \in Ats, m \in Message : place[<<spot, m>>] = Sending!Placed(spot, m)
  BY DEF place
<1> QED BY <1>2, <1>3, <1>4

\* The walk keeps in step with what was left out, whatever comes after.
LEMMA PlacingLaw ==
  ASSUME NEW original \in Seq(Message), NEW rest \in Seq(Wire)
  PROVE  Placing(Flat(Conv, original) \o rest, original)
           = [idx |-> Len(Flat(Out, original)) + 1, json |-> Flat(Out, original) \o rest]
<1> DEFINE W == Seq(Wire)
           M == Message
           start(j) == [idx |-> 1, json |-> j]
           T == {s \in Seq(M) : \A r \in W :
                   Walked(place, start(Flat(Conv, s) \o r), s)
                     = [idx |-> Len(Flat(Out, s)) + 1, json |-> Flat(Out, s) \o r]}
<1>1. /\ Flat(Conv, <<>>) = <<>> /\ Flat(Out, <<>>) = <<>>
      /\ \A s \in Seq(M) : Flat(Conv, s) \in W /\ Flat(Out, s) \in W
      /\ \A s \in Seq(M) : \A e \in M : Flat(Conv, Append(s, e)) = Flat(Conv, s) \o Conv[e]
      /\ \A s \in Seq(M) : \A e \in M : Flat(Out, Append(s, e)) = Flat(Out, s) \o Out[e]
  <2>1. Conv \in [M -> Seq(Wire)] /\ Out \in [M -> Seq(Wire)]
    BY PiecesTyped
  <2> HIDE DEF M
  <2>2. /\ Flat(Conv, <<>>) = <<>>
        /\ \A s \in Seq(M) : Flat(Conv, s) \in W
        /\ \A s \in Seq(M) : \A e \in M : Flat(Conv, Append(s, e)) = Flat(Conv, s) \o Conv[e]
    BY <2>1, FlatLaws
  <2>3. /\ Flat(Out, <<>>) = <<>>
        /\ \A s \in Seq(M) : Flat(Out, s) \in W
        /\ \A s \in Seq(M) : \A e \in M : Flat(Out, Append(s, e)) = Flat(Out, s) \o Out[e]
    BY <2>1, FlatLaws
  <2> QED BY <2>2, <2>3
<1>2. \A m \in M : Conv[m] \in W /\ Out[m] \in W
  BY PiecesTyped
<1>3. /\ \A a, b \in W : a \o b \in W
      /\ \A a \in W : <<>> \o a = a
      /\ <<>> \in W /\ Len(<<>>) = 0
  OBVIOUS
<1>13. \A f, g, h \in W : (f \o g) \o h = f \o (g \o h)
  OBVIOUS
<1>4. \A j \in W : start(j) \in Ats
  BY DEF Ats
<1>5. ASSUME NEW j \in W
      PROVE  /\ Walked(place, start(j), <<>>) = start(j)
             /\ \A s \in Seq(M) : \A e \in M :
                  Walked(place, start(j), Append(s, e)) = place[<<Walked(place, start(j), s), e>>]
             /\ \A s \in Seq(M) : Walked(place, start(j), s) \in Ats
  BY <1>4, PlacedLaws, WalkedSteps
<1>6. <<>> \in T
  <2>1. <<>> \in Seq(M)
    OBVIOUS
  <2>2. \A r \in W : Walked(place, start(r), <<>>) = [idx |-> 1, json |-> r]
    BY <1>5
  <2> HIDE DEF start, W
  <2>3. ASSUME NEW r \in W
        PROVE  Walked(place, start(Flat(Conv, <<>>) \o r), <<>>)
                 = [idx |-> Len(Flat(Out, <<>>)) + 1, json |-> Flat(Out, <<>>) \o r]
    <3>1. Flat(Conv, <<>>) \o r = r
      BY <1>1, <1>3
    <3>2. Flat(Out, <<>>) \o r = r
      BY <1>1, <1>3
    <3>3. Len(Flat(Out, <<>>)) + 1 = 1
      BY <1>1, <1>3
    <3>4. Walked(place, start(r), <<>>) = [idx |-> 1, json |-> r]
      BY <2>2
    <3> QED BY <3>1, <3>2, <3>3, <3>4, Zenon
  <2> QED BY <2>1, <2>3
<1>7. ASSUME NEW s \in T, NEW e \in M PROVE Append(s, e) \in T
  <2>1. s \in Seq(M) /\ Append(s, e) \in Seq(M)
    OBVIOUS
  <2>2. \A r \in W : Walked(place, start(Flat(Conv, s) \o r), s)
                     = [idx |-> Len(Flat(Out, s)) + 1, json |-> Flat(Out, s) \o r]
    OBVIOUS
  <2> HIDE DEF start, W, M, T
  <2>3. ASSUME NEW r \in W
        PROVE  Walked(place, start(Flat(Conv, Append(s, e)) \o r), Append(s, e))
                 = [idx |-> Len(Flat(Out, Append(s, e))) + 1, json |-> Flat(Out, Append(s, e)) \o r]
    <3> DEFINE c == Flat(Conv, s)
               o == Flat(Out, s)
               j == c \o (Conv[e] \o r)
               spot == [idx |-> Len(o) + 1, json |-> o \o (Conv[e] \o r)]
    <3>1. c \in W /\ o \in W /\ Conv[e] \in W /\ Out[e] \in W /\ Conv[e] \o r \in W /\ j \in W
      BY <1>1, <1>2, <1>3, <2>1
    <3>2. Flat(Conv, Append(s, e)) \o r = j
      <4>1. Flat(Conv, Append(s, e)) = c \o Conv[e]
        BY <1>1, <2>1
      <4>2. (c \o Conv[e]) \o r = c \o (Conv[e] \o r)
        <5>1. c \in Seq(Wire) /\ Conv[e] \in Seq(Wire) /\ r \in Seq(Wire)
          BY <3>1 DEF W
        <5> HIDE DEF c
        <5>2. \A f, g, h \in Seq(Wire) : (f \o g) \o h = f \o (g \o h)
          OBVIOUS
        <5> QED BY <5>1, <5>2, Zenon
      <4> QED BY <4>1, <4>2, Zenon
    <3>3. Walked(place, start(j), s) = spot
      BY <2>2, <3>1, Zenon
    <3> HIDE DEF j
    <3>9. spot \in Ats
      BY <1>5, <2>1, <3>1, <3>3
    <3>10. Walked(place, start(j), Append(s, e)) = place[<<Walked(place, start(j), s), e>>]
      BY <1>5, <2>1, <3>1
    <3>4. Walked(place, start(j), Append(s, e)) = place[<<spot, e>>]
      BY <3>3, <3>10, Zenon
    <3>5. place[<<spot, e>>] = Sending!Placed(spot, e)
      BY <3>9, PlacedLaws DEF M
    <3> HIDE DEF o
    <3>6. Sending!Placed(spot, e) = [idx |-> Len(o \o Out[e]) + 1, json |-> o \o (Out[e] \o r)]
      BY <3>1, PlacedLaws DEF M, W
    <3>7. Flat(Out, Append(s, e)) = o \o Out[e]
      BY <1>1, <2>1 DEF o
    <3>8. o \o (Out[e] \o r) = (o \o Out[e]) \o r
      <4>1. o \in W /\ Out[e] \in W /\ r \in W
        BY <3>1, Zenon
      <4>2. \A g, h \in W : (o \o g) \o h = o \o (g \o h)
        BY <1>13, <4>1, Zenon
      <4>3. \A h \in W : (o \o Out[e]) \o h = o \o (Out[e] \o h)
        BY <4>1, <4>2, Zenon
      <4> QED BY <4>1, <4>3, Zenon
    <3> QED BY <3>2, <3>4, <3>5, <3>6, <3>7, <3>8
  <2> QED BY <2>1, <2>3 DEF T
<1>8. T \in SUBSET Seq(M)
  OBVIOUS
<1> HIDE DEF T
<1>9. T = Seq(M)
  BY <1>6, <1>7, <1>8, SeqInduction
<1> QED BY <1>9 DEF T, Placing

\* The recursive function of Inject is that walk.
LEMMA InjectWalks ==
  ASSUME NEW messages \in Seq(Wire), NEW original \in Seq(Message)
  PROVE  Sending!Inject(messages, original) = Placing(messages, original).json
<1> DEFINE n == Len(original)
           M == Message
           start == [idx |-> 1, json |-> messages]
           F(g) == g = [i \in 0 .. n |-> IF i = 0 THEN start ELSE Sending!Placed(g[i - 1], original[i])]
           walk == CHOOSE g : F(g)
<1>1. start \in Ats
  BY DEF Ats
<1>2. n \in Nat /\ original \in Seq(M) /\ \A i \in 1 .. n : original[i] \in M
  <2> HIDE DEF M
  <2>1. original \in Seq(M)
    BY DEF M
  <2> QED BY <2>1
<1>3. place \in Steps(Ats, M) /\ \A p \in Ats, m \in M : place[<<p, m>>] = Sending!Placed(p, m)
  BY PlacedLaws
<1>4. Sending!Inject(messages, original) = walk[n].json
  BY DEF Sending!Inject
<1> HIDE DEF walk, start, M
<1> PICK h : IsWalk(h, place, start, original)
  BY <1>1, <1>2, <1>3, WalkExists
<1>5. \A i \in 0 .. n : h[i] \in Ats
  BY <1>1, <1>2, <1>3, WalkStays
<1>6. \A i \in 1 .. n : i \in 0 .. n /\ i - 1 \in 0 .. n /\ i # 0
  BY <1>2
<1>7. F([i \in 0 .. n |-> h[i]])
  <2> DEFINE g == [i \in 0 .. n |-> h[i]]
  <2>1. g[0] = start
    BY <1>2 DEF IsWalk
  <2>2. ASSUME NEW i \in 1 .. n PROVE g[i] = Sending!Placed(g[i - 1], original[i])
    <3>1. h[i] = place[<<h[i - 1], original[i]>>]
      BY DEF IsWalk
    <3>2. h[i - 1] \in Ats /\ original[i] \in M
      BY <1>2, <1>5, <1>6
    <3>3. h[i] = Sending!Placed(h[i - 1], original[i])
      BY <1>3, <3>1, <3>2
    <3> QED BY <1>6, <3>3
  <2>3. g = [i \in 0 .. n |-> g[i]]
    OBVIOUS
  <2> HIDE DEF g
  <2>4. \A i \in 0 .. n : g[i] = IF i = 0 THEN start ELSE Sending!Placed(g[i - 1], original[i])
    BY <1>2, <2>1, <2>2
  <2>5. F(g)
    BY <2>3, <2>4
  <2> QED BY <2>5 DEF g
<1>8. F(walk)
  <2>1. \E g : F(g)
    BY <1>7
  <2> HIDE DEF F
  <2> QED BY <2>1, Zenon DEF walk
<1>9. Obeys(walk, Ats, place, start, original, n)
  <2>1. walk[0] = start
    BY <1>2, <1>8
  <2>2. ASSUME NEW i \in 1 .. n, walk[i - 1] \in Ats
        PROVE  walk[i] = place[<<walk[i - 1], original[i]>>]
    <3>1. walk[i] = Sending!Placed(walk[i - 1], original[i])
      BY <1>6, <1>8
    <3> HIDE DEF F
    <3>2. original[i] \in M
      BY <1>2
    <3> QED BY <1>3, <2>2, <3>1, <3>2
  <2> HIDE DEF F
  <2> QED BY <2>1, <2>2 DEF Obeys
<1> HIDE DEF F
<1>10. walk[n] = Walked(place, start, original)
  BY <1>1, <1>2, <1>3, <1>9, WalkedIsEnd
<1> QED BY <1>4, <1>10 DEF Placing, start

\* What is sent of one message, and of all.
Piece == [m \in Message |-> Flat(Out, Inj[m])]

LEMMA PieceLaws ==
  /\ Piece \in [Message -> Seq(Wire)]
  /\ \A m \in Message : Piece[m] = Flat(Out, Inj[m])
<1>1. /\ Out \in [Message -> Seq(Wire)] /\ Inj \in [Message -> Seq(Message)]
  BY PiecesTyped
<1>2. \A s \in Seq(Message) : Flat(Out, s) \in Seq(Wire)
  BY <1>1, FlatLaws
<1> QED BY <1>1, <1>2 DEF Piece

LEMMA BodyIs ==
  ASSUME NEW c \in Seq(Message)
  PROVE  Sending!Body(c) = Flat(Piece, c)
<1> DEFINE M == Message
           p == Sending!ProviderMessages(c)
<1>1. /\ Inj \in [M -> Seq(M)] /\ Conv \in [M -> Seq(Wire)] /\ Out \in [M -> Seq(Wire)]
      /\ \A m \in M : Inj[m] = Sending!Injected(m)
      /\ \A m \in M : Conv[m] = Sending!ToOpenAi(m)
  BY PiecesTyped DEF Conv
<1>2. ASSUME NEW s \in Seq(M) PROVE \A i \in DOMAIN s : s[i] \in M
  <2> HIDE DEF M
  <2> QED OBVIOUS
<1>3. p = Flat(Inj, c)
  <2>1. [i \in DOMAIN c |-> Sending!Injected(c[i])] = [i \in DOMAIN c |-> Inj[c[i]]]
    BY <1>1, <1>2
  <2> QED BY <2>1, SameFlatten DEF Sending!ProviderMessages, Sending!EachOf, Flat
<1> HIDE DEF p
<1>4. p \in Seq(M)
  BY <1>1, <1>3, FlatLaws
<1>5. Sending!EachOf(p, Sending!ToOpenAi) = Flat(Conv, p)
  <2>1. [i \in DOMAIN p |-> Sending!ToOpenAi(p[i])] = [i \in DOMAIN p |-> Conv[p[i]]]
    BY <1>1, <1>2, <1>4
  <2> QED BY <2>1, SameFlatten DEF Sending!EachOf, Flat
<1>6. Flat(Conv, p) \in Seq(Wire) /\ Flat(Out, p) \in Seq(Wire)
  BY <1>1, <1>4, FlatLaws
<1>7. Sending!Body(c) = Sending!Inject(Flat(Conv, p), p)
  BY <1>5 DEF Sending!Body, p
<1>8. Sending!Inject(Flat(Conv, p), p) = Placing(Flat(Conv, p), p).json
  BY <1>4, <1>6, InjectWalks
<1>9. \A s \in Seq(Wire) : s \o <<>> = s
  OBVIOUS
<1>10. <<>> \in Seq(Wire)
  OBVIOUS
<1>11. Placing(Flat(Conv, p) \o <<>>, p)
        = [idx |-> Len(Flat(Out, p)) + 1, json |-> Flat(Out, p) \o <<>>]
  BY <1>4, <1>10, PlacingLaw
<1>12. Placing(Flat(Conv, p), p).json = Flat(Out, p)
  BY <1>6, <1>9, <1>11
<1>13. Flat(Out, Flat(Inj, c)) = Flat(Piece, c)
  <2>1. Inj \in [Message -> Seq(Message)] /\ Out \in [Message -> Seq(Wire)]
    BY PiecesTyped
  <2>2. Composed(Message, Message, Wire, Inj, Out, Piece)
    BY <2>1, PieceLaws DEF Composed
  <2>3. \A s \in Seq(Message) : Flat(Out, Flat(Inj, s)) = Flat(Piece, s)
    BY <2>2, FlatTwice
  <2> QED BY <2>3
<1> QED BY <1>3, <1>7, <1>8, <1>12, <1>13

\* The pieces of a message; its usage does not matter.
LEMMA PieceIs ==
  ASSUME NEW m \in Message
  PROVE  /\ Piece[m] = IF m.role = "tool" /\ m.images
                       THEN Out[[m EXCEPT !.images = FALSE]] \o Out[[Sending!Blank EXCEPT !.images = TRUE]]
                       ELSE Out[m]
         /\ [m EXCEPT !.images = FALSE] \in Message
         /\ [Sending!Blank EXCEPT !.images = TRUE] \in Message
<1> DEFINE a == [m EXCEPT !.images = FALSE]
           b == [Sending!Blank EXCEPT !.images = TRUE]
           M == Message
<1>1. a \in M
  BY DEF Message, Sending!Message
<1>2. b \in M
  BY DEF Message, Sending!Message, Sending!Blank, Sending!Text
<1>3. Piece[m] = Flat(Out, Inj[m]) /\ Inj[m] = Sending!Injected(m) /\ Out \in [M -> Seq(Wire)]
  BY PieceLaws, PiecesTyped
<1>4. Sending!Injected(m) = IF m.role = "tool" /\ m.images THEN <<a, b>> ELSE <<m>>
  BY DEF Sending!Injected
<1> HIDE DEF a, b
<1>8. Gives(Message, Wire, Out)
  BY PiecesTyped DEF Gives
<1>5. Flat(Out, <<m>>) = Out[m]
  BY <1>8, FlatOfOne
<1>6. Flat(Out, <<a, b>>) = Out[a] \o Out[b]
  <2>1. \A x, y \in Message : Flat(Out, <<x, y>>) = Out[x] \o Out[y]
    BY <1>8, FlatOfTwo
  <2> QED BY <1>1, <1>2, <2>1
<1>7. Piece[m] = IF m.role = "tool" /\ m.images THEN Out[a] \o Out[b] ELSE Out[m]
  BY <1>3, <1>4, <1>5, <1>6
<1> QED BY <1>1, <1>2, <1>7 DEF a, b

LEMMA OutIgnoresUsage ==
  ASSUME NEW m \in Message
  PROVE  Sending!Digest(m) \in Message /\ Out[Sending!Digest(m)] = Out[m]
<1> DEFINE d == Sending!Digest(m)
<1>1. d = [m EXCEPT !.usage = FALSE]
  BY DEF Sending!Digest
<1>2. /\ d \in Message
      /\ \A f \in {"role", "text", "reasoning", "call", "images"} : d[f] = m[f]
  BY <1>1 DEF Message, Sending!Message
<1> HIDE DEF d
<1>3. /\ d.role = m.role /\ d.text = m.text /\ d.reasoning = m.reasoning
      /\ d.call = m.call /\ d.images = m.images
  BY <1>2
<1>4. Sending!Sent(d) <=> Sending!Sent(m)
  BY <1>3 DEF Sending!Sent
<1>5. Sending!Converted(d) = Sending!Converted(m)
  BY <1>3 DEF Sending!Converted
<1>6. Whole(d) = Whole(m)
  BY <1>3, <1>5 DEF Whole
<1>7. /\ Out[d] = IF Sending!Sent(d) THEN <<Whole(d)>> ELSE <<>>
      /\ Out[m] = IF Sending!Sent(m) THEN <<Whole(m)>> ELSE <<>>
  BY <1>2, PiecesTyped
<1> QED BY <1>2, <1>4, <1>6, <1>7 DEF d

LEMMA PieceIgnoresUsage ==
  ASSUME NEW m \in Message
  PROVE  Piece[Sending!Digest(m)] = Piece[m]
<1> DEFINE d == Sending!Digest(m)
           a == [m EXCEPT !.images = FALSE]
           b == [Sending!Blank EXCEPT !.images = TRUE]
<1>1. d \in Message /\ Out[d] = Out[m]
  BY OutIgnoresUsage
<1>2. a \in Message
  BY PieceIs
<1>3. Out[Sending!Digest(a)] = Out[a]
  <2> HIDE DEF a
  <2> QED BY <1>2, OutIgnoresUsage
<1>4. [d EXCEPT !.images = FALSE] = Sending!Digest(a)
  BY DEF Sending!Digest, Message, Sending!Message
<1>5. d.role = m.role /\ d.images = m.images
  BY DEF Sending!Digest, Message, Sending!Message
<1> HIDE DEF d
<1>6. Piece[d] = IF d.role = "tool" /\ d.images
                 THEN Out[[d EXCEPT !.images = FALSE]] \o Out[b] ELSE Out[d]
  BY <1>1, PieceIs
<1>7. Piece[m] = IF m.role = "tool" /\ m.images THEN Out[a] \o Out[b] ELSE Out[m]
  BY PieceIs
<1> QED BY <1>1, <1>3, <1>4, <1>5, <1>6, <1>7 DEF d

\* A digest says all that is sent.
LEMMA BodyOfDigests ==
  ASSUME NEW c \in Seq(Message)
  PROVE  /\ Sending!Digests(c) \in Seq(Message)
         /\ Sending!Body(Sending!Digests(c)) = Sending!Body(c)
<1> DEFINE d == Sending!Digests(c)
           M == Message
<1>1. \A i \in DOMAIN c : c[i] \in M
  <2>1. c \in Seq(M)
    OBVIOUS
  <2> HIDE DEF M
  <2> QED BY <2>1
<1>2. d = [i \in DOMAIN c |-> Sending!Digest(c[i])]
  BY DEF Sending!Digests
<1>3. \A i \in DOMAIN c : Sending!Digest(c[i]) \in M /\ Piece[Sending!Digest(c[i])] = Piece[c[i]]
  BY <1>1, OutIgnoresUsage, PieceIgnoresUsage
<1> HIDE DEF d
<1>4. DOMAIN d = DOMAIN c /\ \A i \in DOMAIN c : d[i] = Sending!Digest(c[i])
  BY <1>2
<1>5. d \in Seq(M)
  <2>1. DOMAIN c = 1 .. Len(c) /\ Len(c) \in Nat
    OBVIOUS
  <2> HIDE DEF M
  <2> QED BY <1>2, <1>3, <2>1
<1>6. [i \in DOMAIN d |-> Piece[d[i]]] = [i \in DOMAIN c |-> Piece[c[i]]]
  BY <1>3, <1>4
<1>7. Flat(Piece, d) = Flat(Piece, c)
  BY <1>6, SameFlatten DEF Flat
<1>8. Sending!Body(d) = Flat(Piece, d) /\ Sending!Body(c) = Flat(Piece, c)
  BY <1>5, BodyIs
<1> QED BY <1>5, <1>7, <1>8 DEF d

\* s is the beginning of t.
Begins(s, t) == Len(s) <= Len(t) /\ \A i \in 1 .. Len(s) : s[i] = t[i]

LEMMA BodyGrows ==
  ASSUME NEW s \in Seq(Message), NEW t \in Seq(Message), Begins(s, t)
  PROVE  Sending!IsPrefix(Sending!Body(s), Sending!Body(t))
<1> DEFINE M == Message
           u == SubSeq(t, Len(s) + 1, Len(t))
<1>1. /\ Len(s) \in Nat /\ Len(t) \in Nat /\ Len(s) <= Len(t)
      /\ \A i \in 1 .. Len(s) : s[i] = t[i]
  BY DEF Begins
<1>2. u \in Seq(M) /\ t = s \o u
  <2>1. s \in Seq(M) /\ t \in Seq(M)
    OBVIOUS
  <2> HIDE DEF M
  <2>2. /\ u \in Seq(M) /\ Len(u) = Len(t) - Len(s)
        /\ \A i \in 1 .. Len(t) - Len(s) : u[i] = t[Len(s) + i]
    BY <1>1, <2>1
  <2> HIDE DEF u
  <2>3. s \o u \in Seq(M) /\ Len(s \o u) = Len(t)
    BY <1>1, <2>1, <2>2
  <2>4. \A i \in 1 .. Len(t) : (s \o u)[i] = t[i]
    <3> SUFFICES ASSUME NEW i \in 1 .. Len(t) PROVE (s \o u)[i] = t[i]
      OBVIOUS
    <3>1. CASE i <= Len(s)
      BY <1>1, <2>1, <2>2, <3>1
    <3>2. CASE i > Len(s)
      <4>1. (s \o u)[i] = u[i - Len(s)]
        BY <1>1, <2>1, <2>2, <3>2
      <4>2. i - Len(s) \in 1 .. Len(t) - Len(s) /\ Len(s) + (i - Len(s)) = i
        BY <1>1, <3>2
      <4> QED BY <2>2, <4>1, <4>2
    <3>3. i <= Len(s) \/ i > Len(s)
      BY <1>1
    <3> QED BY <3>1, <3>2, <3>3
  <2> QED BY <2>1, <2>2, <2>3, <2>4, SeqEqual
<1> HIDE DEF u
<1>7. Gives(Message, Wire, Piece)
  BY PieceLaws DEF Gives
<1>3. Flat(Piece, s \o u) = Flat(Piece, s) \o Flat(Piece, u)
  BY <1>2, <1>7, FlatOver
<1>4. Flat(Piece, s) \in Seq(Wire) /\ Flat(Piece, u) \in Seq(Wire)
  BY <1>2, PieceLaws, FlatLaws
<1>5. Sending!Body(s) = Flat(Piece, s) /\ Sending!Body(t) = Flat(Piece, s \o u)
  BY <1>2, BodyIs
<1>6. ASSUME NEW a \in Seq(Wire), NEW b \in Seq(Wire) PROVE Sending!IsPrefix(a, a \o b)
  <2>1. Len(a) \in Nat /\ Len(a \o b) = Len(a) + Len(b) /\ Len(b) \in Nat
    OBVIOUS
  <2>2. SubSeq(a, 1, Len(a)) = SubSeq(a \o b, 1, Len(a))
    OBVIOUS
  <2> QED BY <2>1, <2>2 DEF Sending!IsPrefix
<1> QED BY <1>3, <1>4, <1>5, <1>6

(* The guard and the requests.                                             *)

Unnoted == \A i \in DOMAIN context : context[i].text # "noted"
RequestsInv ==
  /\ context \in Seq(Message) /\ digests = Sending!Digests(context)
  /\ previous \in Seq(Message) /\ request = Sending!Body(previous)
  /\ ~drifted /\ Unnoted => Begins(previous, digests)

\* What comes after a message is a message.
LEMMA FollowingTyped ==
  ASSUME NEW c
  PROVE  Sending!Following(c) \subseteq Message
<1>1. Sending!Blank \in Message
  BY DEF Message, Sending!Message, Sending!Blank, Sending!Text
<1>2. \A a \in Kinds : a[1] \in Sending!Text /\ a[2] \in Sending!Text /\ a[3] \in BOOLEAN
  BY ProviderAssumption DEF Sending!RequestsAssumption
<1>3. Sending!Answers \subseteq Message
  <2> SUFFICES ASSUME NEW a \in Kinds
               PROVE  [Sending!Blank EXCEPT !.role = "assistant", !.text = a[1], !.reasoning = a[2], !.call = a[3]]
                        \in Message
    BY DEF Sending!Answers
  <2> QED BY <1>1, <1>2 DEF Message, Sending!Message
<1>4. "t" \in Sending!Text
  BY DEF Sending!Text
<1>5. Sending!Results \subseteq Message
  <2> SUFFICES ASSUME NEW i \in BOOLEAN
               PROVE  [Sending!Blank EXCEPT !.role = "tool", !.text = "t", !.images = i] \in Message
    BY DEF Sending!Results
  <2> QED BY <1>1, <1>4 DEF Message, Sending!Message
<1>6. Sending!Users \subseteq Message
  <2>1. [Sending!Blank EXCEPT !.text = "t"] \in Message
    BY <1>1, <1>4 DEF Message, Sending!Message
  <2> QED BY <2>1 DEF Sending!Users
<1> QED BY <1>3, <1>5, <1>6 DEF Sending!Following

LEMMA DigestsLaws ==
  ASSUME NEW c \in Seq(Message)
  PROVE  /\ Sending!Digests(c) \in Seq(Message) /\ Len(Sending!Digests(c)) = Len(c)
         /\ \A i \in 1 .. Len(c) : Sending!Digests(c)[i] = Sending!Digest(c[i])
<1>1. Sending!Digests(c) = [i \in 1 .. Len(c) |-> Sending!Digest(c[i])]
  BY DEF Sending!Digests
<1>2. Sending!Digests(c) \in Seq(Message)
  BY BodyOfDigests
<1> DEFINE d == Sending!Digests(c)
<1>3. DOMAIN d = 1 .. Len(c) /\ Len(c) \in Nat
  BY <1>1
<1>4. \A i \in 1 .. Len(c) : d[i] = Sending!Digest(c[i])
  BY <1>1
<1> HIDE DEF d
<1>5. Len(d) = Len(c)
  BY <1>2, <1>3 DEF d
<1> QED BY <1>2, <1>4, <1>5 DEF d

LEMMA EmptyBody == Sending!Body(<<>>) = <<>>
<1>1. <<>> \in Seq(Message)
  OBVIOUS
<1>2. Flat(Piece, <<>>) = <<>>
  BY PieceLaws, FlatLaws
<1> QED BY <1>1, <1>2, BodyIs

LEMMA RequestsStart == Init => RequestsInv
<1> SUFFICES ASSUME Init PROVE RequestsInv
  OBVIOUS
<1>1. context = <<>> /\ digests = <<>> /\ previous = <<>> /\ request = <<>>
  BY DEF Init, Sending!Init
<1>2. <<>> \in Seq(Message) /\ Len(<<>>) = 0
  OBVIOUS
<1>3. Sending!Digests(<<>>) = <<>>
  BY DEF Sending!Digests
<1> QED BY <1>1, <1>2, <1>3, EmptyBody DEF RequestsInv, Begins

\* A message is pushed: what agreed with the digests still does.
LEMMA PushKeeps ==
  ASSUME RequestsInv, Sending!Push
  PROVE  RequestsInv'
<1> DEFINE M == Message
<1>1. PICK m \in Sending!Following(context) :
        context' = Append(context, m) /\ digests' = Append(digests, Sending!Digest(m))
  BY DEF Sending!Push
<1>2. previous' = previous /\ request' = request /\ drifted' = drifted
  BY DEF Sending!Push
<1>3. m \in M /\ context \in Seq(M) /\ digests = Sending!Digests(context) /\ previous \in Seq(M)
  BY FollowingTyped DEF RequestsInv
<1>4. digests \in Seq(M) /\ Len(digests) = Len(context)
      /\ \A i \in 1 .. Len(context) : digests[i] = Sending!Digest(context[i])
  BY <1>3, DigestsLaws
<1>5. Sending!Digest(m) \in M
  BY <1>3, OutIgnoresUsage
<1> HIDE DEF M
<1>6. /\ Len(context) \in Nat /\ context' \in Seq(M) /\ Len(context') = Len(context) + 1
      /\ DOMAIN context = 1 .. Len(context) /\ DOMAIN context' = 1 .. Len(context) + 1
      /\ \A i \in 1 .. Len(context) : context'[i] = context[i]
      /\ context'[Len(context) + 1] = m
  BY <1>1, <1>3
<1>7. /\ digests' \in Seq(M) /\ Len(digests') = Len(context) + 1
      /\ DOMAIN digests' = 1 .. Len(context) + 1
      /\ \A i \in 1 .. Len(context) : digests'[i] = digests[i]
      /\ digests'[Len(context) + 1] = Sending!Digest(m)
  BY <1>1, <1>4, <1>5
<1>8. digests' = Sending!Digests(context')
  <2>1. Sending!Digests(context') \in Seq(M) /\ Len(Sending!Digests(context')) = Len(context) + 1
        /\ \A i \in 1 .. Len(context) + 1 : Sending!Digests(context')[i] = Sending!Digest(context'[i])
    BY <1>6, DigestsLaws DEF M
  <2>2. \A i \in 1 .. Len(context) + 1 : digests'[i] = Sending!Digest(context'[i])
    BY <1>4, <1>6, <1>7
  <2> QED BY <1>7, <2>1, <2>2, SeqEqual
<1>9. Unnoted' => Unnoted
  BY <1>6 DEF Unnoted
<1>10. Begins(previous, digests) => Begins(previous, digests)'
  <2>1. Len(previous) \in Nat
    BY <1>3
  <2> QED BY <1>2, <1>4, <1>6, <1>7, <2>1 DEF Begins
<1> QED BY <1>2, <1>6, <1>8, <1>9, <1>10 DEF RequestsInv, M

\* Digests of lists that differ in usage only are the same.
LEMMA SameDigests ==
  ASSUME NEW c \in Seq(Message), NEW d \in Seq(Message), Len(c) = Len(d),
         \A i \in 1 .. Len(c) : Sending!Digest(c[i]) = Sending!Digest(d[i])
  PROVE  Sending!Digests(c) = Sending!Digests(d)
<1>1. /\ Sending!Digests(c) \in Seq(Message) /\ Len(Sending!Digests(c)) = Len(c)
      /\ \A i \in 1 .. Len(c) : Sending!Digests(c)[i] = Sending!Digest(c[i])
  BY DigestsLaws
<1>2. /\ Sending!Digests(d) \in Seq(Message) /\ Len(Sending!Digests(d)) = Len(d)
      /\ \A i \in 1 .. Len(d) : Sending!Digests(d)[i] = Sending!Digest(d[i])
  BY DigestsLaws
<1> QED BY <1>1, <1>2, SeqEqual

LEMMA StripKeeps ==
  ASSUME RequestsInv, Sending!Strip
  PROVE  RequestsInv'
<1> DEFINE M == Message
<1>1. /\ context' = [i \in DOMAIN context |-> Sending!Stripped(context[i])]
      /\ digests' = Sending!Digests(context)' /\ UNCHANGED <<previous, request, drifted>>
  BY DEF Sending!Strip, Sending!Digests
<1>2. context \in Seq(M) /\ Len(context) \in Nat /\ DOMAIN context = 1 .. Len(context)
  BY DEF RequestsInv
<1>3. \A i \in 1 .. Len(context) : context[i] \in M
  <2> HIDE DEF M
  <2> QED BY <1>2
<1>4. ASSUME NEW i \in 1 .. Len(context)
      PROVE  /\ Sending!Stripped(context[i]) \in M
             /\ context[i].images => Sending!Stripped(context[i]).text = "noted"
             /\ ~context[i].images => Sending!Stripped(context[i]) = context[i]
  <2>1. "noted" \in Sending!Text
    BY DEF Sending!Text
  <2> QED BY <1>3, <2>1 DEF Sending!Stripped, Message, Sending!Message
<1> HIDE DEF M
<1>5. context' \in Seq(M) /\ DOMAIN context' = 1 .. Len(context)
  BY <1>1, <1>2, <1>4
<1>6. ASSUME Unnoted' PROVE context' = context
  <2>1. \A i \in 1 .. Len(context) : context'[i] = Sending!Stripped(context[i])
    BY <1>1, <1>2
  <2>2. \A i \in 1 .. Len(context) : context'[i].text # "noted"
    BY <1>5, <1>6 DEF Unnoted
  <2>3. \A i \in 1 .. Len(context) : ~context[i].images
    BY <1>4, <2>1, <2>2
  <2>4. \A i \in 1 .. Len(context) : context'[i] = context[i]
    BY <1>4, <2>1, <2>3
  <2>5. context = [i \in 1 .. Len(context) |-> context[i]] /\ context' = [i \in 1 .. Len(context) |-> context'[i]]
    BY <1>1, <1>2
  <2> QED BY <2>4, <2>5
<1>7. ~drifted' /\ Unnoted' => Begins(previous, digests)'
  <2> SUFFICES ASSUME ~drifted', Unnoted' PROVE Begins(previous, digests)'
    OBVIOUS
  <2>1. context' = context
    BY <1>6
  <2>2. Unnoted
    BY <2>1 DEF Unnoted
  <2>3. digests' = digests
    BY <1>1, <2>1 DEF RequestsInv, Sending!Digests
  <2> QED BY <1>1, <2>2, <2>3 DEF RequestsInv, Begins
<1> QED BY <1>1, <1>5, <1>7 DEF RequestsInv, M

LEMMA RebuildKeeps ==
  ASSUME RequestsInv, Sending!Rebuild
  PROVE  RequestsInv'
<1> DEFINE M == Message
<1>1. digests' = Sending!Digests(context') /\ UNCHANGED <<previous, request>>
  BY DEF Sending!Rebuild
<1>2. context \in Seq(M) /\ Len(context) \in Nat /\ DOMAIN context = 1 .. Len(context)
      /\ digests = Sending!Digests(context)
  BY DEF RequestsInv
<1>3. \A i \in 1 .. Len(context) : context[i] \in M
  <2> HIDE DEF M
  <2> QED BY <1>2
<1>4. CASE /\ context' = [i \in DOMAIN context |-> [context[i] EXCEPT !.usage = (context[i].role = "assistant")]]
           /\ drifted' = drifted
  <2>1. \A i \in 1 .. Len(context) :
          /\ [context[i] EXCEPT !.usage = (context[i].role = "assistant")] \in M
          /\ Sending!Digest([context[i] EXCEPT !.usage = (context[i].role = "assistant")])
               = Sending!Digest(context[i])
          /\ [context[i] EXCEPT !.usage = (context[i].role = "assistant")].text = context[i].text
    BY <1>3 DEF Sending!Digest, Message, Sending!Message
  <2>2. /\ context' \in Seq(M) /\ Len(context') = Len(context) /\ DOMAIN context' = 1 .. Len(context)
        /\ \A i \in 1 .. Len(context) : context'[i] = [context[i] EXCEPT !.usage = (context[i].role = "assistant")]
    <3> DEFINE n == Len(context)
    <3>1. /\ context' = [i \in 1 .. n |-> [context[i] EXCEPT !.usage = (context[i].role = "assistant")]]
      BY <1>2, <1>4
    <3> HIDE DEF M
    <3>2. context' \in Seq(M) /\ DOMAIN context' = 1 .. n
      BY <1>2, <2>1, <3>1
    <3>3. Len(context') = n
      BY <1>2, <3>2
    <3> QED BY <3>1, <3>2, <3>3
  <2>3. Sending!Digests(context') = digests
    BY <1>2, <2>1, <2>2, SameDigests
  <2>4. Unnoted' => Unnoted
    BY <1>2, <2>1, <2>2 DEF Unnoted
  <2> QED BY <1>1, <1>4, <2>2, <2>3, <2>4 DEF RequestsInv, Begins
<1>5. CASE drifted' = TRUE /\ \E i \in DOMAIN context : context' = [context EXCEPT ![i].text = "other"]
  <2> PICK i \in DOMAIN context : context' = [context EXCEPT ![i].text = "other"]
    BY <1>5
  <2> DEFINE m == [context[i] EXCEPT !.text = "other"]
  <2>1. "other" \in Sending!Text /\ i \in 1 .. Len(context)
    BY <1>2 DEF Sending!Text
  <2>2. m \in M
    BY <1>3, <2>1 DEF Message, Sending!Message
  <2>3. context' = [context EXCEPT ![i] = m]
    OBVIOUS
  <2> HIDE DEF m, M
  <2>4. context' \in Seq(M)
    BY <1>2, <2>2, <2>3
  <2> QED BY <1>1, <1>5, <2>4 DEF RequestsInv, M
<1>6. CASE drifted' = TRUE /\ \E n \in 0 .. Len(context) - 1 : context' = SubSeq(context, 1, n)
  <2>1. context' \in Seq(M)
    <3> HIDE DEF M
    <3> QED BY <1>2, <1>6
  <2> QED BY <1>1, <1>6, <2>1 DEF RequestsInv
<1> QED BY <1>4, <1>5, <1>6 DEF Sending!Rebuild

LEMMA ResetKeeps ==
  ASSUME RequestsInv, Sending!Reset
  PROVE  RequestsInv'
<1>1. previous' = <<>> /\ request' = <<>> /\ UNCHANGED <<context, digests>>
  BY DEF Sending!Reset
<1>2. <<>> \in Seq(Message) /\ Len(<<>>) = 0
  OBVIOUS
<1>3. Len(digests) \in Nat
  BY DigestsLaws DEF RequestsInv
<1>4. Begins(previous, digests)'
  BY <1>1, <1>2, <1>3 DEF Begins
<1> QED BY <1>1, <1>2, <1>4, EmptyBody DEF RequestsInv, Sending!Digests

LEMMA RequestKeeps ==
  ASSUME RequestsInv, Sending!Request
  PROVE  RequestsInv'
<1>1. previous' = digests /\ request' = Sending!Body(context) /\ UNCHANGED <<context, digests, drifted>>
  BY DEF Sending!Request
<1>2. digests \in Seq(Message) /\ Sending!Body(digests) = Sending!Body(context)
  BY BodyOfDigests DEF RequestsInv
<1>3. Begins(previous, digests)'
  BY <1>1, <1>2 DEF Begins
<1> QED BY <1>1, <1>2, <1>3 DEF RequestsInv, Sending!Digests

LEMMA RequestsStep == RequestsInv /\ [Next]_vars => RequestsInv'
<1> SUFFICES ASSUME RequestsInv, [Next]_vars PROVE RequestsInv'
  OBVIOUS
<1>1. CASE Send
  <2>1. \/ Sending!Push \/ Sending!Strip \/ Sending!Rebuild
        \/ Sending!Reset \/ Sending!Request
    BY <1>1 DEF Send, Sending!Next
  <2> QED BY <2>1, PushKeeps, StripKeeps, RebuildKeeps, ResetKeeps, RequestKeeps
<1>2. CASE UNCHANGED requestVars
  BY <1>2 DEF RequestsInv, requestVars, Unnoted, Begins, Sending!Digests
<1>3. Send \/ UNCHANGED requestVars
  BY DEF Next, Receive, Configure, vars
<1> QED BY <1>1, <1>2, <1>3

\* What the guard lets pass is a beginning.
LEMMA ViolationIs ==
  ASSUME NEW s \in Seq(Message), NEW t \in Seq(Message)
  PROVE  Sending!Violation(s, t) <=> ~Begins(s, t)
<1>1. /\ DOMAIN s = 1 .. Len(s) /\ DOMAIN t = 1 .. Len(t)
      /\ Len(s) \in Nat /\ Len(t) \in Nat
  OBVIOUS
<1> QED BY <1>1 DEF Sending!Violation, Begins

LEMMA RequestIsGuarded ==
  ASSUME RequestsInv, Sending!Request
  PROVE  /\ ~Sending!IsPrefix(request, request') => verdict'
         /\ verdict' => drifted \/ ~Unnoted
<1>1. verdict' = Sending!Violation(previous, digests) /\ request' = Sending!Body(context)
  BY DEF Sending!Request
<1>2. digests \in Seq(Message) /\ Sending!Body(digests) = Sending!Body(context)
  BY BodyOfDigests DEF RequestsInv
<1>3. previous \in Seq(Message) /\ request = Sending!Body(previous)
      /\ (~drifted /\ Unnoted => Begins(previous, digests))
  BY DEF RequestsInv
<1>4. Sending!Violation(previous, digests) <=> ~Begins(previous, digests)
  BY <1>2, <1>3, ViolationIs
<1>5. Begins(previous, digests) => Sending!IsPrefix(Sending!Body(previous), Sending!Body(digests))
  BY <1>2, <1>3, BodyGrows
<1> QED BY <1>1, <1>2, <1>3, <1>4, <1>5

(* The guard warns of every rewritten history, and of nothing else: of two *)
(* requests in a row the second extends the first, or a warning is given,  *)
(* and none is given while the session is what was sent and no image was   *)
(* made a note (history_guard.rs).                                         *)
THEOREM GuardStaysExact == Spec => GuardExact
<1>1. Spec => []RequestsInv
  BY RequestsStart, RequestsStep, PTL DEF Spec
<1>2. RequestsInv /\ [Next]_vars
        => [Sending!Request /\ request # <<>> /\ ~Sending!IsPrefix(request, request')
              => verdict']_(Sending!vars)
  BY RequestIsGuarded
<1>3. RequestsInv /\ [Next]_vars
        => [Sending!Request /\ verdict'
              => drifted \/ \E i \in DOMAIN context : context[i].text = "noted"]_(Sending!vars)
  BY RequestIsGuarded DEF Unnoted
<1> QED
  BY <1>1, <1>2, <1>3, PTL
  DEF Spec, GuardExact, Sending!GuardExact, Sending!DriftNoticed, Sending!NoFalseAlarm

SentOf == [w \in Wire |-> IF w.role = "assistant" THEN <<<<w.text, w.call, w.reasoning_content>>>> ELSE <<>>]
SaidOf ==
  [m \in Message |-> IF m.role = "assistant" /\ Sending!Sent(m)
                     THEN <<<<m.text, m.call, m.reasoning>>>> ELSE <<>>]
Said == Sending!Text \X BOOLEAN \X Sending!Text

LEMMA SaidTyped == SentOf \in [Wire -> Seq(Said)] /\ SaidOf \in [Message -> Seq(Said)]
<1> DEFINE S == Said
<1>1. \A e \in S : <<e>> \in Seq(S)
  <2> HIDE DEF S
  <2> QED OBVIOUS
<1>2. <<>> \in Seq(S)
  OBVIOUS
<1>3. \A w \in Wire : <<w.text, w.call, w.reasoning_content>> \in S
  BY DEF Wire, Said
<1>4. \A m \in Message : <<m.text, m.call, m.reasoning>> \in S
  BY DEF Message, Sending!Message, Said
<1> HIDE DEF S
<1>5. SentOf \in [Wire -> Seq(S)]
  BY <1>1, <1>2, <1>3 DEF SentOf
<1>6. SaidOf \in [Message -> Seq(S)]
  BY <1>1, <1>2, <1>4 DEF SaidOf
<1> QED BY <1>5, <1>6 DEF S

\* What is heard of one message in its pieces is what it said.
LEMMA PieceSays ==
  ASSUME NEW m \in Message
  PROVE  SaidOf[m] = Flat(SentOf, Piece[m])
<1> DEFINE a == [m EXCEPT !.images = FALSE]
           b == [Sending!Blank EXCEPT !.images = TRUE]
<1>1. /\ Piece[m] = IF m.role = "tool" /\ m.images THEN Out[a] \o Out[b] ELSE Out[m]
      /\ a \in Message /\ b \in Message
  BY PieceIs
<1>2. SentOf \in [Wire -> Seq(Said)]
  BY SaidTyped
<1>7. Gives(Wire, Said, SentOf)
  BY <1>2 DEF Gives
<1>8. \A w \in Wire : Flat(SentOf, <<w>>) = SentOf[w]
  BY <1>7, FlatOfOne
<1>9. \A s, t \in Seq(Wire) : Flat(SentOf, s \o t) = Flat(SentOf, s) \o Flat(SentOf, t)
  BY <1>7, FlatOver
<1>3. Flat(SentOf, <<>>) = <<>>
  BY <1>2, FlatLaws
<1>4. ASSUME NEW n \in Message
      PROVE  Flat(SentOf, Out[n]) = SaidOf[n]
  <2>1. Out[n] = IF Sending!Sent(n) THEN <<Whole(n)>> ELSE <<>>
    BY PiecesTyped
  <2>2. CASE ~Sending!Sent(n)
    BY <1>3, <2>1, <2>2 DEF SaidOf
  <2>3. CASE Sending!Sent(n)
    <3>1. /\ Whole(n) \in Wire
          /\ Whole(n).role = n.role /\ Whole(n).call = n.call
          /\ Whole(n).reasoning_content = IF n.role = "assistant" THEN n.reasoning ELSE ""
          /\ n.role = "assistant" => Whole(n).text = n.text
      <4>1. /\ \A f \in {"role", "call", "images", "text"} : Whole(n)[f] = Sending!Converted(n)[f]
            /\ Whole(n) \in Wire
            /\ Whole(n).reasoning_content = IF n.role = "assistant" THEN n.reasoning ELSE ""
        BY WireTyped
      <4>2. /\ Sending!Converted(n).role = n.role /\ Sending!Converted(n).call = n.call
            /\ n.role = "assistant" => Sending!Converted(n).text = n.text
        BY DEF Sending!Converted
      <4> QED BY <4>1, <4>2
    <3>2. Flat(SentOf, <<Whole(n)>>) = SentOf[Whole(n)]
      BY <1>8, <3>1
    <3>3. SentOf[Whole(n)] = SaidOf[n]
      BY <2>3, <3>1 DEF SentOf, SaidOf
    <3> QED BY <2>1, <2>3, <3>2, <3>3
  <2> QED BY <2>2, <2>3
<1>5. CASE ~(m.role = "tool" /\ m.images)
  BY <1>1, <1>4, <1>5
<1>6. CASE m.role = "tool" /\ m.images
  <2>1. a.role = "tool" /\ b.role = "user"
    BY <1>6 DEF Message, Sending!Message, Sending!Blank
  <2>2. SaidOf[a] = <<>> /\ SaidOf[b] = <<>> /\ SaidOf[m] = <<>>
    BY <1>1, <1>6, <2>1 DEF SaidOf
  <2> HIDE DEF a, b
  <2>3. Out[a] \in Seq(Wire) /\ Out[b] \in Seq(Wire)
    BY <1>1, PiecesTyped
  <2>4. Flat(SentOf, Out[a] \o Out[b]) = Flat(SentOf, Out[a]) \o Flat(SentOf, Out[b])
    BY <1>9, <2>3
  <2>5. Flat(SentOf, Out[a]) = <<>> /\ Flat(SentOf, Out[b]) = <<>>
    BY <1>1, <1>4, <2>2
  <2>6. <<>> \o <<>> = <<>>
    OBVIOUS
  <2> QED BY <1>1, <1>6, <2>2, <2>4, <2>5, <2>6
<1> QED BY <1>5, <1>6

LEMMA ReasoningPlaced == RequestsInv => ReasoningInPlace
<1> SUFFICES ASSUME RequestsInv PROVE ReasoningInPlace
  OBVIOUS
<1> DEFINE sent(w) == IF w.role = "assistant" THEN <<<<w.text, w.call, w.reasoning_content>>>> ELSE <<>>
           said(m) == IF m.role = "assistant" /\ Sending!Sent(m)
                      THEN <<<<m.text, m.call, m.reasoning>>>> ELSE <<>>
           body == Sending!Body(context)
           M == Message
           W == Wire
<1>1. context \in Seq(M) /\ body = Flat(Piece, context)
  BY BodyIs DEF RequestsInv
<1>2. body \in Seq(W)
  BY <1>1, PieceLaws, FlatLaws
<1>3. Composed(Message, Wire, Said, Piece, SentOf, SaidOf)
  BY SaidTyped, PieceLaws, PieceSays DEF Composed
<1>4. \A s \in Seq(Message) : Flat(SentOf, Flat(Piece, s)) = Flat(SaidOf, s)
  BY <1>3, FlatTwice
<1>5. Flat(SentOf, body) = Flat(SaidOf, context)
  BY <1>1, <1>4
<1>6. Sending!EachOf(body, sent) = Flat(SentOf, body)
  <2> HIDE DEF body
  <2>1. \A i \in DOMAIN body : body[i] \in W
    <3> HIDE DEF W
    <3> QED BY <1>2
  <2>2. [i \in DOMAIN body |-> sent(body[i])] = [i \in DOMAIN body |-> SentOf[body[i]]]
    BY <2>1 DEF SentOf
  <2> QED BY <2>2, SameFlatten DEF Sending!EachOf, Flat
<1>7. Sending!EachOf(context, said) = Flat(SaidOf, context)
  <2>1. \A i \in DOMAIN context : context[i] \in M
    <3> HIDE DEF M
    <3> QED BY <1>1
  <2>2. [i \in DOMAIN context |-> said(context[i])] = [i \in DOMAIN context |-> SaidOf[context[i]]]
    BY <2>1 DEF SaidOf
  <2> QED BY <2>2, SameFlatten DEF Sending!EachOf, Flat
<1>8. Sending!EachOf(body, sent) = Sending!EachOf(context, said)
  BY <1>5, <1>6, <1>7
<1> QED BY <1>8 DEF ReasoningInPlace, Sending!ReasoningInPlace

(* Reasoning is sent with the answer it belongs to, past answers that are  *)
(* left out and images that are put in (openai.rs                          *)
(* inject_reasoning_content).                                              *)
THEOREM ReasoningStaysInPlace == Spec => []ReasoningInPlace
<1> QED BY RequestsStart, RequestsStep, ReasoningPlaced, PTL DEF Spec

-----------------------------------------------------------------------------
(* Answers: the bytes are decoded, broken into lines and dispatched by     *)
(* walks, so that reading them in pieces is reading them in one.           *)

\* Flattening is the same for the request and for the answer.
Sym == Answer!Symbol

Decoding == [text : Seq(Sym), begun : BOOLEAN]
decode == [p \in Decoding \X Sym |-> Answer!Decode(p[1], p[2])]
blank == [text |-> <<>>, begun |-> FALSE]

\* What a byte adds to the text.
Adds(begun, b) ==
  IF begun /\ b = "cont" THEN <<"char">>
  ELSE (IF begun THEN <<"repl">> ELSE <<>>)
         \o (CASE b = "lead" -> <<>> [] b = "cont" -> <<"repl">> [] OTHER -> <<b>>)

\* It is text.
LEMMA AddsTyped ==
  ASSUME NEW begun \in BOOLEAN, NEW b \in Sym
  PROVE  Adds(begun, b) \in Seq(Sym)
<1> DEFINE S == Sym
           l == IF begun THEN <<"repl">> ELSE <<>>
           r == CASE b = "lead" -> <<>> [] b = "cont" -> <<"repl">> [] OTHER -> <<b>>
<1>1. "char" \in S /\ "repl" \in S /\ b \in S
  BY DEF Sym, Answer!Symbol
<1> HIDE DEF S
<1>2. <<"char">> \in Seq(S) /\ <<"repl">> \in Seq(S) /\ <<b>> \in Seq(S) /\ <<>> \in Seq(S)
  BY <1>1
<1>3. l \in Seq(S)
  BY <1>2
<1>4. r \in Seq(S)
  BY <1>2
<1> HIDE DEF l, r
<1>5. l \o r \in Seq(S)
  BY <1>3, <1>4
<1>6. Adds(begun, b) = IF begun /\ b = "cont" THEN <<"char">> ELSE l \o r
  BY DEF Adds, l, r
<1> QED BY <1>2, <1>5, <1>6 DEF S

\* Decoding is a walk: a byte adds its text, and may begin a character.
LEMMA DecodeSteps ==
  /\ decode \in Steps(Decoding, Sym) /\ blank \in Decoding
  /\ \A so \in Decoding : \A b \in Sym :
       /\ decode[<<so, b>>] = Answer!Decode(so, b)
       /\ decode[<<so, b>>] = [text |-> so.text \o Adds(so.begun, b), begun |-> b = "lead"]
<1> DEFINE S == Sym
<1>1. ASSUME NEW so \in Decoding, NEW b \in Sym
      PROVE  Answer!Decode(so, b) = [text |-> so.text \o Adds(so.begun, b), begun |-> b = "lead"]
  <2>1. so.text \in Seq(S) /\ so.begun \in BOOLEAN
    BY DEF Decoding
  <2> DEFINE l == IF so.begun THEN <<"repl">> ELSE <<>>
             r == CASE b = "lead" -> <<>> [] b = "cont" -> <<"repl">> [] OTHER -> <<b>>
             t == so.text
  <2>2. "char" \in S /\ "repl" \in S /\ b \in S
    BY DEF Sym, Answer!Symbol
  <2>3. CASE so.begun /\ b = "cont"
    <3>1. Answer!Decode(so, b) = [text |-> Append(so.text, "char"), begun |-> FALSE]
      BY <2>3 DEF Answer!Decode
    <3>2. Adds(so.begun, b) = <<"char">>
      BY <2>3 DEF Adds
    <3>3. Append(t, "char") = t \o <<"char">>
      <4> HIDE DEF S, t
      <4> QED BY <2>1, <2>2 DEF t
    <3> QED BY <2>3, <3>1, <3>2, <3>3
  <2>4. CASE ~(so.begun /\ b = "cont")
    <3>1. Answer!Decode(so, b) = [text |-> (t \o l) \o r, begun |-> b = "lead"]
      BY <2>4 DEF Answer!Decode
    <3>2. Adds(so.begun, b) = l \o r
      BY <2>4 DEF Adds
    <3>3. l \in Seq(S) /\ r \in Seq(S) /\ t \in Seq(S)
      <4> HIDE DEF S
      <4>1. <<"repl">> \in Seq(S) /\ <<b>> \in Seq(S) /\ <<>> \in Seq(S)
        BY <2>2
      <4> QED BY <2>1, <4>1
    <3> HIDE DEF l, r, t, S
    <3>4. (t \o l) \o r = t \o (l \o r)
      BY <3>3
    <3> QED BY <3>1, <3>2, <3>4 DEF t
  <2> QED BY <2>3, <2>4
<1>2. ASSUME NEW so \in Decoding, NEW b \in Sym
      PROVE  Answer!Decode(so, b) \in Decoding
  <2>1. so.text \in Seq(S) /\ Adds(so.begun, b) \in Seq(S)
    BY AddsTyped DEF Decoding
  <2> DEFINE t == so.text
             a == Adds(so.begun, b)
  <2>2. t \o a \in Seq(S)
    <3> HIDE DEF S, t, a
    <3> QED BY <2>1 DEF t, a
  <2>3. \A x \in Seq(Sym), y \in BOOLEAN : [text |-> x, begun |-> y] \in Decoding
    BY DEF Decoding
  <2>4. (b = "lead") \in BOOLEAN
    OBVIOUS
  <2>5. [text |-> so.text \o Adds(so.begun, b), begun |-> (b = "lead")] \in Decoding
    BY <2>2, <2>3, <2>4, Zenon
  <2> QED BY <1>1, <2>5, Zenon
<1>3. blank \in Decoding
  BY DEF blank, Decoding
<1> QED BY <1>1, <1>2, <1>3 DEF Steps, decode

\* What Stream computes of a sequence of bytes is where that walk ends.
LEMMA DecodedWalks ==
  ASSUME NEW s \in Seq(Sym)
  PROVE  Answer!Decoded(s) = Walked(decode, blank, s)
<1> DEFINE n == Len(s)
           F(g) == g = [i \in 0 .. n |-> IF i = 0 THEN blank ELSE Answer!Decode(g[i - 1], s[i])]
           walk == CHOOSE g : F(g)
<1>1. Answer!Decoded(s) = walk[n]
  BY DEF Answer!Decoded, Answer!Through, blank
<1>2. PICK h : /\ h = [i \in 0 .. n |-> IF i = 0 THEN blank ELSE decode[<<h[i - 1], s[i]>>]]
               /\ \A i \in 1 .. n : h[i - 1] \in Decoding /\ s[i] \in Sym
  BY DecodeSteps, WalkGiven
<1>3. n \in Nat /\ \A i \in 0 .. n : i = 0 \/ i \in 1 .. n
  OBVIOUS
<1>4. F(h)
  <2>1. \A i \in 1 .. n : decode[<<h[i - 1], s[i]>>] = Answer!Decode(h[i - 1], s[i])
    BY <1>2, DecodeSteps
  <2> HIDE DEF n
  <2>2. [i \in 0 .. n |-> IF i = 0 THEN blank ELSE decode[<<h[i - 1], s[i]>>]]
          = [i \in 0 .. n |-> IF i = 0 THEN blank ELSE Answer!Decode(h[i - 1], s[i])]
    BY <1>3, <2>1
  <2> QED BY <1>2, <2>2, Zenon
<1>5. F(walk)
  <2> HIDE DEF F
  <2> QED BY <1>4, Zenon DEF walk
<1> HIDE DEF walk
<1>6. /\ walk[0] = blank
      /\ \A i \in 1 .. n : walk[i] = Answer!Decode(walk[i - 1], s[i])
  <2> HIDE DEF n
  <2> QED BY <1>3, <1>5
<1> HIDE DEF F
<1>7. \A i \in 1 .. n : walk[i - 1] \in Decoding => walk[i] = decode[<<walk[i - 1], s[i]>>]
  BY <1>2, <1>6, DecodeSteps
<1>8. Obeys(walk, Decoding, decode, blank, s, Len(s))
  BY <1>6, <1>7 DEF Obeys
<1> QED BY <1>1, <1>8, DecodeSteps, WalkedIsEnd

\* A stream that is decoded piece by piece: what has begun waits.
Waits(begun) == IF begun THEN <<"lead">> ELSE <<>>

\* What waits decodes to nothing but itself.
LEMMA WaitsDecoded ==
  ASSUME NEW begun \in BOOLEAN
  PROVE  /\ Waits(begun) \in Seq(Sym)
         /\ Answer!Decoded(Waits(begun)) = [text |-> <<>>, begun |-> begun]
         /\ Answer!Lossy(Waits(begun)) = IF begun THEN <<"repl">> ELSE <<>>
<1> DEFINE S == Sym
<1>1. "lead" \in S /\ "repl" \in S
  BY DEF Sym, Answer!Symbol
<1> HIDE DEF S
<1>2. <<>> \in Seq(S) /\ <<"lead">> \in Seq(S) /\ <<"lead">> = Append(<<>>, "lead")
  BY <1>1
<1>3. Walked(decode, blank, <<>>) = blank
  BY DecodeSteps, WalkedSteps
<1>4. \A s \in Seq(Sym) : \A e \in Sym :
         Walked(decode, blank, Append(s, e)) = decode[<<Walked(decode, blank, s), e>>]
  BY DecodeSteps, WalkedSteps
<1>5. Walked(decode, blank, <<"lead">>) = decode[<<blank, "lead">>]
  BY <1>1, <1>2, <1>3, <1>4 DEF S
<1>6. decode[<<blank, "lead">>] = [text |-> <<>> \o Adds(FALSE, "lead"), begun |-> ("lead" = "lead")]
  BY <1>1, DecodeSteps DEF S, blank
<1>7. Adds(FALSE, "lead") = <<>> \o <<>>
  BY DEF Adds
<1>8. <<>> \o <<>> = <<>>
  OBVIOUS
<1>9. decode[<<blank, "lead">>] = [text |-> <<>>, begun |-> TRUE]
  BY <1>6, <1>7, <1>8
<1>10. Answer!Decoded(<<"lead">>) = [text |-> <<>>, begun |-> TRUE]
  BY <1>2, <1>5, <1>9, DecodedWalks DEF S
<1>11. Answer!Decoded(<<>>) = [text |-> <<>>, begun |-> FALSE]
  BY <1>2, <1>3, DecodedWalks DEF S, blank
<1>12. Waits(begun) = IF begun THEN <<"lead">> ELSE <<>>
  BY DEF Waits
<1>13. Answer!Decoded(Waits(begun)) = [text |-> <<>>, begun |-> begun]
  BY <1>10, <1>11, <1>12
<1>14. <<>> \o <<"repl">> = <<"repl">>
  OBVIOUS
<1>15. Answer!Lossy(Waits(begun)) = <<>> \o (IF begun THEN <<"repl">> ELSE <<>>)
  BY <1>13 DEF Answer!Lossy
<1> QED BY <1>2, <1>8, <1>12, <1>13, <1>14, <1>15 DEF S

\* Decoded bytes are text.
LEMMA DecodedTyped ==
  ASSUME NEW s \in Seq(Sym)
  PROVE  /\ Answer!Decoded(s) \in Decoding
         /\ Answer!Decoded(s).text \in Seq(Sym) /\ Answer!Decoded(s).begun \in BOOLEAN
<1>1. Walked(decode, blank, s) \in Decoding
  BY DecodeSteps, WalkedSteps
<1> QED BY <1>1, DecodedWalks DEF Decoding

\* Decoding in two pieces is decoding in one, with what has begun put in between.
LEMMA DecodedOn ==
  ASSUME NEW a \in Seq(Sym), NEW b \in Seq(Sym)
  PROVE  LET x == Answer!Decoded(a)
             y == Answer!Decoded(Waits(x.begun) \o b)
         IN Answer!Decoded(a \o b) = [text |-> x.text \o y.text, begun |-> y.begun]
<1> DEFINE x == Answer!Decoded(a)
           w == Waits(x.begun)
           joined(u) == Answer!Decoded(a \o u)
           alone(u) == Answer!Decoded(w \o u)
           T == {u \in Seq(Sym) : /\ joined(u).text = x.text \o alone(u).text
                                  /\ joined(u).begun = alone(u).begun}
<1>1. x \in Decoding /\ x.text \in Seq(Sym) /\ x.begun \in BOOLEAN
  BY DecodedTyped
<1>2. w \in Seq(Sym) /\ Answer!Decoded(w) = [text |-> <<>>, begun |-> x.begun]
  BY <1>1, WaitsDecoded
<1> HIDE DEF x, w
<1>3. \A s \in Seq(Sym) : s \o <<>> = s
  OBVIOUS
<1>4. \A s \in Seq(Sym) : \A e \in Sym :
        Answer!Decoded(Append(s, e)) = decode[<<Answer!Decoded(s), e>>]
  <2> TAKE s \in Seq(Sym)
  <2> TAKE e \in Sym
  <2>1. Append(s, e) \in Seq(Sym)
    OBVIOUS
  <2>2. Walked(decode, blank, Append(s, e)) = decode[<<Walked(decode, blank, s), e>>]
    BY DecodeSteps, WalkedSteps
  <2> QED BY <2>1, <2>2, DecodedWalks
<1>5. \A s, t \in Seq(Sym) : \A e \in Sym :
        s \o t \in Seq(Sym) /\ s \o Append(t, e) = Append(s \o t, e)
  OBVIOUS
<1>6. <<>> \in T
  <2>1. a \o <<>> = a /\ w \o <<>> = w /\ x.text \o <<>> = x.text
    BY <1>1, <1>2, <1>3
  <2>2. <<>> \in Seq(Sym)
    OBVIOUS
  <2>3. joined(<<>>) = x
    BY <2>1 DEF x
  <2>4. alone(<<>>).text = <<>> /\ alone(<<>>).begun = x.begun
    <3>1. alone(<<>>) = Answer!Decoded(w)
      BY <2>1
    <3> HIDE DEF alone
    <3> QED BY <1>2, <3>1
  <2> HIDE DEF joined, alone
  <2> QED BY <2>1, <2>2, <2>3, <2>4
<1>7. ASSUME NEW u \in T, NEW e \in Sym PROVE Append(u, e) \in T
  <2> DEFINE p == joined(u)
             q == alone(u)
             k == Adds(q.begun, e)
  <2>1. u \in Seq(Sym) /\ p.text = x.text \o q.text /\ p.begun = q.begun
    OBVIOUS
  <2>2. a \o u \in Seq(Sym) /\ w \o u \in Seq(Sym) /\ Append(u, e) \in Seq(Sym)
        /\ a \o Append(u, e) = Append(a \o u, e) /\ w \o Append(u, e) = Append(w \o u, e)
    BY <1>2, <1>5, <2>1
  <2>3. p \in Decoding /\ q \in Decoding /\ q.begun \in BOOLEAN /\ q.text \in Seq(Sym)
    BY <2>2, DecodedTyped
  <2>4. joined(Append(u, e)) = decode[<<p, e>>] /\ alone(Append(u, e)) = decode[<<q, e>>]
    BY <1>4, <2>2
  <2> HIDE DEF p, q, k
  <2>5. /\ decode[<<p, e>>] = [text |-> p.text \o k, begun |-> e = "lead"]
        /\ decode[<<q, e>>] = [text |-> q.text \o k, begun |-> e = "lead"]
    BY <2>1, <2>3, DecodeSteps DEF k
  <2>6. k \in Seq(Sym)
    BY <2>3, AddsTyped DEF k
  <2>7. (x.text \o q.text) \o k = x.text \o (q.text \o k)
    <3> DEFINE f == x.text
               g == q.text
    <3>1. f \in Seq(Sym) /\ g \in Seq(Sym) /\ k \in Seq(Sym)
      BY <1>1, <2>3, <2>6
    <3> HIDE DEF f, g, T, joined, alone
    <3>2. (f \o g) \o k = f \o (g \o k)
      BY <3>1
    <3> QED BY <3>2 DEF f, g
  <2>8. joined(Append(u, e)).text = p.text \o k /\ alone(Append(u, e)).text = q.text \o k
        /\ joined(Append(u, e)).begun = alone(Append(u, e)).begun
    BY <2>4, <2>5
  <2> QED BY <2>1, <2>2, <2>7, <2>8
<1>8. T \in SUBSET Seq(Sym)
  OBVIOUS
<1> HIDE DEF T
<1>9. T = Seq(Sym)
  BY <1>6, <1>7, <1>8, SeqInduction
<1>10. joined(b).text = x.text \o alone(b).text /\ joined(b).begun = alone(b).begun
  BY <1>9 DEF T
<1>11. joined(b) \in Decoding
  <2>1. a \o b \in Seq(Sym)
    OBVIOUS
  <2> QED BY <2>1, DecodedTyped
<1>12. joined(b) = [text |-> joined(b).text, begun |-> joined(b).begun]
  BY <1>11 DEF Decoding
<1> QED BY <1>10, <1>12 DEF x, w

(* The deltas of the lines of a text.                                      *)
Delta == ({"text", "reason"} \X Sym)
           \cup {<<"call", 1, "id1", <<"{">>>>, <<"call", 1, "", <<"}">>>>, <<"call", 2, "id2", <<>>>>, <<"usage">>}
Line == Seq(Sym)
readLine == [l \in Line |-> Answer!ReadLine(l)]

\* Every event has deltas.
LEMMA DeltasTyped ==
  ASSUME NEW e \in Sym
  PROVE  Answer!Deltas(e) \in Seq(Delta)
<1> DEFINE S == Delta
<1>1. /\ <<"text", e>> \in S /\ <<"reason", e>> \in S
      /\ <<"usage">> \in S
      /\ <<"call", 1, "id1", <<"{">>>> \in S /\ <<"call", 1, "", <<"}">>>> \in S /\ <<"call", 2, "id2", <<>>>> \in S
  BY DEF Delta
<1> HIDE DEF S
<1>3. \A x \in S : <<x>> \in Seq(S)
  OBVIOUS
<1>2. /\ <<<<"text", e>>>> \in Seq(S) /\ <<<<"reason", e>>>> \in Seq(S)
      /\ <<<<"reason", e>>, <<"text", e>>>> \in Seq(S)
  <2>1. \A x, y \in S : <<x, y>> \in Seq(S)
    OBVIOUS
  <2> QED BY <1>1, <1>3, <2>1, Zenon
<1>4. <<>> \in Seq(S)
  OBVIOUS
<1>5. /\ <<<<"call", 1, "id1", <<"{">>>>>> \in Seq(S) /\ <<<<"call", 1, "", <<"}">>>>>> \in Seq(S)
      /\ <<<<"call", 2, "id2", <<>>>>>> \in Seq(S) /\ <<<<"usage">>>> \in Seq(S)
  BY <1>1, <1>3, Zenon
<1> QED BY <1>2, <1>4, <1>5, Zenon DEF Answer!Deltas, S

\* A line has deltas, the empty one none.
LEMMA LineTyped ==
  /\ Gives(Line, Delta, readLine) /\ readLine \in [Line -> Seq(Delta)]
  /\ readLine[<<>>] = <<>>
<1> DEFINE S == Delta
<1>1. ASSUME NEW l \in Line PROVE Answer!ReadLine(l) \in Seq(S)
  <2>1. CASE ~Answer!Whole(l)
    <3>1. <<>> \in Seq(S)
      OBVIOUS
    <3> QED BY <2>1, <3>1, Zenon DEF Answer!ReadLine
  <2>2. CASE Answer!Whole(l)
    <3> DEFINE d == Answer!Deltas(Head(l))
               bad == "repl" \in Answer!ToSet(l)
               hurt == <<"text", "damaged">>
    <3>1. l # <<>>
      BY <2>2 DEF Answer!Whole
    <3>2. Head(l) \in Sym
      BY <3>1 DEF Line
    <3>3. d \in Seq(S)
      BY <3>2, DeltasTyped
    <3>4. hurt \in S
      BY DEF Delta, Sym, Answer!Symbol
    <3>5. Answer!ReadLine(l) = [i \in DOMAIN d |-> IF bad THEN hurt ELSE d[i]]
      BY <2>2 DEF Answer!ReadLine
    <3> HIDE DEF d, bad, hurt, S
    <3>6. [i \in DOMAIN d |-> IF bad THEN hurt ELSE d[i]] \in Seq(S)
      BY <3>3, <3>4
    <3> QED BY <3>5, <3>6
  <2> QED BY <2>1, <2>2
<1>2. Answer!ReadLine(<<>>) = <<>> /\ <<>> \in Line
  BY DEF Answer!ReadLine, Answer!Whole, Line
<1> QED BY <1>1, <1>2 DEF Gives, readLine

\* The deltas of lines, and of one line more.
LEMMA LineFlat ==
  /\ Flat(readLine, <<>>) = <<>>
  /\ \A ls \in Seq(Line) : Flat(readLine, ls) \in Seq(Delta)
  /\ \A ls \in Seq(Line) : \A l \in Line : Flat(readLine, Append(ls, l)) = Flat(readLine, ls) \o readLine[l]
BY LineTyped, FlatLaws

Breaking == [lines : Seq(Line), line : Line]
break == [p \in Breaking \X Sym |-> Answer!BreakLine(p[1], p[2])]
unread == [lines |-> <<>>, line |-> <<>>]

\* Breaking a text into lines is a walk.
LEMMA BreakSteps ==
  /\ break \in Steps(Breaking, Sym) /\ unread \in Breaking
  /\ \A so \in Breaking : \A b \in Sym :
       /\ break[<<so, b>>] = Answer!BreakLine(so, b)
       /\ b = "nl" => break[<<so, b>>] = [lines |-> Append(so.lines, so.line), line |-> <<>>]
       /\ b # "nl" => break[<<so, b>>] = [lines |-> so.lines, line |-> Append(so.line, b)]
<1>1. ASSUME NEW so \in Breaking, NEW b \in Sym
      PROVE  /\ b = "nl" => Answer!BreakLine(so, b) = [lines |-> Append(so.lines, so.line), line |-> <<>>]
             /\ b # "nl" => Answer!BreakLine(so, b) = [lines |-> so.lines, line |-> Append(so.line, b)]
  BY DEF Breaking, Answer!BreakLine
<1>2. ASSUME NEW so \in Breaking, NEW b \in Sym
      PROVE  Answer!BreakLine(so, b) \in Breaking
  <2>1. so.lines \in Seq(Line) /\ so.line \in Line
    BY DEF Breaking
  <2>2. Append(so.lines, so.line) \in Seq(Line) /\ Append(so.line, b) \in Line /\ <<>> \in Line
    BY <2>1 DEF Line
  <2>3. \A x \in Seq(Line), y \in Line : [lines |-> x, line |-> y] \in Breaking
    BY DEF Breaking
  <2>4. CASE b = "nl"
    BY <1>1, <2>2, <2>3, <2>4
  <2>5. CASE b # "nl"
    BY <1>1, <2>1, <2>2, <2>3, <2>5
  <2> QED BY <2>4, <2>5
<1>3. unread \in Breaking
  BY DEF unread, Breaking, Line
<1> QED BY <1>1, <1>2, <1>3 DEF Steps, break

\* What Stream breaks a text into is where that walk ends.
LEMMA BrokenWalks ==
  ASSUME NEW s \in Line
  PROVE  Answer!Broken(s) = Walked(break, unread, s)
<1> DEFINE n == Len(s)
           F(g) == g = [i \in 0 .. n |-> IF i = 0 THEN unread ELSE Answer!BreakLine(g[i - 1], s[i])]
           walk == CHOOSE g : F(g)
<1>0. s \in Seq(Sym)
  BY DEF Line
<1>1. Answer!Broken(s) = walk[n]
  BY DEF Answer!Broken, Answer!Through, unread
<1>2. PICK h : /\ h = [i \in 0 .. n |-> IF i = 0 THEN unread ELSE break[<<h[i - 1], s[i]>>]]
               /\ \A i \in 1 .. n : h[i - 1] \in Breaking /\ s[i] \in Sym
  BY <1>0, BreakSteps, WalkGiven
<1>3. n \in Nat /\ \A i \in 0 .. n : i = 0 \/ i \in 1 .. n
  BY <1>0
<1>4. F(h)
  <2>1. \A i \in 1 .. n : break[<<h[i - 1], s[i]>>] = Answer!BreakLine(h[i - 1], s[i])
    BY <1>2, BreakSteps
  <2> HIDE DEF n
  <2>2. [i \in 0 .. n |-> IF i = 0 THEN unread ELSE break[<<h[i - 1], s[i]>>]]
          = [i \in 0 .. n |-> IF i = 0 THEN unread ELSE Answer!BreakLine(h[i - 1], s[i])]
    BY <1>3, <2>1
  <2> QED BY <1>2, <2>2, Zenon
<1>5. F(walk)
  <2> HIDE DEF F
  <2> QED BY <1>4, Zenon DEF walk
<1> HIDE DEF walk
<1>6. /\ walk[0] = unread
      /\ \A i \in 1 .. n : walk[i] = Answer!BreakLine(walk[i - 1], s[i])
  <2> HIDE DEF n
  <2> QED BY <1>3, <1>5
<1> HIDE DEF F
<1>7. \A i \in 1 .. n : walk[i - 1] \in Breaking => walk[i] = break[<<walk[i - 1], s[i]>>]
  BY <1>2, <1>6, BreakSteps
<1>8. Obeys(walk, Breaking, break, unread, s, Len(s))
  BY <1>6, <1>7 DEF Obeys
<1> QED BY <1>0, <1>1, <1>8, BreakSteps, WalkedIsEnd

\* What the whole lines of a text say, and what follows them.
Told(text) == Flat(readLine, Answer!Broken(text).lines)
Rest(text) == Answer!Broken(text).line
\* What it says when nothing follows.
Heard(text) == Told(text) \o readLine[Rest(text)]

\* A line break tells the line before it; another byte joins its line.
LEMMA ToldSteps ==
  /\ Told(<<>>) = <<>> /\ Rest(<<>>) = <<>>
  /\ \A s \in Line : Told(s) \in Seq(Delta) /\ Rest(s) \in Line /\ Heard(s) \in Seq(Delta)
  /\ \A s \in Line : Told(Append(s, "nl")) = Heard(s) /\ Rest(Append(s, "nl")) = <<>>
  /\ \A s \in Line : \A b \in Sym :
       b # "nl" => Told(Append(s, b)) = Told(s) /\ Rest(Append(s, b)) = Append(Rest(s), b)
<1> DEFINE B(s) == Answer!Broken(s)
<1>1. \A s \in Line : B(s) \in Breaking /\ B(s).lines \in Seq(Line) /\ B(s).line \in Line
  <2>1. \A s \in Seq(Sym) : Walked(break, unread, s) \in Breaking
    BY BreakSteps, WalkedSteps
  <2> QED BY <2>1, BrokenWalks DEF Line, Breaking
<1>2. \A s \in Line : \A b \in Sym : B(Append(s, b)) = break[<<B(s), b>>] /\ Append(s, b) \in Line
  <2>1. \A s \in Seq(Sym) : \A b \in Sym : Append(s, b) \in Seq(Sym)
    OBVIOUS
  <2>2. \A s \in Seq(Sym) : \A b \in Sym :
          Walked(break, unread, Append(s, b)) = break[<<Walked(break, unread, s), b>>]
    BY BreakSteps, WalkedSteps
  <2> QED BY <2>1, <2>2, BrokenWalks DEF Line
<1>3. B(<<>>) = unread /\ <<>> \in Line
  <2>1. <<>> \in Line
    BY DEF Line
  <2>2. Walked(break, unread, <<>>) = unread
    BY BreakSteps, WalkedSteps
  <2> QED BY <2>1, <2>2, BrokenWalks
<1> HIDE DEF B
<1>4. /\ Flat(readLine, <<>>) = <<>>
      /\ \A ls \in Seq(Line) : Flat(readLine, ls) \in Seq(Delta)
      /\ \A ls \in Seq(Line) : \A l \in Line : Flat(readLine, Append(ls, l)) = Flat(readLine, ls) \o readLine[l]
  BY LineFlat
<1>5. \A s : Told(s) = Flat(readLine, B(s).lines) /\ Rest(s) = B(s).line /\ Heard(s) = Told(s) \o readLine[Rest(s)]
  BY DEF Told, Rest, Heard, B
<1>6. Told(<<>>) = <<>> /\ Rest(<<>>) = <<>>
  BY <1>3, <1>4, <1>5 DEF unread
<1>7. \A s \in Line : Told(s) \in Seq(Delta) /\ Rest(s) \in Line /\ Heard(s) \in Seq(Delta)
  <2> TAKE s \in Line
  <2>1. Told(s) \in Seq(Delta) /\ Rest(s) \in Line
    BY <1>1, <1>4, <1>5
  <2>2. readLine[Rest(s)] \in Seq(Delta)
    BY <2>1, LineTyped
  <2> DEFINE S == Delta
  <2> HIDE DEF S
  <2>3. \A x, y \in Seq(S) : x \o y \in Seq(S)
    OBVIOUS
  <2> QED BY <1>5, <2>1, <2>2, <2>3 DEF S
<1>8. ASSUME NEW s \in Line PROVE Told(Append(s, "nl")) = Heard(s) /\ Rest(Append(s, "nl")) = <<>>
  <2>1. "nl" \in Sym
    BY DEF Sym, Answer!Symbol
  <2>2. B(Append(s, "nl")) = [lines |-> Append(B(s).lines, B(s).line), line |-> <<>>]
    BY <1>1, <1>2, <2>1, BreakSteps
  <2> DEFINE ls == B(s).lines
             l == B(s).line
             t == Append(s, "nl")
  <2>3. ls \in Seq(Line) /\ l \in Line /\ B(t).lines = Append(ls, l) /\ B(t).line = <<>>
    BY <1>1, <2>2
  <2>4. Told(s) = Flat(readLine, ls) /\ Rest(s) = l /\ Heard(s) = Told(s) \o readLine[Rest(s)]
        /\ Told(t) = Flat(readLine, B(t).lines) /\ Rest(t) = B(t).line
    BY <1>5
  <2> HIDE DEF ls, l, t
  <2>5. Flat(readLine, Append(ls, l)) = Flat(readLine, ls) \o readLine[l]
    BY <1>4, <2>3
  <2> QED BY <2>3, <2>4, <2>5 DEF t
<1>9. ASSUME NEW s \in Line, NEW b \in Sym, b # "nl"
      PROVE  Told(Append(s, b)) = Told(s) /\ Rest(Append(s, b)) = Append(Rest(s), b)
  <2>1. B(Append(s, b)) = [lines |-> B(s).lines, line |-> Append(B(s).line, b)]
    BY <1>1, <1>2, <1>9, BreakSteps
  <2> QED BY <1>5, <2>1
<1> QED BY <1>6, <1>7, <1>8, <1>9

\* The program's own reading of what was delivered.
LEMMA SaidIsHeard ==
  ASSUME Answer!Lossy(got) \in Line
  PROVE  Answer!Said = Heard(Answer!Lossy(got))
<1> DEFINE t == Answer!Lossy(got)
           ls == Answer!Broken(t).lines
           l == Answer!Broken(t).line
<1>1. Walked(break, unread, t) \in Breaking
  BY BreakSteps, WalkedSteps DEF Line
<1>2. ls \in Seq(Line) /\ l \in Line
  BY <1>1, BrokenWalks DEF Breaking
<1>3. Answer!Lines = Append(ls, l)
  BY DEF Answer!Lines
<1> HIDE DEF ls, l
<1>4. Append(ls, l) \in Seq(Line)
  BY <1>2
<1>5. \A i \in DOMAIN Append(ls, l) : Append(ls, l)[i] \in Line
  BY <1>4
<1>6. [i \in DOMAIN Append(ls, l) |-> Answer!ReadLine(Append(ls, l)[i])]
        = [i \in DOMAIN Append(ls, l) |-> readLine[Append(ls, l)[i]]]
  BY <1>5 DEF readLine
<1>7. Answer!Said = Flat(readLine, Append(ls, l))
  BY <1>3, <1>6, SameFlatten, Zenon DEF Answer!Said, Flat
<1>8. Flat(readLine, Append(ls, l)) = Flat(readLine, ls) \o readLine[l]
  BY <1>2, LineFlat
<1> QED BY <1>7, <1>8 DEF Heard, Told, Rest, ls, l

Unbroken(line) == \A i \in DOMAIN line : line[i] # "nl"

\* A line that begins where a text has ended with one.
LEMMA LineOn ==
  ASSUME NEW c \in Line, NEW line \in Line, Rest(c) = <<>>, Unbroken(line)
  PROVE  Told(c \o line) = Told(c) /\ Rest(c \o line) = line
<1> DEFINE T == {u \in Seq(Sym) : Unbroken(u) => Told(c \o u) = Told(c) /\ Rest(c \o u) = u}
<1>1. <<>> \in T
  <2>1. c \o <<>> = c /\ <<>> \in Seq(Sym)
    BY DEF Line
  <2> QED BY <2>1
<1>2. ASSUME NEW u \in T, NEW b \in Sym PROVE Append(u, b) \in T
  <2>1. u \in Seq(Sym) /\ Append(u, b) \in Seq(Sym) /\ c \in Seq(Sym)
    BY DEF Line
  <2>2. c \o Append(u, b) = Append(c \o u, b) /\ c \o u \in Seq(Sym)
    BY <2>1
  <2>3. ASSUME Unbroken(Append(u, b)) PROVE Unbroken(u) /\ b # "nl"
    <3>1. \A i \in DOMAIN u : i \in DOMAIN Append(u, b) /\ Append(u, b)[i] = u[i]
      BY <2>1
    <3>2. Len(u) + 1 \in DOMAIN Append(u, b) /\ Append(u, b)[Len(u) + 1] = b
      BY <2>1
    <3> QED BY <2>3, <3>1, <3>2, Zenon DEF Unbroken
  <2>4. ASSUME Unbroken(Append(u, b))
        PROVE  Told(c \o Append(u, b)) = Told(c) /\ Rest(c \o Append(u, b)) = Append(u, b)
    <3>1. Told(c \o u) = Told(c) /\ Rest(c \o u) = u /\ b # "nl"
      BY <2>3, <2>4
    <3> QED BY <2>2, <3>1, ToldSteps DEF Line
  <2> QED BY <2>1, <2>4
<1>3. T \in SUBSET Seq(Sym)
  OBVIOUS
<1> HIDE DEF T
<1>4. T = Seq(Sym)
  BY <1>1, <1>2, <1>3, SeqInduction
<1> QED BY <1>4 DEF T, Line

(* What is made of the deltas of a line.                                   *)
Parse == [chunks : Nat, reasoning : BOOLEAN, finish : BOOLEAN, thinking : BOOLEAN]
Thinking(on) == <<"thinking", on>>
Chunk == Delta \cup {Thinking(TRUE), Thinking(FALSE)}

\* A chunk is a delta, or says where reasoning begins or ends.
LEMMA ChunkKinds ==
  /\ \A d \in Delta : d[1] \in {"text", "reason", "call", "usage"} /\ d \in Chunk
  /\ \A on \in BOOLEAN : Thinking(on) \in Chunk /\ Thinking(on)[1] = "thinking" /\ Thinking(on)[2] = on
  /\ \A d \in Chunk : d \in Delta \/ d = Thinking(TRUE) \/ d = Thinking(FALSE)
<1>1. ASSUME NEW d \in Delta PROVE d[1] \in {"text", "reason", "call", "usage"}
  <2>1. CASE d \in {"text", "reason"} \X Sym
    BY <2>1
  <2>2. CASE d = <<"call", 1, "id1", <<"{">>>>
    BY <2>2
  <2>3. CASE d = <<"call", 1, "", <<"}">>>>
    BY <2>3
  <2>4. CASE d = <<"call", 2, "id2", <<>>>>
    BY <2>4
  <2>5. CASE d = <<"usage">>
    BY <2>5
  <2> QED BY <2>1, <2>2, <2>3, <2>4, <2>5, Zenon DEF Delta
<1>2. \A on : Thinking(on)[1] = "thinking" /\ Thinking(on)[2] = on
  BY DEF Thinking
<1>3. Thinking(TRUE) \in Chunk /\ Thinking(FALSE) \in Chunk
  BY Zenon DEF Chunk
<1>4. \A d \in Delta : d \in Chunk
  BY Zenon DEF Chunk
<1>5. \A d \in Chunk : d \in Delta \/ d = Thinking(TRUE) \/ d = Thinking(FALSE)
  BY Zenon DEF Chunk
<1> QED BY <1>1, <1>2, <1>3, <1>4, <1>5, Zenon

\* What a delta puts before the next one, and the state after it.
Puts(on, d) ==
  (IF d[1] = "reason" /\ ~on THEN <<Thinking(TRUE)>>
   ELSE IF d[1] = "text" /\ on THEN <<Thinking(FALSE)>> ELSE <<>>) \o <<d>>
After(s, d) ==
  [chunks |-> IF d[1] \in {"text", "call"} THEN s.chunks + 1 ELSE s.chunks,
   reasoning |-> s.reasoning \/ d[1] = "reason", finish |-> s.finish,
   thinking |-> IF d[1] = "reason" THEN TRUE ELSE IF d[1] = "text" THEN FALSE ELSE s.thinking]

\* A delta puts itself, after such a chunk where reasoning begins or ends.
LEMMA PutsTyped ==
  ASSUME NEW on \in BOOLEAN, NEW d \in Delta
  PROVE  /\ Puts(on, d) \in Seq(Chunk)
         /\ \/ d[1] = "reason" /\ ~on /\ Puts(on, d) = <<Thinking(TRUE), d>>
            \/ d[1] = "text" /\ on /\ Puts(on, d) = <<Thinking(FALSE), d>>
            \/ ~(d[1] = "reason" /\ ~on) /\ ~(d[1] = "text" /\ on) /\ Puts(on, d) = <<d>>
<1> DEFINE S == Chunk
           t == Thinking(TRUE)
           f == Thinking(FALSE)
           k == d[1]
<1>1. d \in S /\ t \in S /\ f \in S
  BY ChunkKinds
<1>2. Puts(on, d) = (IF k = "reason" /\ ~on THEN <<t>>
                     ELSE IF k = "text" /\ on THEN <<f>> ELSE <<>>) \o <<d>>
  BY DEF Puts
<1> HIDE DEF S, t, f, k
<1>3. /\ <<t>> \o <<d>> = <<t, d>> /\ <<f>> \o <<d>> = <<f, d>> /\ <<>> \o <<d>> = <<d>>
      /\ <<t, d>> \in Seq(S) /\ <<f, d>> \in Seq(S) /\ <<d>> \in Seq(S)
  <2>1. ASSUME NEW x \in S, NEW y \in S PROVE <<x>> \o <<y>> = <<x, y>> /\ <<x, y>> \in Seq(S)
    <3> DEFINE p == <<x>>
               q == <<y>>
               w == <<x, y>>
    <3>1. p \in Seq(S) /\ q \in Seq(S) /\ Len(p) = 1 /\ Len(q) = 1 /\ p[1] = x /\ q[1] = y
      OBVIOUS
    <3>2. w \in Seq(S) /\ Len(w) = 2 /\ w[1] = x /\ w[2] = y
      OBVIOUS
    <3> HIDE DEF p, q, w
    <3>3. p \o q \in Seq(S) /\ Len(p \o q) = 2 /\ (p \o q)[1] = x /\ (p \o q)[2] = y
      <4>1. \A u, v \in Seq(S) : u \o v \in Seq(S) /\ Len(u \o v) = Len(u) + Len(v)
        OBVIOUS
      <4>2. \A u, v \in Seq(S) : \A i \in 1 .. Len(u) + Len(v) :
              (u \o v)[i] = IF i <= Len(u) THEN u[i] ELSE v[i - Len(u)]
        OBVIOUS
      <4>3. p \o q \in Seq(S) /\ Len(p \o q) = 2
        BY <3>1, <4>1
      <4> DEFINE h == p \o q
      <4>4. \A i \in 1 .. 2 : h[i] = IF i <= 1 THEN p[i] ELSE q[i - 1]
        BY <3>1, <4>2
      <4> HIDE DEF h
      <4>5. h[1] = p[1] /\ h[2] = q[1]
        BY <4>4
      <4> QED BY <3>1, <4>3, <4>5 DEF h
    <3>4. \A i \in 1 .. 2 : i = 1 \/ i = 2
      OBVIOUS
    <3>5. p \o q = w
      BY <3>2, <3>3, <3>4, SeqEqual
    <3> QED BY <3>2, <3>5 DEF p, q, w
  <2>2. \A y \in S : <<>> \o <<y>> = <<y>> /\ <<y>> \in Seq(S)
    OBVIOUS
  <2> QED BY <1>1, <2>1, <2>2, Zenon
<1>4. k # "reason" \/ k # "text"
  OBVIOUS
<1>5. CASE k = "reason" /\ ~on
  BY <1>2, <1>3, <1>5 DEF S, t, f, k
<1>6. CASE k = "text" /\ on
  BY <1>2, <1>3, <1>6 DEF S, t, f, k
<1>7. CASE ~(k = "reason" /\ ~on) /\ ~(k = "text" /\ on)
  BY <1>2, <1>3, <1>7 DEF S, t, f, k
<1> QED BY <1>5, <1>6, <1>7

\* The state after a delta is one.
LEMMA AfterTyped ==
  ASSUME NEW s \in Parse, NEW d \in Delta
  PROVE  After(s, d) \in Parse
<1>1. s.chunks \in Nat /\ s.reasoning \in BOOLEAN /\ s.finish \in BOOLEAN /\ s.thinking \in BOOLEAN
  BY DEF Parse
<1> DEFINE c == IF d[1] \in {"text", "call"} THEN s.chunks + 1 ELSE s.chunks
           r == s.reasoning \/ d[1] = "reason"
           t == IF d[1] = "reason" THEN TRUE ELSE IF d[1] = "text" THEN FALSE ELSE s.thinking
<1>2. c \in Nat
  BY <1>1
<1>3. r \in BOOLEAN
  OBVIOUS
<1>4. t \in BOOLEAN
  BY <1>1
<1>5. \A w \in Nat, x, y, z \in BOOLEAN :
         [chunks |-> w, reasoning |-> x, finish |-> y, thinking |-> z] \in Parse
  BY DEF Parse
<1>6. After(s, d) = [chunks |-> c, reasoning |-> r, finish |-> s.finish, thinking |-> t]
  BY DEF After
<1> HIDE DEF c, r, t
<1> QED BY <1>1, <1>2, <1>3, <1>4, <1>5, <1>6, Zenon

\* Two fields of the state that change together.
LEMMA ParseWith ==
  ASSUME NEW p \in Parse, NEW yes
  PROVE  /\ [p EXCEPT !.reasoning = yes, !.thinking = yes]
               = [chunks |-> p.chunks, reasoning |-> yes, finish |-> p.finish, thinking |-> yes]
         /\ [p EXCEPT !.chunks = @ + 1, !.thinking = yes]
               = [chunks |-> p.chunks + 1, reasoning |-> p.reasoning, finish |-> p.finish, thinking |-> yes]
<1>1. p = [chunks |-> p.chunks, reasoning |-> p.reasoning, finish |-> p.finish, thinking |-> p.thinking]
  BY DEF Parse
<1> DEFINE a == p.chunks
           b == p.reasoning
           c == p.finish
           d == p.thinking
           q == [p EXCEPT !.reasoning = yes]
           r == [p EXCEPT !.chunks = a + 1]
<1>2. p = [chunks |-> a, reasoning |-> b, finish |-> c, thinking |-> d]
  BY <1>1
<1> HIDE DEF a, b, c, d
<1>3. q = [chunks |-> a, reasoning |-> yes, finish |-> c, thinking |-> d]
  BY <1>2
<1>4. r = [chunks |-> a + 1, reasoning |-> b, finish |-> c, thinking |-> d]
  BY <1>2
<1>5. [p EXCEPT !.reasoning = yes, !.thinking = yes] = [q EXCEPT !.thinking = yes]
  BY <1>2
<1>6. [p EXCEPT !.chunks = a + 1, !.thinking = yes] = [r EXCEPT !.thinking = yes]
  BY <1>2
<1> HIDE DEF q, r
<1>7. [q EXCEPT !.thinking = yes] = [chunks |-> a, reasoning |-> yes, finish |-> c, thinking |-> yes]
  BY <1>3
<1>8. [r EXCEPT !.thinking = yes] = [chunks |-> a + 1, reasoning |-> b, finish |-> c, thinking |-> yes]
  BY <1>4
<1> QED BY <1>5, <1>6, <1>7, <1>8 DEF a, b, c

Dispatching == [s : Parse, o : Seq(Chunk)]
dispatch == [p \in Dispatching \X Delta |-> Answer!DispatchDelta(p[1], p[2])]

\* process_sse_chunk puts and counts each delta as Puts and After say.
LEMMA DispatchDeltaIs ==
  ASSUME NEW so \in Dispatching, NEW d \in Delta
  PROVE  Answer!DispatchDelta(so, d) = [s |-> After(so.s, d), o |-> so.o \o Puts(so.s.thinking, d)]
<1> DEFINE k == d[1]
           on == so.s.thinking
           s == so.s
           o == so.o
           a == IF on THEN <<>> ELSE <<<<"thinking", TRUE>>>>
           b == IF on THEN <<<<"thinking", FALSE>>>> ELSE <<>>
           S == Chunk
<1>1. s \in Parse /\ o \in Seq(S) /\ on \in BOOLEAN
  BY DEF Dispatching, Parse
<1>2. d \in S /\ <<"thinking", TRUE>> \in S /\ <<"thinking", FALSE>> \in S
  BY ChunkKinds DEF Thinking
<1>3. CASE k = "reason"
  <2>1. Answer!DispatchDelta(so, d)
          = [s |-> [s EXCEPT !.reasoning = TRUE, !.thinking = TRUE], o |-> (o \o a) \o <<d>>]
    BY <1>3 DEF Answer!DispatchDelta
  <2>2. Puts(on, d) = a \o <<d>>
    BY <1>1, <1>3 DEF Puts, Thinking
  <2>3. [s EXCEPT !.reasoning = TRUE, !.thinking = TRUE] = After(s, d)
    <3>1. (s.reasoning \/ k = "reason") = TRUE
      BY <1>3
    <3>2. After(s, d) = [chunks |-> s.chunks, reasoning |-> TRUE, finish |-> s.finish, thinking |-> TRUE]
      <4>1. k \notin {"text", "call"}
        BY <1>3
      <4> QED BY <1>3, <3>1, <4>1, Zenon DEF After
    <3>3. \A p \in Parse : [p EXCEPT !.reasoning = TRUE, !.thinking = TRUE]
            = [chunks |-> p.chunks, reasoning |-> TRUE, finish |-> p.finish, thinking |-> TRUE]
      BY ParseWith
    <3> QED BY <1>1, <3>2, <3>3, Zenon
  <2> HIDE DEF S, o, on
  <2>4. a \in Seq(S) /\ <<d>> \in Seq(S)
    BY <1>2
  <2> HIDE DEF a
  <2>5. (o \o a) \o <<d>> = o \o (a \o <<d>>)
    BY <1>1, <2>4
  <2> QED BY <2>1, <2>2, <2>3, <2>5, Zenon DEF o, on
<1>4. CASE k = "text"
  <2>1. Answer!DispatchDelta(so, d)
          = [s |-> [s EXCEPT !.chunks = @ + 1, !.thinking = FALSE], o |-> (o \o b) \o <<d>>]
    BY <1>4 DEF Answer!DispatchDelta
  <2>2. Puts(on, d) = b \o <<d>>
    BY <1>1, <1>4 DEF Puts, Thinking
  <2>3. [s EXCEPT !.chunks = @ + 1, !.thinking = FALSE] = After(s, d)
    <3>1. (s.reasoning \/ k = "reason") = s.reasoning
      BY <1>1, <1>4 DEF Parse
    <3>2. After(s, d)
            = [chunks |-> s.chunks + 1, reasoning |-> s.reasoning, finish |-> s.finish, thinking |-> FALSE]
      <4>1. k \in {"text", "call"} /\ k # "reason"
        BY <1>4
      <4> QED BY <1>4, <3>1, <4>1, Zenon DEF After
    <3>3. \A p \in Parse : [p EXCEPT !.chunks = @ + 1, !.thinking = FALSE]
            = [chunks |-> p.chunks + 1, reasoning |-> p.reasoning, finish |-> p.finish, thinking |-> FALSE]
      BY ParseWith
    <3> QED BY <1>1, <3>2, <3>3, Zenon
  <2> HIDE DEF S, o, on
  <2>4. b \in Seq(S) /\ <<d>> \in Seq(S)
    BY <1>2
  <2> HIDE DEF b
  <2>5. (o \o b) \o <<d>> = o \o (b \o <<d>>)
    BY <1>1, <2>4
  <2> QED BY <2>1, <2>2, <2>3, <2>5, Zenon DEF o, on
<1>5. CASE k # "reason" /\ k # "text"
  <2>1. Puts(on, d) = <<>> \o <<d>>
    BY <1>5 DEF Puts
  <2> DEFINE e == d
  <2>2. Append(o, e) = o \o (<<>> \o <<e>>) /\ e \in S
    <3>1. e \in S
      BY <1>2
    <3> HIDE DEF S, o, e
    <3> QED BY <1>1, <3>1
  <2>3. CASE k = "call"
    <3>1. [s EXCEPT !.chunks = @ + 1] = After(s, d)
      BY <1>1, <2>3 DEF After, Parse
    <3> QED BY <2>1, <2>2, <2>3, <3>1, Zenon DEF Answer!DispatchDelta
  <2>4. CASE k # "call"
    <3>1. s = After(s, d)
      BY <1>1, <1>5, <2>4 DEF After, Parse
    <3> QED BY <1>5, <2>1, <2>2, <2>4, <3>1, Zenon DEF Answer!DispatchDelta
  <2> QED BY <2>3, <2>4
<1> QED BY <1>3, <1>4, <1>5

\* Dispatching a line is a walk.
LEMMA DispatchSteps ==
  /\ dispatch \in Steps(Dispatching, Delta)
  /\ \A s \in Parse : [s |-> s, o |-> <<>>] \in Dispatching
  /\ \A so \in Dispatching : \A d \in Delta :
       /\ dispatch[<<so, d>>] = Answer!DispatchDelta(so, d)
       /\ dispatch[<<so, d>>] = [s |-> After(so.s, d), o |-> so.o \o Puts(so.s.thinking, d)]
<1>1. ASSUME NEW so \in Dispatching, NEW d \in Delta
      PROVE  [s |-> After(so.s, d), o |-> so.o \o Puts(so.s.thinking, d)] \in Dispatching
  <2>1. so.s \in Parse /\ so.s.thinking \in BOOLEAN /\ so.o \in Seq(Chunk)
    BY DEF Dispatching, Parse
  <2>2. After(so.s, d) \in Parse /\ Puts(so.s.thinking, d) \in Seq(Chunk)
    BY <2>1, AfterTyped, PutsTyped
  <2>3. \A x, y \in Seq(Chunk) : x \o y \in Seq(Chunk)
    <3> DEFINE S == Chunk
    <3> HIDE DEF S
    <3>1. \A x, y \in Seq(S) : x \o y \in Seq(S)
      OBVIOUS
    <3> QED BY <3>1 DEF S
  <2>4. \A x \in Parse, y \in Seq(Chunk) : [s |-> x, o |-> y] \in Dispatching
    BY DEF Dispatching
  <2> QED BY <2>1, <2>2, <2>3, <2>4, Zenon
<1>2. \A so \in Dispatching : \A d \in Delta : Answer!DispatchDelta(so, d) \in Dispatching
  BY <1>1, DispatchDeltaIs
<1>3. \A s \in Parse : [s |-> s, o |-> <<>>] \in Dispatching
  BY DEF Dispatching
<1> QED BY <1>2, <1>3, DispatchDeltaIs DEF Steps, dispatch

\* The state in which a line begins.
Began(line) ==
  [s |-> IF Answer!Whole(line) /\ Head(line) = "finish" THEN [seen EXCEPT !.finish = TRUE] ELSE seen,
   o |-> <<>>]

\* What Stream dispatches of a line is where that walk ends.
LEMMA DispatchWalks ==
  ASSUME NEW line \in Line, seen \in Parse
  PROVE  /\ Began(line) \in Dispatching
         /\ Answer!Dispatch(line) = Walked(dispatch, Began(line), readLine[line])
<1> DEFINE r == readLine[line]
           b == Began(line)
           n == Len(r)
           F(g) == g = [i \in 0 .. n |-> IF i = 0 THEN b ELSE Answer!DispatchDelta(g[i - 1], r[i])]
           walk == CHOOSE g : F(g)
<1>0. r \in Seq(Delta)
  BY LineTyped DEF Gives
<1>1. Answer!Dispatch(line) = walk[n]
  BY DEF Answer!Dispatch, Answer!Through, Began, readLine
<1>2. b \in Dispatching
  BY DispatchSteps DEF Began, Parse
<1> HIDE DEF b, r
<1>3. PICK h : /\ h = [i \in 0 .. n |-> IF i = 0 THEN b ELSE dispatch[<<h[i - 1], r[i]>>]]
               /\ \A i \in 1 .. n : h[i - 1] \in Dispatching /\ r[i] \in Delta
  BY <1>0, <1>2, DispatchSteps, WalkGiven
<1>4. n \in Nat /\ \A i \in 0 .. n : i = 0 \/ i \in 1 .. n
  BY <1>0
<1>5. F(h)
  <2>1. \A i \in 1 .. n : dispatch[<<h[i - 1], r[i]>>] = Answer!DispatchDelta(h[i - 1], r[i])
    BY <1>3, DispatchSteps
  <2> HIDE DEF n
  <2>2. [i \in 0 .. n |-> IF i = 0 THEN b ELSE dispatch[<<h[i - 1], r[i]>>]]
          = [i \in 0 .. n |-> IF i = 0 THEN b ELSE Answer!DispatchDelta(h[i - 1], r[i])]
    BY <1>4, <2>1
  <2> QED BY <1>3, <2>2, Zenon
<1>6. F(walk)
  <2> HIDE DEF F
  <2> QED BY <1>5, Zenon DEF walk
<1> HIDE DEF walk
<1>7. /\ walk[0] = b
      /\ \A i \in 1 .. n : walk[i] = Answer!DispatchDelta(walk[i - 1], r[i])
  <2> HIDE DEF n
  <2> QED BY <1>4, <1>6
<1> HIDE DEF F
<1>8. \A i \in 1 .. n : walk[i - 1] \in Dispatching => walk[i] = dispatch[<<walk[i - 1], r[i]>>]
  BY <1>3, <1>7, DispatchSteps
<1>9. Obeys(walk, Dispatching, dispatch, b, r, Len(r))
  BY <1>7, <1>8 DEF Obeys
<1>10. walk[n] = Walked(dispatch, b, r)
  BY <1>0, <1>2, <1>9, DispatchSteps, WalkedIsEnd
<1> QED BY <1>1, <1>2, <1>10 DEF r, b

(* What the agent task may receive when: the chunks that tell where        *)
(* reasoning begins and ends stand where it does.                          *)
Mode == {"off", "opened", "on", "closed", "bad"}
Shift(m, d) ==
  IF d[1] = "thinking"
  THEN IF d[2] THEN IF m = "off" THEN "opened" ELSE "bad" ELSE IF m = "on" THEN "closed" ELSE "bad"
  ELSE IF d[1] = "reason" THEN IF m \in {"opened", "on"} THEN "on" ELSE "bad"
  ELSE IF d[1] = "text" THEN IF m \in {"closed", "off"} THEN "off" ELSE "bad"
  ELSE IF m \in {"off", "on"} THEN m ELSE "bad"
shift == [p \in Mode \X Chunk |-> Shift(p[1], p[2])]
Settled(on) == IF on THEN "on" ELSE "off"

\* Receiving is a walk.
LEMMA ShiftSteps ==
  /\ shift \in Steps(Mode, Chunk)
  /\ \A m \in Mode : \A d \in Chunk : shift[<<m, d>>] = Shift(m, d) /\ Shift(m, d) \in Mode
<1>1. \A m \in Mode : \A d \in Chunk : Shift(m, d) \in Mode
  BY DEF Shift, Mode
<1> QED BY <1>1 DEF Steps, shift

\* It goes over one chunk, or two.
LEMMA ShiftOn ==
  ASSUME NEW m \in Mode, NEW d \in Chunk, NEW e \in Chunk
  PROVE  /\ Walked(shift, m, <<d>>) = Shift(m, d)
         /\ Walked(shift, m, <<d, e>>) = Shift(Shift(m, d), e)
<1> DEFINE S == Chunk
           p == <<d>>
           q == <<d, e>>
<1>1. <<>> \in Seq(S) /\ p = Append(<<>>, d) /\ p \in Seq(S)
  OBVIOUS
<1>2. q = Append(p, e)
  OBVIOUS
<1>3. Walked(shift, m, <<>>) = m
  BY ShiftSteps, WalkedSteps
<1>4. \A s \in Seq(Chunk) : \A x \in Chunk :
         Walked(shift, m, Append(s, x)) = shift[<<Walked(shift, m, s), x>>]
  BY ShiftSteps, WalkedSteps
<1> HIDE DEF p, q
<1>5. Walked(shift, m, p) = shift[<<m, d>>]
  BY <1>1, <1>3, <1>4
<1>6. Walked(shift, m, q) = shift[<<shift[<<m, d>>], e>>]
  BY <1>1, <1>2, <1>4, <1>5
<1>7. shift[<<m, d>>] = Shift(m, d) /\ Shift(m, d) \in Mode
  BY ShiftSteps
<1>8. shift[<<Shift(m, d), e>>] = Shift(Shift(m, d), e)
  BY <1>7, ShiftSteps
<1> QED BY <1>5, <1>6, <1>7, <1>8 DEF p, q

\* What went wrong stays wrong.
LEMMA BadStays ==
  ASSUME NEW s \in Seq(Chunk)
  PROVE  Walked(shift, "bad", s) = "bad"
<1> DEFINE T == {u \in Seq(Chunk) : Walked(shift, "bad", u) = "bad"}
<1>0. "bad" \in Mode
  BY DEF Mode
<1>1. /\ Walked(shift, "bad", <<>>) = "bad"
      /\ \A u \in Seq(Chunk) : \A x \in Chunk :
           Walked(shift, "bad", Append(u, x)) = shift[<<Walked(shift, "bad", u), x>>]
  BY <1>0, ShiftSteps, WalkedSteps
<1>2. <<>> \in T
  BY <1>1
<1>3. ASSUME NEW u \in T, NEW x \in Chunk PROVE Append(u, x) \in T
  <2>1. Append(u, x) \in Seq(Chunk) /\ u \in Seq(Chunk)
    OBVIOUS
  <2>2. Walked(shift, "bad", Append(u, x)) = Shift("bad", x)
    BY <1>0, <1>1, <2>1, ShiftSteps
  <2>3. Shift("bad", x) = "bad"
    BY DEF Shift
  <2> QED BY <2>1, <2>2, <2>3
<1>4. T \in SUBSET Seq(Chunk)
  OBVIOUS
<1> HIDE DEF T
<1>5. T = Seq(Chunk)
  BY <1>2, <1>3, <1>4, SeqInduction
<1> QED BY <1>5 DEF T

\* The first chunk of what leads to a good end is a good one.
LEMMA ShiftHead ==
  ASSUME NEW m \in Mode, NEW s \in Seq(Chunk), NEW d \in Chunk, NEW on \in BOOLEAN,
         Walked(shift, m, <<d>> \o s) = Settled(on)
  PROVE  /\ Shift(m, d) \in Mode \ {"bad"}
         /\ Walked(shift, Shift(m, d), s) = Settled(on)
<1> DEFINE p == <<d>>
<1>1. p \in Seq(Chunk)
  OBVIOUS
<1> HIDE DEF p
<1>2. Walked(shift, m, p \o s) = Walked(shift, Walked(shift, m, p), s)
  BY <1>1, ShiftSteps, WalkedOver
<1>3. Walked(shift, m, <<d>>) = Shift(m, d) /\ Shift(m, d) \in Mode
  BY ShiftOn, ShiftSteps
<1>4. Settled(on) # "bad"
  BY DEF Settled
<1> QED BY <1>2, <1>3, <1>4, BadStays DEF p

\* A delta is put where it may be received.
LEMMA PutsShift ==
  ASSUME NEW s \in Parse, NEW d \in Delta
  PROVE  Walked(shift, Settled(s.thinking), Puts(s.thinking, d)) = Settled(After(s, d).thinking)
<1> DEFINE on == s.thinking
           k == d[1]
           m == Settled(on)
<1>1. on \in BOOLEAN
  BY DEF Parse
<1>2. m \in Mode
  BY DEF Settled, Mode
<1>3. d \in Chunk /\ k \in {"text", "reason", "call", "usage"}
  BY ChunkKinds
<1>4. After(s, d).thinking = IF k = "reason" THEN TRUE ELSE IF k = "text" THEN FALSE ELSE on
  BY DEF After
<1>5. /\ Thinking(TRUE) \in Chunk /\ Thinking(TRUE)[1] = "thinking" /\ Thinking(TRUE)[2] = TRUE
      /\ Thinking(FALSE) \in Chunk /\ Thinking(FALSE)[1] = "thinking" /\ Thinking(FALSE)[2] = FALSE
  BY ChunkKinds
<1> HIDE DEF on
<1>6. CASE k = "reason" /\ ~on /\ Puts(on, d) = <<Thinking(TRUE), d>>
  <2>1. Walked(shift, m, <<Thinking(TRUE), d>>) = Shift(Shift(m, Thinking(TRUE)), d)
    BY <1>2, <1>3, <1>5, ShiftOn
  <2>2. Shift("off", Thinking(TRUE)) = "opened"
    BY <1>5 DEF Shift
  <2>3. Shift("opened", d) = "on"
    BY <1>6 DEF Shift
  <2> QED BY <1>4, <1>6, <2>1, <2>2, <2>3 DEF Settled, on
<1>7. CASE k = "text" /\ on /\ Puts(on, d) = <<Thinking(FALSE), d>>
  <2>1. Walked(shift, m, <<Thinking(FALSE), d>>) = Shift(Shift(m, Thinking(FALSE)), d)
    BY <1>2, <1>3, <1>5, ShiftOn
  <2>2. Shift("on", Thinking(FALSE)) = "closed"
    BY <1>5 DEF Shift
  <2>3. Shift("closed", d) = "off"
    BY <1>7 DEF Shift
  <2> QED BY <1>4, <1>7, <2>1, <2>2, <2>3 DEF Settled, on
<1>8. CASE ~(k = "reason" /\ ~on) /\ ~(k = "text" /\ on) /\ Puts(on, d) = <<d>>
  <2>1. Walked(shift, m, <<d>>) = Shift(m, d)
    BY <1>2, <1>3, ShiftOn
  <2>2. Shift(m, d) = IF k = "reason" THEN "on" ELSE IF k = "text" THEN "off" ELSE m
    BY <1>1, <1>3, <1>8 DEF Shift, Settled
  <2> QED BY <1>4, <1>8, <2>1, <2>2 DEF Settled, on
<1> QED BY <1>1, <1>6, <1>7, <1>8, PutsTyped DEF on

\* What the chunks say of the response.
plain == [d \in Chunk |-> IF d[1] = "thinking" THEN <<>> ELSE <<d>>]

\* It is the deltas.
LEMMA PlainGives ==
  /\ Gives(Chunk, Delta, plain)
  /\ \A d \in Delta : plain[d] = <<d>>
  /\ \A d \in Chunk : plain[d] = IF d[1] = "thinking" THEN <<>> ELSE <<d>>
<1> DEFINE S == Delta
<1>1. \A d \in Chunk : d[1] # "thinking" => d \in S
  BY ChunkKinds
<1>2. \A d \in Chunk : plain[d] = IF d[1] = "thinking" THEN <<>> ELSE <<d>>
  BY DEF plain
<1>3. \A d \in S : <<d>> \in Seq(S)
  OBVIOUS
<1>4. <<>> \in Seq(S)
  OBVIOUS
<1>5. ASSUME NEW d \in Chunk PROVE plain[d] \in Seq(S)
  <2>1. CASE d[1] = "thinking"
    BY <1>2, <1>4, <2>1, Zenon
  <2>2. CASE d[1] # "thinking"
    BY <1>1, <1>2, <1>3, <2>2, Zenon
  <2> QED BY <2>1, <2>2
<1>6. plain \in [Chunk -> Seq(S)]
  <2>1. plain = [d \in Chunk |-> plain[d]]
    BY DEF plain
  <2> QED BY <1>5, <2>1
<1>7. ASSUME NEW d \in Delta PROVE plain[d] = <<d>>
  BY <1>2, ChunkKinds
<1> QED BY <1>2, <1>6, <1>7 DEF Gives

\* What a delta puts says the delta.
LEMMA PutsPlain ==
  ASSUME NEW on \in BOOLEAN, NEW d \in Delta
  PROVE  Flat(plain, Puts(on, d)) = <<d>>
<1> DEFINE S == Chunk
<1>1. /\ Flat(plain, <<>>) = <<>>
      /\ \A s \in Seq(Chunk) : \A e \in Chunk : Flat(plain, Append(s, e)) = Flat(plain, s) \o plain[e]
  BY PlainGives, FlatLaws DEF Gives
<1>2. d \in S /\ Thinking(TRUE) \in S /\ Thinking(FALSE) \in S
  BY ChunkKinds
<1>3. plain[d] = <<d>>
  BY PlainGives
<1>4. plain[Thinking(TRUE)] = <<>> /\ plain[Thinking(FALSE)] = <<>>
  BY PlainGives, ChunkKinds
<1>5. \A x \in S : <<x>> = Append(<<>>, x) /\ <<>> \in Seq(S) /\ <<x>> \in Seq(S)
  OBVIOUS
<1>6. \A x, y \in S : <<x, y>> = Append(<<x>>, y)
  OBVIOUS
<1>7. <<>> \o <<>> = <<>> /\ <<>> \o <<d>> = <<d>>
  OBVIOUS
<1> HIDE DEF S
<1>8. \A x \in S : Flat(plain, <<x>>) = <<>> \o plain[x]
  BY <1>1, <1>5 DEF S
<1>9. \A x, y \in S : Flat(plain, <<x, y>>) = (<<>> \o plain[x]) \o plain[y]
  BY <1>1, <1>5, <1>6, <1>8 DEF S
<1>10. Flat(plain, <<d>>) = <<d>>
  BY <1>2, <1>3, <1>7, <1>8
<1>11. Flat(plain, <<Thinking(TRUE), d>>) = <<d>>
  BY <1>2, <1>3, <1>4, <1>7, <1>9
<1>12. Flat(plain, <<Thinking(FALSE), d>>) = <<d>>
  BY <1>2, <1>3, <1>4, <1>7, <1>9
<1> QED BY <1>10, <1>11, <1>12, PutsTyped

Counts(s) == s.chunks # 0 \/ s.reasoning
Tells(r) == \E i \in DOMAIN r : r[i][1] # "usage"

\* Two texts tell something if one does.
LEMMA TellsOver ==
  ASSUME NEW r \in Seq(Delta), NEW t \in Seq(Delta)
  PROVE  Tells(r \o t) <=> Tells(r) \/ Tells(t)
<1> DEFINE S == Delta
           w == r \o t
           n == Len(r)
           k == Len(t)
<1>1. n \in Nat /\ k \in Nat /\ DOMAIN r = 1 .. n /\ DOMAIN t = 1 .. k /\ DOMAIN w = 1 .. n + k
  <2> HIDE DEF S
  <2> QED BY DEF S
<1>2. \A i \in 1 .. n + k : w[i] = IF i <= n THEN r[i] ELSE t[i - n]
  OBVIOUS
<1> HIDE DEF w, n, k
<1>3. \A i \in 1 .. n : i \in 1 .. n + k /\ w[i] = r[i]
  BY <1>1, <1>2
<1>4. \A i \in 1 .. k : i + n \in 1 .. n + k /\ w[i + n] = t[i]
  BY <1>1, <1>2
<1>5. \A i \in 1 .. n + k : i \in 1 .. n \/ (i - n \in 1 .. k /\ w[i] = t[i - n])
  BY <1>1, <1>2
<1>6. ASSUME Tells(w) PROVE Tells(r) \/ Tells(t)
  <2>1. PICK i \in 1 .. n + k : w[i][1] # "usage"
    BY <1>1, <1>6 DEF Tells
  <2>2. CASE i \in 1 .. n
    BY <1>1, <1>3, <2>1, <2>2, Zenon DEF Tells
  <2>3. CASE i - n \in 1 .. k /\ w[i] = t[i - n]
    BY <1>1, <2>1, <2>3, Zenon DEF Tells
  <2> QED BY <1>5, <2>2, <2>3
<1>7. Tells(r) \/ Tells(t) => Tells(w)
  BY <1>1, <1>3, <1>4 DEF Tells
<1> QED BY <1>6, <1>7 DEF w

\* A line is put as it is, where its deltas may be received.
LEMMA Dispatched ==
  ASSUME NEW b \in Dispatching, b.o = <<>>, NEW r \in Seq(Delta)
  PROVE  LET w == Walked(dispatch, b, r)
         IN /\ w \in Dispatching
            /\ Flat(plain, w.o) = r
            /\ Walked(shift, Settled(b.s.thinking), w.o) = Settled(w.s.thinking)
            /\ Counts(w.s) => Counts(b.s) \/ Tells(r)
<1> DEFINE W(u) == Walked(dispatch, b, u)
           m == Settled(b.s.thinking)
           T == {u \in Seq(Delta) : /\ Flat(plain, W(u).o) = u
                                    /\ Walked(shift, m, W(u).o) = Settled(W(u).s.thinking)
                                    /\ Counts(W(u).s) => Counts(b.s) \/ Tells(u)}
<1>1. /\ W(<<>>) = b
      /\ \A u \in Seq(Delta) : W(u) \in Dispatching
      /\ \A u \in Seq(Delta) : \A d \in Delta : W(Append(u, d)) = dispatch[<<W(u), d>>]
  BY DispatchSteps, WalkedSteps
<1>2. m \in Mode
  BY DEF Settled, Mode
<1> HIDE DEF m
<1>3. <<>> \in T
  <2>1. Walked(shift, m, <<>>) = m
    BY <1>2, ShiftSteps, WalkedSteps
  <2>2. Flat(plain, <<>>) = <<>>
    BY PlainGives, FlatLaws DEF Gives
  <2>3. <<>> \in Seq(Delta)
    OBVIOUS
  <2> HIDE DEF W
  <2> QED BY <1>1, <2>1, <2>2, <2>3 DEF m
<1>4. ASSUME NEW u \in T, NEW d \in Delta PROVE Append(u, d) \in T
  <2> DEFINE w == W(u)
             v == W(Append(u, d))
             p == Puts(w.s.thinking, d)
  <2>1. /\ u \in Seq(Delta) /\ Flat(plain, w.o) = u
        /\ Walked(shift, m, w.o) = Settled(w.s.thinking)
        /\ Counts(w.s) => Counts(b.s) \/ Tells(u)
    OBVIOUS
  <2>2. w \in Dispatching /\ w.s \in Parse /\ w.o \in Seq(Chunk) /\ w.s.thinking \in BOOLEAN
    <3>1. w \in Dispatching
      BY <1>1, <2>1
    <3> HIDE DEF w
    <3> QED BY <3>1 DEF Dispatching, Parse
  <2>3. v = [s |-> After(w.s, d), o |-> w.o \o p]
    BY <1>1, <2>1, <2>2, DispatchSteps
  <2> HIDE DEF w, v, p, W
  <2>4. v.s = After(w.s, d) /\ v.o = w.o \o p
    BY <2>3
  <2>5. p \in Seq(Chunk)
    BY <2>2, PutsTyped DEF p
  <2>6. Flat(plain, v.o) = Append(u, d)
    <3>1. Flat(plain, w.o \o p) = Flat(plain, w.o) \o Flat(plain, p)
      BY <2>2, <2>5, PlainGives, FlatOver
    <3>2. Flat(plain, p) = <<d>>
      BY <2>2, PutsPlain DEF p
    <3>3. Append(u, d) = u \o <<d>>
      BY <2>1, AppendIsConcat
    <3> QED BY <2>1, <2>4, <3>1, <3>2, <3>3
  <2>7. Walked(shift, m, v.o) = Settled(v.s.thinking)
    <3>1. Walked(shift, m, w.o \o p) = Walked(shift, Walked(shift, m, w.o), p)
      BY <1>2, <2>2, <2>5, ShiftSteps, WalkedOver
    <3>2. Walked(shift, Settled(w.s.thinking), p) = Settled(After(w.s, d).thinking)
      BY <2>2, PutsShift DEF p
    <3> QED BY <2>1, <2>4, <3>1, <3>2
  <2>8. Counts(v.s) => Counts(b.s) \/ Tells(Append(u, d))
    <3>1. d[1] # "usage" => Tells(<<d>>)
      <4>1. 1 \in DOMAIN <<d>> /\ <<d>>[1] = d
        OBVIOUS
      <4> QED BY <4>1, Zenon DEF Tells
    <3>2. d[1] = "usage" => v.s.chunks = w.s.chunks /\ (v.s.reasoning => w.s.reasoning)
      <4>1. After(w.s, d).chunks = (IF d[1] \in {"text", "call"} THEN w.s.chunks + 1 ELSE w.s.chunks)
        BY DEF After
      <4>2. After(w.s, d).reasoning = (w.s.reasoning \/ d[1] = "reason")
        BY DEF After
      <4> QED BY <2>2, <2>4, <4>1, <4>2 DEF Parse
    <3>3. <<d>> \in Seq(Delta) /\ Append(u, d) = u \o <<d>>
      <4>1. <<d>> \in Seq(Delta)
        OBVIOUS
      <4> QED BY <2>1, <4>1, AppendIsConcat
    <3>4. Tells(u \o <<d>>) <=> Tells(u) \/ Tells(<<d>>)
      BY <2>1, <3>3, TellsOver
    <3>5. Counts(v.s) <=> v.s.chunks # 0 \/ v.s.reasoning
      BY DEF Counts
    <3>6. Counts(w.s) <=> w.s.chunks # 0 \/ w.s.reasoning
      BY DEF Counts
    <3> QED BY <2>1, <3>1, <3>2, <3>3, <3>4, <3>5, <3>6
  <2>9. Append(u, d) \in Seq(Delta)
    BY <2>1
  <2> QED BY <2>6, <2>7, <2>8, <2>9 DEF v
<1>5. T \in SUBSET Seq(Delta)
  OBVIOUS
<1> HIDE DEF T
<1>6. T = Seq(Delta)
  BY <1>3, <1>4, <1>5, SeqInduction
<1> QED BY <1>1, <1>6 DEF T, m

(* How far the provider task is: c is the text whose lines it has taken,   *)
(* and p what the agent task has received of what they say.                *)
Pcs == {"connect", "read", "lines", "flush", "done"}
Progress(c) ==
  /\ {c, got, net, buffer} \subseteq Line /\ pc \in Pcs
  /\ pc \in {"connect", "read", "lines"} =>
       /\ Answer!Decoded(got).text = c \o buffer
       /\ pending = Waits(Answer!Decoded(got).begun)
       /\ Rest(c) = <<>>
  /\ pc \in {"flush", "done"} => Answer!Lossy(got) = c \o buffer
  /\ pc = "flush" => buffer = <<>> \/ Rest(c) = <<>>
  /\ pc = "done" => buffer = <<>>
  /\ pc \in {"connect", "read", "flush"} => Unbroken(buffer)
Parsed(c) ==
  /\ seen \in Parse /\ out \in Seq(Chunk)
  /\ pc \in {"connect", "read", "done"} => out = <<>>
  /\ Counts(seen) => Tells(Heard(c))
  /\ result = "ok" => pc = "done" /\ Counts(seen)
Flow(c, p, m) ==
  /\ p \in Seq(Delta) /\ m \in Mode /\ chan \in Seq(Chunk)
  /\ Heard(c) = p \o Flat(plain, chan \o out)
  /\ Walked(shift, m, chan \o out) = Settled(seen.thinking)

\* A connection starts with nothing read.
LEMMA ConnectRuns ==
  ASSUME NEW c, Progress(c), Parsed(c), Answer!Connect, fault' = "none"
  PROVE  Progress(c)' /\ Parsed(c)'
<1>1. \A e : Answer!Refused(e) # "none"
  BY DEF Answer!Refused
<1>2. pc = "connect" /\ pc' = "read" /\ result' = result
  BY <1>1 DEF Answer!Connect
<1>3. UNCHANGED <<net, got, pending, buffer, seen, out>>
  BY DEF Answer!Connect
<1>4. Progress(c)'
  BY <1>2, <1>3 DEF Progress, Pcs
<1>5. Parsed(c)'
  BY <1>2, <1>3 DEF Parsed
<1> QED BY <1>4, <1>5

\* A piece of the response goes on where the last one ended.
LEMMA DeliverRuns ==
  ASSUME NEW c, Progress(c), Parsed(c), NEW n \in Nat, Answer!Deliver(n)
  PROVE  Progress(c)' /\ Parsed(c)'
<1> DEFINE b == SubSeq(net, 1, n)
           x == Answer!Decoded(got)
           y == Answer!Decoded(Waits(x.begun) \o b)
           S == Sym
<1>1. c \in Seq(S) /\ got \in Seq(S) /\ net \in Seq(S) /\ buffer \in Seq(S)
  BY DEF Progress, Line
<1>2. /\ pc = "read" /\ pc' = "lines" /\ n \in 1 .. Len(net)
      /\ buffer' = buffer \o Answer!Split(pending \o b).text
      /\ pending' = Answer!Split(pending \o b).tail
      /\ net' = SubSeq(net, n + 1, Len(net)) /\ got' = got \o b
      /\ UNCHANGED <<seen, out, result>>
  BY DEF Answer!Deliver
<1>3. x.text = c \o buffer /\ pending = Waits(x.begun) /\ Rest(c) = <<>>
  BY <1>2 DEF Progress
<1>4. b \in Seq(S) /\ net' \in Seq(S)
  <2> HIDE DEF S
  <2>1. Len(net) \in Nat /\ \A i \in 1 .. Len(net) : net[i] \in S
    BY <1>1
  <2> QED BY <1>1, <1>2, <2>1, SubSeqProperties
<1>5. x \in Decoding /\ x.text \in Seq(S) /\ x.begun \in BOOLEAN
  BY <1>1, DecodedTyped
<1>6. Waits(x.begun) \in Seq(S)
  BY <1>5, WaitsDecoded
<1> HIDE DEF S
<1>7. Waits(x.begun) \o b \in Seq(S) /\ got \o b \in Seq(S)
  BY <1>1, <1>4, <1>6
<1>8. y \in Decoding /\ y.text \in Seq(S) /\ y.begun \in BOOLEAN
  BY <1>7, DecodedTyped DEF S
<1>9. Answer!Decoded(got \o b) = [text |-> x.text \o y.text, begun |-> y.begun]
  BY <1>1, <1>4, DecodedOn DEF S
<1>10. buffer' = buffer \o y.text /\ pending' = Waits(y.begun)
  BY <1>2, <1>3 DEF Answer!Split, Waits
<1> HIDE DEF b, x, y
<1>11. (c \o buffer) \o y.text = c \o (buffer \o y.text) /\ buffer \o y.text \in Seq(S)
  <2> DEFINE t == y.text
  <2>1. c \in Seq(S) /\ buffer \in Seq(S) /\ t \in Seq(S)
    BY <1>1, <1>8
  <2> HIDE DEF t
  <2>2. \A f, g, h \in Seq(S) : (f \o g) \o h = f \o (g \o h) /\ g \o h \in Seq(S)
    OBVIOUS
  <2>3. (c \o buffer) \o t = c \o (buffer \o t) /\ buffer \o t \in Seq(S)
    BY <2>1, <2>2, Zenon
  <2> QED BY <2>3 DEF t
<1>12. Answer!Decoded(got').text = c \o buffer' /\ pending' = Waits(Answer!Decoded(got').begun)
  <2>1. got' = got \o b
    BY <1>2
  <2>2. Answer!Decoded(got') = [text |-> x.text \o y.text, begun |-> y.begun]
    BY <1>9, <2>1, Zenon
  <2>3. Answer!Decoded(got').text = x.text \o y.text /\ Answer!Decoded(got').begun = y.begun
    <3> DEFINE t == x.text \o y.text
               z == Answer!Decoded(got')
    <3>1. z = [text |-> t, begun |-> y.begun]
      BY <2>2
    <3> HIDE DEF t, z
    <3>2. z.text = t /\ z.begun = y.begun
      BY <3>1
    <3> QED BY <3>2 DEF t, z
  <2> QED BY <1>3, <1>10, <1>11, <2>3, Zenon
<1>13. Progress(c)'
  BY <1>1, <1>2, <1>3, <1>4, <1>7, <1>10, <1>11, <1>12 DEF Progress, Pcs, Line, S
<1>14. Parsed(c)'
  BY <1>2 DEF Parsed
<1> QED BY <1>13, <1>14

\* The end of the response leaves one last line.
LEMMA CloseRuns ==
  ASSUME NEW c, Progress(c), Parsed(c), Answer!Close
  PROVE  Progress(c)' /\ Parsed(c)'
<1> DEFINE x == Answer!Decoded(got)
           tail == IF x.begun THEN <<"repl">> ELSE <<>>
           S == Sym
<1>1. c \in Seq(S) /\ got \in Seq(S) /\ net \in Seq(S) /\ buffer \in Seq(S)
  BY DEF Progress, Line
<1>2. /\ pc = "read" /\ pc' = "flush"
      /\ buffer' = buffer \o Answer!Lossy(pending)
      /\ UNCHANGED <<net, got, seen, out, result>>
  BY DEF Answer!Close
<1>3. x.text = c \o buffer /\ pending = Waits(x.begun) /\ Rest(c) = <<>> /\ Unbroken(buffer)
  BY <1>2 DEF Progress
<1>4. x \in Decoding /\ x.text \in Seq(S) /\ x.begun \in BOOLEAN
  BY <1>1, DecodedTyped
<1>5. Answer!Lossy(pending) = tail
  BY <1>3, <1>4, WaitsDecoded
<1>6. Answer!Lossy(got) = x.text \o tail
  BY DEF Answer!Lossy
<1>7. "repl" \in S
  BY DEF Sym, Answer!Symbol
<1> HIDE DEF S, x
<1>8. tail \in Seq(S) /\ \A i \in DOMAIN tail : tail[i] = "repl"
  BY <1>7
<1> HIDE DEF tail
<1>9. (c \o buffer) \o tail = c \o (buffer \o tail) /\ buffer \o tail \in Seq(S)
  BY <1>1, <1>8
<1>10. Unbroken(buffer \o tail)
  <2> DEFINE w == buffer \o tail
  <2>1. \A i \in DOMAIN w : (i \in DOMAIN buffer /\ w[i] = buffer[i])
                              \/ (i - Len(buffer) \in DOMAIN tail /\ w[i] = tail[i - Len(buffer)])
    BY <1>1, <1>8
  <2> HIDE DEF w
  <2>2. \A i \in DOMAIN w : w[i] # "nl"
    BY <1>3, <1>8, <2>1 DEF Unbroken
  <2> QED BY <2>2 DEF Unbroken, w
<1>11. Answer!Lossy(got') = c \o buffer' /\ buffer' \in Seq(S) /\ Unbroken(buffer')
  BY <1>2, <1>3, <1>5, <1>6, <1>9, <1>10
<1>12. Progress(c)'
  BY <1>1, <1>2, <1>3, <1>11 DEF Progress, Pcs, Line, S
<1>13. Parsed(c)'
  BY <1>2 DEF Parsed
<1> QED BY <1>12, <1>13

\* Chunks after chunks say what they say in turn.
LEMMA PlainOver ==
  \A s, t \in Seq(Chunk) : Flat(plain, s \o t) = Flat(plain, s) \o Flat(plain, t)
BY PlainGives, FlatOver

\* A line that is put in the channel is told.
LEMMA LinePut ==
  ASSUME NEW c \in Line, NEW e \in Line, NEW line \in Line, NEW p, NEW m,
         Parsed(c), Flow(c, p, m), out = <<>>,
         Heard(e) = Heard(c) \o readLine[line],
         seen' = Answer!Dispatch(line).s, out' = Answer!Dispatch(line).o,
         chan' = chan, result' = result, pc' = pc, pc \in {"lines", "flush"}
  PROVE  Parsed(e)' /\ Flow(e, p, m)'
<1> DEFINE r == readLine[line]
           b == Began(line)
           w == Walked(dispatch, b, r)
<1>1. seen \in Parse /\ chan \in Seq(Chunk) /\ m \in Mode /\ p \in Seq(Delta)
  BY DEF Parsed, Flow
<1>2. b \in Dispatching /\ Answer!Dispatch(line) = w
  BY <1>1, DispatchWalks
<1>3. b.o = <<>> /\ b.s.thinking = seen.thinking /\ (Counts(b.s) <=> Counts(seen))
  <2>1. b.s.chunks = seen.chunks /\ b.s.reasoning = seen.reasoning /\ b.s.thinking = seen.thinking
    BY <1>1 DEF Began, Parse
  <2>2. b.o = <<>>
    BY DEF Began
  <2> HIDE DEF b
  <2> QED BY <2>1, <2>2 DEF Counts
<1>4. r \in Seq(Delta)
  BY LineTyped DEF Gives
<1> HIDE DEF r, b
<1>5. /\ w \in Dispatching
      /\ Flat(plain, w.o) = r
      /\ Walked(shift, Settled(b.s.thinking), w.o) = Settled(w.s.thinking)
      /\ Counts(w.s) => Counts(b.s) \/ Tells(r)
  BY <1>2, <1>3, <1>4, Dispatched
<1> HIDE DEF w
<1>6. seen' = w.s /\ out' = w.o /\ w.s \in Parse /\ w.o \in Seq(Chunk)
  BY <1>2, <1>5 DEF Dispatching
<1>7. Heard(c) \in Seq(Delta) /\ Heard(e) = Heard(c) \o r
  BY ToldSteps DEF r
<1>8. Tells(Heard(e)) <=> Tells(Heard(c)) \/ Tells(r)
  BY <1>4, <1>7, TellsOver
<1>9. Counts(seen') => Tells(Heard(e))
  <2>1. Counts(seen) => Tells(Heard(c))
    BY DEF Parsed
  <2> QED BY <1>3, <1>5, <1>6, <1>8, <2>1
<1>10. result' # "ok"
  BY DEF Parsed
<1>11. out' \in Seq(Chunk) /\ seen' \in Parse
  BY <1>6
<1>12. Parsed(e)'
  BY <1>9, <1>10, <1>11 DEF Parsed
<1>13. Heard(e) = p \o Flat(plain, chan' \o out')
  <2> DEFINE k == Flat(plain, chan)
  <2>1. chan \o <<>> = chan
    BY <1>1
  <2>2. Heard(c) = p \o k
    BY <2>1 DEF Flow
  <2>3. Flat(plain, chan \o w.o) = k \o r
    BY <1>1, <1>5, <1>6, PlainOver
  <2>4. k \in Seq(Delta)
    BY <1>1, PlainGives, FlatLaws DEF Gives
  <2> HIDE DEF k
  <2>5. \A f, g, h \in Seq(Delta) : (f \o g) \o h = f \o (g \o h)
    OBVIOUS
  <2>6. (p \o k) \o r = p \o (k \o r)
    BY <1>1, <1>4, <2>4, <2>5, Zenon
  <2>7. chan' \o out' = chan \o w.o
    BY <1>6
  <2> QED BY <1>7, <2>2, <2>3, <2>6, <2>7, Zenon
<1>14. Walked(shift, m, chan' \o out') = Settled(seen'.thinking)
  <2>1. chan \o <<>> = chan
    BY <1>1
  <2>2. Walked(shift, m, chan) = Settled(seen.thinking)
    BY <2>1 DEF Flow
  <2>3. Walked(shift, m, chan \o w.o) = Walked(shift, Walked(shift, m, chan), w.o)
    BY <1>1, <1>6, ShiftSteps, WalkedOver
  <2>4. Walked(shift, Settled(seen.thinking), w.o) = Settled(w.s.thinking)
    BY <1>3, <1>5
  <2>5. chan' \o out' = chan \o w.o /\ seen' = w.s
    BY <1>6
  <2> QED BY <2>2, <2>3, <2>4, <2>5, Zenon
<1>15. Flow(e, p, m)'
  BY <1>1, <1>13, <1>14 DEF Flow
<1> QED BY <1>12, <1>15

\* What a sequence has at all, it has first somewhere.
LEMMA FirstOne ==
  ASSUME NEW S, NEW s \in Seq(S), NEW v, \E i \in DOMAIN s : s[i] = v
  PROVE  LET k == CHOOSE i \in DOMAIN s : s[i] = v /\ \A j \in 1 .. i - 1 : s[j] # v
         IN k \in DOMAIN s /\ s[k] = v /\ \A j \in 1 .. k - 1 : s[j] # v
<1> DEFINE first(i) == s[i] = v /\ \A j \in 1 .. i - 1 : s[j] # v
           n == Len(s)
           T == {t \in Nat : t <= n => (\A j \in 1 .. t : s[j] # v) \/ \E i \in 1 .. t : first(i)}
<1>1. n \in Nat /\ DOMAIN s = 1 .. n
  OBVIOUS
<1> HIDE DEF n
<1>2. 0 \in T
  OBVIOUS
<1>3. ASSUME NEW t \in T PROVE t + 1 \in T
  <2>1. t \in Nat
    OBVIOUS
  <2>2. \A j \in 1 .. t + 1 : j \in 1 .. t \/ j = t + 1
    BY <2>1
  <2>3. t + 1 - 1 = t /\ t + 1 \in 1 .. t + 1 /\ \A i \in 1 .. t : i \in 1 .. t + 1
    BY <2>1
  <2>4. CASE t + 1 <= n
    <3>1. t <= n
      BY <1>1, <2>1, <2>4
    <3>2. (\A j \in 1 .. t : s[j] # v) \/ \E i \in 1 .. t : first(i)
      BY <3>1
    <3> HIDE DEF T
    <3>3. CASE \E i \in 1 .. t : first(i)
      <4>1. \E i \in 1 .. t + 1 : first(i)
        BY <2>3, <3>3, Zenon
      <4> QED BY <2>1, <4>1 DEF T
    <3>4. CASE (\A j \in 1 .. t : s[j] # v) /\ s[t + 1] = v
      <4>1. first(t + 1)
        <5>1. \A j \in 1 .. (t + 1) - 1 : j \in 1 .. t
          BY <2>1
        <5>2. \A j \in 1 .. (t + 1) - 1 : s[j] # v
          BY <3>4, <5>1, Zenon
        <5> QED BY <3>4, <5>2, Zenon
      <4>2. \E i \in 1 .. t + 1 : first(i)
        BY <2>3, <4>1, Zenon
      <4> QED BY <2>1, <4>2 DEF T
    <3>5. CASE (\A j \in 1 .. t : s[j] # v) /\ s[t + 1] # v
      <4>1. \A j \in 1 .. t + 1 : s[j] # v
        BY <2>2, <3>5
      <4> QED BY <2>1, <4>1 DEF T
    <3> QED BY <3>2, <3>3, <3>4, <3>5
  <2>5. CASE ~(t + 1 <= n)
    BY <2>1, <2>5
  <2> QED BY <2>4, <2>5
<1>4. T \in SUBSET Nat
  OBVIOUS
<1> HIDE DEF T
<1>5. T = Nat
  BY <1>2, <1>3, <1>4, SetInduction
<1>6. (\A j \in 1 .. n : s[j] # v) \/ \E i \in 1 .. n : first(i)
  <2>1. n \in T /\ n <= n
    BY <1>1, <1>5
  <2> QED BY <2>1, Zenon DEF T
<1>7. \E i \in DOMAIN s : first(i)
  BY <1>1, <1>6
<1> QED BY <1>7

\* A line that is taken was whole.
LEMMA TakeLineRuns ==
  ASSUME NEW c, NEW p, NEW m, Progress(c), Parsed(c), Flow(c, p, m),
         Answer!TakeLine, fault' = "none"
  PROVE  \E e : Progress(e)' /\ Parsed(e)' /\ Flow(e, p, m)'
<1> DEFINE S == Sym
           k == CHOOSE i \in DOMAIN buffer : buffer[i] = "nl" /\ \A j \in 1 .. i - 1 : buffer[j] # "nl"
           line == SubSeq(buffer, 1, k - 1)
           after == SubSeq(buffer, k + 1, Len(buffer))
<1>1. /\ c \in Seq(S) /\ got \in Seq(S) /\ net \in Seq(S) /\ buffer \in Seq(S)
      /\ c \in Line /\ got \in Line /\ net \in Line
  BY DEF Progress, Line
<1>2. pc = "lines" /\ out = <<>> /\ UNCHANGED <<net, got, pending, chan>>
  BY DEF Answer!TakeLine
<1>3. /\ Answer!Decoded(got).text = c \o buffer /\ pending = Waits(Answer!Decoded(got).begun)
      /\ Rest(c) = <<>>
  BY <1>2 DEF Progress
<1>4. CASE "nl" \notin Answer!ToSet(buffer)
  <2>1. pc' = "read" /\ UNCHANGED <<buffer, seen, out, result>>
    BY <1>4 DEF Answer!TakeLine
  <2>2. Unbroken(buffer)
    BY <1>4, Zenon DEF Unbroken, Answer!ToSet
  <2>3. Progress(c)'
    BY <1>1, <1>2, <1>3, <2>1, <2>2 DEF Progress, Pcs, Line
  <2>4. Parsed(c)'
    BY <1>2, <2>1 DEF Parsed
  <2>5. Flow(c, p, m)'
    BY <1>2, <2>1 DEF Flow
  <2> QED BY <2>3, <2>4, <2>5
<1>5. CASE "nl" \in Answer!ToSet(buffer)
  <2>1. /\ buffer' = after /\ pc' = pc /\ result' = result
        /\ seen' = Answer!Dispatch(line).s /\ out' = Answer!Dispatch(line).o
    BY <1>5 DEF Answer!TakeLine
  <2>2. k \in DOMAIN buffer /\ buffer[k] = "nl" /\ \A j \in 1 .. k - 1 : buffer[j] # "nl"
    <3>1. \E i \in DOMAIN buffer : buffer[i] = "nl"
      BY <1>5, Zenon DEF Answer!ToSet
    <3>2. buffer \in Seq(Sym)
      BY <1>1
    <3> QED BY <3>1, <3>2, FirstOne, Zenon
  <2> HIDE DEF k, S
  <2>3. k \in 1 .. Len(buffer) /\ Len(buffer) \in Nat /\ k - 1 \in Nat
    BY <1>1, <2>2
  <2>4. /\ line \in Seq(S) /\ Len(line) = k - 1 /\ \A j \in 1 .. k - 1 : line[j] = buffer[j]
        /\ after \in Seq(S) /\ Len(after) = Len(buffer) - k
        /\ \A j \in 1 .. Len(buffer) - k : after[j] = buffer[k + j]
    BY <1>1, <2>3
  <2>5. "nl" \in S
    BY DEF S, Sym, Answer!Symbol
  <2> HIDE DEF line, after
  <2>6. buffer = Append(line, "nl") \o after
    <3> DEFINE a == Append(line, "nl")
               w == a \o after
    <3>1. a \in Seq(S) /\ Len(a) = k /\ a[k] = "nl" /\ \A j \in 1 .. k - 1 : a[j] = line[j]
      BY <2>3, <2>4, <2>5
    <3> HIDE DEF a
    <3>2. /\ w \in Seq(S) /\ Len(w) = Len(buffer)
          /\ \A j \in 1 .. Len(buffer) : w[j] = IF j <= k THEN a[j] ELSE after[j - k]
      <4>1. w \in Seq(S) /\ Len(w) = Len(a) + Len(after)
            /\ \A j \in 1 .. Len(a) + Len(after) : w[j] = IF j <= Len(a) THEN a[j] ELSE after[j - Len(a)]
        <5>1. a \in Seq(S) /\ after \in Seq(S)
          BY <2>4, <3>1
        <5> QED BY <5>1, ConcatProperties
      <4>2. Len(a) + Len(after) = Len(buffer)
        BY <2>3, <2>4, <3>1
      <4> HIDE DEF w
      <4> QED BY <3>1, <4>1, <4>2
    <3> HIDE DEF w
    <3>3. \A j \in 1 .. Len(buffer) : j \in 1 .. k - 1 \/ j = k \/ (j > k /\ j - k \in 1 .. Len(buffer) - k /\ k + (j - k) = j)
      BY <2>3
    <3>4. ASSUME NEW j \in 1 .. Len(buffer) PROVE w[j] = buffer[j]
      <4>1. CASE j \in 1 .. k - 1
        BY <2>3, <2>4, <3>1, <3>2, <4>1
      <4>2. CASE j = k
        BY <2>2, <2>3, <3>1, <3>2, <4>2
      <4>3. CASE j > k /\ j - k \in 1 .. Len(buffer) - k /\ k + (j - k) = j
        BY <2>3, <2>4, <3>2, <4>3
      <4> QED BY <3>3, <4>1, <4>2, <4>3
    <3>5. w = buffer
      BY <1>1, <3>2, <3>4, SeqEqual
    <3> QED BY <3>5 DEF a, w
  <2> DEFINE a == c \o line
             e == Append(a, "nl")
  <2>7. a \in Line /\ e \in Line /\ line \in Line /\ Unbroken(line)
    <3>1. a \in Seq(S)
      BY <1>1, <2>4
    <3>2. e \in Seq(S)
      <4> HIDE DEF a
      <4> QED BY <2>5, <3>1
    <3>3. DOMAIN line = 1 .. k - 1
      BY <2>4
    <3>4. Unbroken(line)
      BY <2>2, <2>4, <3>3 DEF Unbroken
    <3> QED BY <2>4, <3>1, <3>2, <3>4 DEF Line, S
  <2>8. c \o buffer = e \o after
    <3>1. \A f, g, h \in Seq(S) : (f \o g) \o h = f \o (g \o h)
      OBVIOUS
    <3>2. \A f, g \in Seq(S) : f \o Append(g, "nl") = Append(f \o g, "nl")
      BY <2>5
    <3>3. Append(line, "nl") \in Seq(S)
      BY <2>4, <2>5
    <3> DEFINE l == Append(line, "nl")
    <3>6. c \in Seq(S) /\ l \in Seq(S) /\ after \in Seq(S)
      BY <1>1, <2>4, <3>3
    <3> HIDE DEF l
    <3>4. (c \o l) \o after = c \o (l \o after)
      BY <3>1, <3>6, Zenon
    <3>5. c \o Append(line, "nl") = e
      BY <1>1, <2>4, <3>2, Zenon
    <3> QED BY <2>6, <3>4, <3>5, Zenon DEF l
  <2>9. Rest(e) = <<>> /\ Heard(e) = Heard(c) \o readLine[line]
    <3>1. Told(a) = Told(c) /\ Rest(a) = line
      BY <1>1, <1>3, <2>7, LineOn
    <3>2. Told(e) = Heard(a) /\ Rest(e) = <<>>
      BY <2>7, ToldSteps
    <3> HIDE DEF a, e
    <3>3. Heard(e) = (Told(c) \o readLine[line]) \o <<>> /\ Heard(c) = Told(c) \o <<>>
      BY <1>3, <3>1, <3>2, LineTyped DEF Heard
    <3>4. Told(c) \in Seq(Delta) /\ readLine[line] \in Seq(Delta)
      BY <1>1, <2>7, ToldSteps, LineTyped DEF Gives
    <3>5. \A f, g \in Seq(Delta) : f \o <<>> = f /\ f \o g \in Seq(Delta)
      OBVIOUS
    <3> QED BY <3>2, <3>3, <3>4, <3>5, Zenon
  <2> HIDE DEF a, e
  <2>10. PICK f : f = e
    OBVIOUS
  <2>11. PICK l : l = line
    OBVIOUS
  <2>12. Parsed(f)' /\ Flow(f, p, m)'
    <3>1. f \in Line /\ l \in Line /\ Heard(f) = Heard(c) \o readLine[l]
      BY <2>7, <2>9, <2>10, <2>11
    <3>2. seen' = Answer!Dispatch(l).s /\ out' = Answer!Dispatch(l).o
      BY <2>1, <2>11
    <3> QED BY <1>1, <1>2, <2>1, <3>1, <3>2, LinePut
  <2>13. Progress(f)'
    <3>1. UNCHANGED <<got, net, pending>> /\ pc' = "lines" /\ buffer' = after
      BY <1>2, <2>1
    <3>2. after \in Line /\ got \in Line /\ net \in Line /\ f \in Line
      BY <1>1, <2>4, <2>7, <2>10 DEF Line, S
    <3>3. Answer!Decoded(got').text = f \o buffer' /\ pending' = Waits(Answer!Decoded(got').begun)
      BY <1>3, <2>8, <2>10, <3>1, Zenon
    <3>4. Rest(f) = <<>>
      BY <2>9, <2>10
    <3> QED BY <3>1, <3>2, <3>3, <3>4 DEF Progress, Pcs
  <2> QED BY <2>12, <2>13
<1> QED BY <1>4, <1>5

\* So was the last one, and the verdict knows whether anything was told.
LEMMA TakeRestRuns ==
  ASSUME NEW c, NEW p, NEW m, Progress(c), Parsed(c), Flow(c, p, m), Answer!TakeRest
  PROVE  \E e : Progress(e)' /\ Parsed(e)' /\ Flow(e, p, m)'
<1> DEFINE S == Sym
<1>1. /\ c \in Seq(S) /\ got \in Seq(S) /\ net \in Seq(S) /\ buffer \in Seq(S)
      /\ c \in Line /\ got \in Line /\ net \in Line /\ buffer \in Line
  BY DEF Progress, Line
<1>2. pc = "flush" /\ out = <<>> /\ UNCHANGED <<net, got, pending, chan>>
  BY DEF Answer!TakeRest
<1>3. Answer!Lossy(got) = c \o buffer /\ (buffer = <<>> \/ Rest(c) = <<>>) /\ Unbroken(buffer)
  BY <1>2 DEF Progress
<1>4. CASE buffer = <<>>
  <2>1. pc' = "done" /\ result' = Answer!Verdict(seen) /\ UNCHANGED <<buffer, seen, out>>
    BY <1>4 DEF Answer!TakeRest, Answer!End
  <2>2. Progress(c)'
    BY <1>1, <1>2, <1>3, <1>4, <2>1 DEF Progress, Pcs
  <2>3. result' = "ok" => Counts(seen)
    BY <2>1 DEF Answer!Verdict, Counts
  <2>4. Parsed(c)'
    BY <1>2, <2>1, <2>3 DEF Parsed
  <2>5. Flow(c, p, m)'
    BY <1>2, <2>1 DEF Flow
  <2> QED BY <2>2, <2>4, <2>5
<1>5. CASE buffer # <<>>
  <2>1. /\ buffer' = <<>> /\ pc' = pc /\ result' = result
        /\ seen' = Answer!Dispatch(buffer).s /\ out' = Answer!Dispatch(buffer).o
    BY <1>5 DEF Answer!TakeRest
  <2>2. PICK f : f = c \o buffer
    OBVIOUS
  <2>3. PICK l : l = buffer
    OBVIOUS
  <2>4. f \in Line /\ l \in Line
    BY <1>1, <2>2, <2>3 DEF Line
  <2>5. Told(f) = Told(c) /\ Rest(f) = l
    BY <1>1, <1>3, <1>5, <2>2, <2>3, LineOn
  <2>6. Heard(f) = Heard(c) \o readLine[l]
    <3>1. Heard(f) = Told(c) \o readLine[l] /\ Heard(c) = Told(c) \o <<>>
      BY <1>3, <1>5, <2>5, LineTyped DEF Heard
    <3>2. Told(c) \in Seq(Delta)
      BY <1>1, ToldSteps
    <3>3. \A x \in Seq(Delta) : x \o <<>> = x
      OBVIOUS
    <3> QED BY <3>1, <3>2, <3>3, Zenon
  <2>7. Parsed(f)' /\ Flow(f, p, m)'
    <3>1. seen' = Answer!Dispatch(l).s /\ out' = Answer!Dispatch(l).o
      BY <2>1, <2>3
    <3> QED BY <1>1, <1>2, <2>1, <2>4, <2>6, <3>1, LinePut
  <2>8. Progress(f)'
    <3>1. f \o <<>> = f
      BY <2>4 DEF Line
    <3>2. UNCHANGED <<got, net>> /\ pc' = "flush" /\ buffer' = <<>> /\ <<>> \in Line
      BY <1>2, <2>1 DEF Line
    <3>3. Answer!Lossy(got') = f \o buffer'
      BY <1>3, <2>2, <3>1, <3>2
    <3>4. Unbroken(buffer')
      BY <3>2 DEF Unbroken
    <3> QED BY <1>1, <2>4, <3>2, <3>3, <3>4 DEF Progress, Pcs
  <2> QED BY <2>7, <2>8
<1> QED BY <1>4, <1>5

\* A chunk that is sent is received after all before it.
LEMMA SendRuns ==
  ASSUME NEW c, NEW p, NEW m, Progress(c), Parsed(c), Flow(c, p, m), Answer!Send
  PROVE  Progress(c)' /\ Parsed(c)' /\ Flow(c, p, m)'
<1> DEFINE S == Chunk
<1>1. /\ out # <<>> /\ chan' = Append(chan, Head(out)) /\ out' = Tail(out)
      /\ UNCHANGED <<net, got, pc, pending, buffer, seen, result>>
  BY DEF Answer!Send
<1>2. out \in Seq(S) /\ chan \in Seq(S)
  BY DEF Parsed, Flow
<1> HIDE DEF S
<1>3. out' \in Seq(S) /\ chan' \in Seq(S) /\ chan' \o out' = chan \o out
  <2> DEFINE h == Head(out)
             t == Tail(out)
  <2>1. h \in S /\ t \in Seq(S) /\ out = <<h>> \o t
    BY <1>1, <1>2
  <2> HIDE DEF h, t
  <2>2. Append(chan, h) = chan \o <<h>> /\ <<h>> \in Seq(S) /\ Append(chan, h) \in Seq(S)
    BY <1>2, <2>1
  <2>3. \A x, y, z \in Seq(S) : (x \o y) \o z = x \o (y \o z)
    OBVIOUS
  <2>4. (chan \o <<h>>) \o t = chan \o (<<h>> \o t)
    BY <1>2, <2>1, <2>2, <2>3, Zenon
  <2>5. chan' = chan \o <<h>> /\ out' = t
    BY <1>1, <2>2 DEF h, t
  <2>6. chan' \o out' = chan \o out
    BY <2>1, <2>4, <2>5, Zenon
  <2> QED BY <1>1, <2>1, <2>2, <2>5, <2>6 DEF h
<1>4. pc \notin {"connect", "read", "done"}
  BY <1>1 DEF Parsed
<1>5. Progress(c)'
  BY <1>1 DEF Progress
<1>6. Parsed(c)'
  BY <1>1, <1>3, <1>4 DEF Parsed, S
<1>7. Flow(c, p, m)'
  BY <1>1, <1>3 DEF Flow, S
<1> QED BY <1>5, <1>6, <1>7

-----------------------------------------------------------------------------
(* What the agent task has laid out of what it has received.               *)
Speech == {"text", "reason"} \X Sym
Block == [kind : {"text", "reason"}, body : Seq(Sym)]
bodyOf == [b \in Block |-> [j \in DOMAIN b.body |-> <<b.kind, b.body[j]>>]]
spoken == [d \in Delta |-> IF d[1] \in {"text", "reason"} THEN <<d>> ELSE <<>>]

\* A block has the pieces of its body, a delta itself if it is spoken.
LEMMA SpeechGiven ==
  /\ Gives(Block, Speech, bodyOf) /\ Gives(Delta, Speech, spoken)
  /\ \A b \in Block : bodyOf[b] = [j \in DOMAIN b.body |-> <<b.kind, b.body[j]>>]
  /\ \A d \in Delta : spoken[d] = IF d[1] \in {"text", "reason"} THEN <<d>> ELSE <<>>
  /\ \A d \in Delta : d[1] \in {"text", "reason"} => d \in Speech /\ d = <<d[1], d[2]>> /\ d[2] \in Sym
<1>1. ASSUME NEW d \in Delta, d[1] \in {"text", "reason"} PROVE d \in Speech
  <2>1. <<"call", 1, "id1", <<"{">>>>[1] = "call" /\ <<"call", 1, "", <<"}">>>>[1] = "call"
        /\ <<"call", 2, "id2", <<>>>>[1] = "call" /\ <<"usage">>[1] = "usage"
    OBVIOUS
  <2>2. d # <<"call", 1, "id1", <<"{">>>> /\ d # <<"call", 1, "", <<"}">>>>
        /\ d # <<"call", 2, "id2", <<>>>> /\ d # <<"usage">>
    BY <1>1, <2>1
  <2> QED BY <2>2, Zenon DEF Delta, Speech
<1>2. \A d \in Speech : d = <<d[1], d[2]>> /\ d[2] \in Sym
  BY DEF Speech
<1>3. \A b \in Block : bodyOf[b] = [j \in DOMAIN b.body |-> <<b.kind, b.body[j]>>]
  BY DEF bodyOf
<1>4. \A d \in Delta : spoken[d] = IF d[1] \in {"text", "reason"} THEN <<d>> ELSE <<>>
  BY DEF spoken
<1>5. ASSUME NEW b \in Block PROVE bodyOf[b] \in Seq(Speech)
  <2>1. b.kind \in {"text", "reason"} /\ b.body \in Seq(Sym)
    BY DEF Block
  <2> DEFINE w == b.body
             v == [j \in DOMAIN w |-> <<b.kind, w[j]>>]
  <2>2. \A j \in DOMAIN w : <<b.kind, w[j]>> \in Speech
    BY <2>1 DEF Speech
  <2>3. DOMAIN w = 1 .. Len(w) /\ Len(w) \in Nat
    BY <2>1
  <2> HIDE DEF w
  <2>4. v \in [1 .. Len(w) -> Speech]
    BY <2>2, <2>3
  <2>5. v \in Seq(Speech)
    BY <2>3, <2>4
  <2> QED BY <1>3, <2>5 DEF w
<1>6. ASSUME NEW d \in Delta PROVE spoken[d] \in Seq(Speech)
  <2> DEFINE S == Speech
  <2>1. \A x \in S : <<x>> \in Seq(S)
    OBVIOUS
  <2>2. <<>> \in Seq(S)
    OBVIOUS
  <2> HIDE DEF S
  <2>3. spoken[d] \in Seq(S)
    BY <1>1, <1>4, <2>1, <2>2 DEF S
  <2> QED BY <2>3 DEF S
<1>7. bodyOf \in [Block -> Seq(Speech)]
  BY <1>5 DEF bodyOf
<1>8. spoken \in [Delta -> Seq(Speech)]
  BY <1>6 DEF spoken
<1> QED BY <1>1, <1>2, <1>3, <1>4, <1>7, <1>8, Zenon DEF Gives

\* The pieces of blocks and of deltas, and of one more.
LEMMA SpeechFlat ==
  /\ Flat(bodyOf, <<>>) = <<>> /\ Flat(spoken, <<>>) = <<>>
  /\ \A s \in Seq(Block) : Flat(bodyOf, s) \in Seq(Speech)
  /\ \A s \in Seq(Block) : \A e \in Block : Flat(bodyOf, Append(s, e)) = Flat(bodyOf, s) \o bodyOf[e]
  /\ \A s \in Seq(Delta) : Flat(spoken, s) \in Seq(Speech)
  /\ \A s \in Seq(Delta) : \A d \in Delta : Flat(spoken, Append(s, d)) = Flat(spoken, s) \o spoken[d]
BY SpeechGiven, FlatLaws DEF Gives

\* The last block grows by one piece.
Grown(bs, x) == [bs EXCEPT ![Len(bs)].body = Append(@, x)]

\* It says one piece more.
LEMMA GrownLaws ==
  ASSUME NEW bs \in Seq(Block), bs # <<>>, NEW x \in Sym
  PROVE  LET n == Len(bs)
             g == Grown(bs, x)
         IN /\ g \in Seq(Block) /\ Len(g) = n /\ \A i \in 1 .. n - 1 : g[i] = bs[i]
            /\ g[n].kind = bs[n].kind /\ g[n].body # <<>>
            /\ Flat(bodyOf, g) = Flat(bodyOf, bs) \o <<<<bs[n].kind, x>>>>
<1> DEFINE n == Len(bs)
           g == Grown(bs, x)
           b == bs[n]
           a == [kind |-> b.kind, body |-> Append(b.body, x)]
           front == SubSeq(bs, 1, n - 1)
           B == Block
<1>1. n \in Nat /\ n # 0 /\ n \in 1 .. n /\ DOMAIN bs = 1 .. n /\ b \in Block
  OBVIOUS
<1>2. b.kind \in {"text", "reason"} /\ b.body \in Seq(Sym) /\ b = [kind |-> b.kind, body |-> b.body]
  BY <1>1 DEF Block
<1>3. Append(b.body, x) \in Seq(Sym) /\ Append(b.body, x) # <<>>
  BY <1>2
<1>4. a \in Block
  BY <1>2, <1>3 DEF Block
<1>5. [b EXCEPT !.body = Append(b.body, x)] = a
  <2> DEFINE k == b.kind
             w == b.body
             v == Append(w, x)
  <2>1. b = [kind |-> k, body |-> w]
    BY <1>2
  <2> HIDE DEF b, k, w, v
  <2>2. [b EXCEPT !.body = v] = [kind |-> k, body |-> v]
    BY <2>1
  <2> QED BY <2>2 DEF k, w, v
<1>6. g = [bs EXCEPT ![n] = a]
  <2>1. g = [bs EXCEPT ![n] = [bs[n] EXCEPT !.body = Append(bs[n].body, x)]]
    BY DEF Grown
  <2> QED BY <1>5, <2>1
<1> HIDE DEF a, b, n, B, g
<1>7. g \in Seq(B) /\ Len(g) = n /\ g[n] = a /\ \A i \in 1 .. n - 1 : g[i] = bs[i]
  <2>1. bs \in Seq(B) /\ a \in B /\ Len(bs) = n
    BY <1>4 DEF B, n
  <2>2. g \in Seq(B) /\ Len(g) = n /\ \A i \in 1 .. n : g[i] = IF i = n THEN a ELSE bs[i]
    BY <1>1, <1>6, <2>1
  <2> QED BY <1>1, <2>2
<1>8. front \in Seq(B) /\ Len(front) = n - 1 /\ \A i \in 1 .. n - 1 : front[i] = bs[i]
  <2>1. bs \in Seq(B) /\ Len(bs) = n
    BY DEF B, n
  <2> QED BY <1>1, <2>1
<1> HIDE DEF front
<1>9. bs = Append(front, b)
  <2>1. Append(front, b) \in Seq(B) /\ Len(Append(front, b)) = n
        /\ \A i \in 1 .. n : Append(front, b)[i] = bs[i]
    <3>1. \A i \in 1 .. n : i \in 1 .. n - 1 \/ i = n
      BY <1>1
    <3>2. b = bs[n] /\ b \in B
      BY <1>1 DEF b, B
    <3>3. /\ Append(front, b) \in Seq(B) /\ Len(Append(front, b)) = n /\ Append(front, b)[n] = b
          /\ \A i \in 1 .. n - 1 : Append(front, b)[i] = front[i]
      BY <1>1, <1>8, <3>2
    <3> QED BY <1>8, <3>1, <3>2, <3>3
  <2>2. bs \in Seq(B) /\ Len(bs) = n
    BY DEF B, n
  <2> QED BY <2>1, <2>2, SeqEqual
<1>10. g = Append(front, a)
  <2>1. Append(front, a) \in Seq(B) /\ Len(Append(front, a)) = n
        /\ \A i \in 1 .. n : Append(front, a)[i] = g[i]
    <3>1. \A i \in 1 .. n : i \in 1 .. n - 1 \/ i = n
      BY <1>1
    <3>2. a \in B
      BY <1>4 DEF B
    <3>3. /\ Append(front, a) \in Seq(B) /\ Len(Append(front, a)) = n /\ Append(front, a)[n] = a
          /\ \A i \in 1 .. n - 1 : Append(front, a)[i] = front[i]
      BY <1>1, <1>8, <3>2
    <3> QED BY <1>7, <1>8, <3>1, <3>3
  <2> QED BY <1>7, <2>1, SeqEqual
<1>11. bodyOf[a] = bodyOf[b] \o <<<<b.kind, x>>>>
  <2> DEFINE w == b.body
             k == b.kind
             v == Append(w, x)
             u == [j \in DOMAIN w |-> <<k, w[j]>>]
             S == Speech
             e == <<k, x>>
  <2>1. bodyOf[b] = u
    BY <1>1, SpeechGiven
  <2>2. bodyOf[a] = [j \in DOMAIN v |-> <<k, v[j]>>]
    <3>1. a.body = v /\ a.kind = k
      BY DEF a
    <3> QED BY <1>4, <3>1, SpeechGiven
  <2>3. w \in Seq(Sym) /\ Len(w) \in Nat /\ DOMAIN w = 1 .. Len(w)
    BY <1>2
  <2>4. u \in Seq(S) /\ Len(u) = Len(w)
    <3>1. bodyOf[b] \in Seq(Speech)
      BY <1>1, SpeechGiven DEF Gives
    <3>2. DOMAIN u = 1 .. Len(w)
      BY <2>3
    <3>3. u \in Seq(S)
      BY <2>1, <3>1
    <3> HIDE DEF u, S
    <3> QED BY <2>3, <3>2, <3>3
  <2>5. e \in S
    BY <1>2 DEF Speech
  <2>6. DOMAIN v = 1 .. Len(w) + 1 /\ v[Len(w) + 1] = x /\ \A j \in 1 .. Len(w) : v[j] = w[j]
    <3> HIDE DEF w
    <3> QED BY <2>3
  <2> HIDE DEF w, v, k, S
  <2>7. [j \in DOMAIN v |-> <<k, v[j]>>] = [j \in 1 .. Len(w) + 1 |-> IF j = Len(w) + 1 THEN e ELSE u[j]]
    <3>1. \A j \in 1 .. Len(w) + 1 : <<k, v[j]>> = IF j = Len(w) + 1 THEN e ELSE u[j]
      <4>1. \A j \in 1 .. Len(w) + 1 : j = Len(w) + 1 \/ (j # Len(w) + 1 /\ j \in 1 .. Len(w))
        BY <2>3
      <4>2. \A j \in 1 .. Len(w) : u[j] = <<k, v[j]>>
        BY <2>3, <2>6
      <4> HIDE DEF u
      <4> QED BY <2>6, <4>1, <4>2
    <3> HIDE DEF u, e
    <3> QED BY <2>6, <3>1
  <2> HIDE DEF u, e
  <2>8. u \o <<e>> = [j \in 1 .. Len(w) + 1 |-> IF j = Len(w) + 1 THEN e ELSE u[j]]
    <3>1. u \o <<e>> = Append(u, e)
      BY <2>4, <2>5, AppendIsConcat
    <3>2. Append(u, e) = [j \in 1 .. Len(u) + 1 |-> IF j = Len(u) + 1 THEN e ELSE u[j]]
      <4> DEFINE h == Append(u, e)
      <4>1. Len(u) \in Nat /\ h \in Seq(S) /\ Len(h) = Len(u) + 1
            /\ h[Len(u) + 1] = e /\ \A j \in 1 .. Len(u) : h[j] = u[j]
        BY <2>4, <2>5
      <4> HIDE DEF h
      <4>2. \A j \in 1 .. Len(u) + 1 : j = Len(u) + 1 \/ (j # Len(u) + 1 /\ j \in 1 .. Len(u))
        BY <4>1
      <4>3. \A j \in 1 .. Len(u) + 1 : h[j] = IF j = Len(u) + 1 THEN e ELSE u[j]
        BY <4>1, <4>2
      <4>4. h = [j \in 1 .. Len(u) + 1 |-> h[j]]
        BY <4>1
      <4>5. h = [j \in 1 .. Len(u) + 1 |-> IF j = Len(u) + 1 THEN e ELSE u[j]]
        BY <4>3, <4>4
      <4> QED BY <4>5 DEF h
    <3> QED BY <2>4, <3>1, <3>2
  <2> QED BY <2>1, <2>2, <2>7, <2>8 DEF e, k
<1>12. Flat(bodyOf, g) = Flat(bodyOf, bs) \o <<<<b.kind, x>>>>
  <2>1. \A s \in Seq(Block) : \A e \in Block : Flat(bodyOf, Append(s, e)) = Flat(bodyOf, s) \o bodyOf[e]
    BY SpeechFlat
  <2>2. \A s \in Seq(Block) : Flat(bodyOf, s) \in Seq(Speech)
    BY SpeechFlat
  <2>3. front \in Seq(Block)
    BY <1>8 DEF B
  <2>4. Flat(bodyOf, front) \in Seq(Speech)
    BY <2>2, <2>3
  <2>5. Flat(bodyOf, bs) = Flat(bodyOf, front) \o bodyOf[b]
    BY <1>1, <1>9, <2>1, <2>3
  <2>6. Flat(bodyOf, g) = Flat(bodyOf, front) \o bodyOf[a]
    BY <1>4, <1>10, <2>1, <2>3
  <2>7. bodyOf[b] \in Seq(Speech)
    BY <1>1, SpeechGiven DEF Gives
  <2>8. <<b.kind, x>> \in Speech
    BY <1>2 DEF Speech
  <2> DEFINE S == Speech
             f == Flat(bodyOf, front)
             t == bodyOf[b]
             e == <<b.kind, x>>
  <2>9. f \in Seq(S) /\ t \in Seq(S) /\ e \in S
    BY <2>4, <2>7, <2>8
  <2> HIDE DEF S, f, t, e
  <2>10. <<e>> \in Seq(S)
    BY <2>9
  <2>11. \A q, r, s \in Seq(S) : (q \o r) \o s = q \o (r \o s)
    OBVIOUS
  <2>12. (f \o t) \o <<e>> = f \o (t \o <<e>>)
    BY <2>9, <2>10, <2>11, Zenon
  <2> QED BY <1>11, <2>5, <2>6, <2>12 DEF f, t, e
<1>13. g[n].kind = b.kind /\ g[n].body # <<>>
  BY <1>3, <1>7 DEF a
<1> QED BY <1>7, <1>12, <1>13 DEF B, g, n, b

LastKind(bs) == IF bs = <<>> THEN "none" ELSE bs[Len(bs)].kind
Alternate(bs) == \A i \in 1 .. Len(bs) - 1 : bs[i].kind # bs[i + 1].kind
Filled(bs, m) == \A i \in 1 .. Len(bs) : bs[i].body = <<>> => i = Len(bs) /\ m = "opened"

\* The blocks bs, with the flag on, are what p says when the mode is m.
LaidIn(bs, on, p, m) ==
  /\ bs \in Seq(Block) /\ on \in BOOLEAN
  /\ Flat(bodyOf, bs) = Flat(spoken, p)
  /\ Alternate(bs) /\ Filled(bs, m)
  /\ on <=> m \in {"opened", "on"}
  /\ LastKind(bs) = "reason" <=> m \in {"opened", "on", "closed"}

\* One delta more is spoken if it is text or reasoning.
LEMMA SpokenMore ==
  ASSUME NEW p \in Seq(Delta), NEW d \in Delta
  PROVE  /\ p \o plain[d] = Append(p, d)
         /\ Flat(spoken, Append(p, d))
              = Flat(spoken, p) \o (IF d[1] \in {"text", "reason"} THEN <<d>> ELSE <<>>)
<1>1. plain[d] = <<d>>
  BY PlainGives
<1>2. p \o <<d>> = Append(p, d)
  BY AppendIsConcat
<1>3. Flat(spoken, Append(p, d)) = Flat(spoken, p) \o spoken[d]
  BY SpeechFlat
<1> QED BY <1>1, <1>2, <1>3, SpeechGiven

\* A piece goes to the last block of its kind.
LEMMA LaidGrow ==
  ASSUME NEW bs, NEW on, NEW p \in Seq(Delta), NEW m \in Mode, LaidIn(bs, on, p, m),
         NEW d \in Delta, d[1] \in {"text", "reason"}, bs # <<>>, LastKind(bs) = d[1],
         Shift(m, d) # "bad"
  PROVE  LaidIn(Grown(bs, d[2]), on, Append(p, d), Shift(m, d))
<1> DEFINE n == Len(bs)
           g == Grown(bs, d[2])
           k == Shift(m, d)
<1>1. bs \in Seq(Block) /\ on \in BOOLEAN /\ d[2] \in Sym /\ d = <<d[1], d[2]>>
  BY SpeechGiven DEF LaidIn
<1>2. n \in Nat /\ n # 0
  BY <1>1
<1>3. /\ g \in Seq(Block) /\ Len(g) = n /\ \A i \in 1 .. n - 1 : g[i] = bs[i]
      /\ g[n].kind = bs[n].kind /\ g[n].body # <<>>
      /\ Flat(bodyOf, g) = Flat(bodyOf, bs) \o <<<<bs[n].kind, d[2]>>>>
  BY <1>1, GrownLaws
<1>4. bs[n].kind = d[1]
  BY DEF LastKind
<1> HIDE DEF g
<1>5. Flat(bodyOf, g) = Flat(spoken, Append(p, d))
  <2>1. Flat(bodyOf, bs) = Flat(spoken, p)
    BY DEF LaidIn
  <2>2. Flat(spoken, Append(p, d)) = Flat(spoken, p) \o <<d>>
    BY SpokenMore
  <2>3. <<bs[n].kind, d[2]>> = d
    BY <1>1, <1>4
  <2> QED BY <1>3, <2>1, <2>2, <2>3
<1> HIDE DEF n
<1>6. Alternate(g)
  <2>1. \A i \in 1 .. n - 1 : bs[i].kind # bs[i + 1].kind
    BY DEF LaidIn, Alternate, n
  <2>2. \A i \in 1 .. n : g[i].kind = bs[i].kind
    <3>1. \A i \in 1 .. n : i \in 1 .. n - 1 \/ i = n
      BY <1>2
    <3> QED BY <1>3, <3>1
  <2>3. \A i \in 1 .. n - 1 : i \in 1 .. n /\ i + 1 \in 1 .. n
    BY <1>2
  <2>4. \A i \in 1 .. n - 1 : g[i].kind # g[i + 1].kind
    BY <2>1, <2>2, <2>3
  <2> QED BY <1>3, <2>4 DEF Alternate
<1>7. Filled(g, k)
  <2>1. \A i \in 1 .. n : i \in 1 .. n - 1 \/ i = n
    BY <1>2
  <2>2. \A i \in 1 .. n - 1 : i \in 1 .. n /\ i # n
    BY <1>2
  <2>3. \A i \in 1 .. n - 1 : bs[i].body # <<>>
    BY <2>2 DEF LaidIn, Filled, n
  <2>4. \A i \in 1 .. n : g[i].body # <<>>
    BY <1>3, <2>1, <2>3
  <2> QED BY <1>3, <2>4 DEF Filled
<1>8. LastKind(g) = d[1]
  <2>1. g # <<>>
    BY <1>2, <1>3
  <2> QED BY <1>3, <1>4, <2>1 DEF LastKind
<1>9. /\ on <=> k \in {"opened", "on"}
      /\ LastKind(g) = "reason" <=> k \in {"opened", "on", "closed"}
  <2>1. /\ on <=> m \in {"opened", "on"}
        /\ LastKind(bs) = "reason" <=> m \in {"opened", "on", "closed"}
    BY DEF LaidIn
  <2>2. CASE d[1] = "reason"
    <3>1. k = "on" /\ m \in {"opened", "on"}
      BY <2>2 DEF Shift
    <3> QED BY <1>8, <2>1, <2>2, <3>1
  <2>3. CASE d[1] = "text"
    <3>1. k = "off" /\ m \in {"closed", "off"}
      BY <2>3 DEF Shift
    <3> QED BY <1>8, <2>1, <2>3, <3>1
  <2> QED BY <2>2, <2>3
<1> QED BY <1>1, <1>3, <1>5, <1>6, <1>7, <1>9 DEF LaidIn, g

\* One more block.
LEMMA BlockAdded ==
  ASSUME NEW bs \in Seq(Block), NEW b \in Block
  PROVE  LET w == Append(bs, b)
             n == Len(bs)
         IN /\ w \in Seq(Block) /\ n \in Nat /\ Len(w) = n + 1 /\ w[n + 1] = b
            /\ \A i \in 1 .. n : w[i] = bs[i]
            /\ LastKind(w) = b.kind
            /\ Alternate(bs) /\ LastKind(bs) # b.kind => Alternate(w)
            /\ Flat(bodyOf, w) = Flat(bodyOf, bs) \o bodyOf[b]
<1> DEFINE w == Append(bs, b)
           n == Len(bs)
<1>1. w \in Seq(Block) /\ n \in Nat /\ Len(w) = n + 1 /\ w[n + 1] = b /\ \A i \in 1 .. n : w[i] = bs[i]
  <2> DEFINE B == Block
  <2>1. bs \in Seq(B) /\ b \in B
    OBVIOUS
  <2> HIDE DEF B
  <2>2. w \in Seq(B) /\ n \in Nat /\ Len(w) = n + 1 /\ w[n + 1] = b /\ \A i \in 1 .. n : w[i] = bs[i]
    BY <2>1
  <2> QED BY <2>2 DEF B
<1>2. Flat(bodyOf, w) = Flat(bodyOf, bs) \o bodyOf[b]
  BY SpeechFlat
<1>5. n = 0 => bs = <<>>
  OBVIOUS
<1>6. bs # <<>> => LastKind(bs) = bs[n].kind
  BY DEF LastKind
<1>7. Alternate(bs) => \A i \in 1 .. n - 1 : bs[i].kind # bs[i + 1].kind
  BY DEF Alternate
<1> HIDE DEF w, n
<1>3. LastKind(w) = b.kind
  <2>1. w # <<>>
    BY <1>1
  <2> QED BY <1>1, <2>1 DEF LastKind
<1>4. ASSUME Alternate(bs), LastKind(bs) # b.kind PROVE Alternate(w)
  <2>1. \A i \in 1 .. (n + 1) - 1 : (i \in 1 .. n - 1 /\ i \in 1 .. n /\ i + 1 \in 1 .. n) \/ (i = n /\ n \in 1 .. n /\ n # 0)
    BY <1>1
  <2>2. ASSUME NEW i \in 1 .. (n + 1) - 1 PROVE w[i].kind # w[i + 1].kind
    <3>1. CASE i \in 1 .. n - 1 /\ i \in 1 .. n /\ i + 1 \in 1 .. n
      BY <1>1, <1>4, <1>7, <3>1
    <3>2. CASE i = n /\ n \in 1 .. n /\ n # 0
      <4>1. bs # <<>>
        BY <3>2 DEF n
      <4> QED BY <1>1, <1>4, <1>6, <3>2, <4>1
    <3> QED BY <2>1, <3>1, <3>2
  <2> QED BY <1>1, <2>2 DEF Alternate
<1> QED BY <1>1, <1>2, <1>3, <1>4 DEF w, n

\* Text opens a block behind one of another kind.
LEMMA LaidText ==
  ASSUME NEW bs, NEW on, NEW p \in Seq(Delta), NEW m \in Mode, LaidIn(bs, on, p, m),
         NEW d \in Delta, d[1] = "text", LastKind(bs) # "text", Shift(m, d) # "bad"
  PROVE  LaidIn(Append(bs, [kind |-> "text", body |-> <<d[2]>>]), on, Append(p, d), Shift(m, d))
<1> DEFINE b == [kind |-> "text", body |-> <<d[2]>>]
           n == Len(bs)
           k == Shift(m, d)
           w == Append(bs, b)
<1>1. bs \in Seq(Block) /\ on \in BOOLEAN /\ d[2] \in Sym /\ d = <<d[1], d[2]>>
  BY SpeechGiven DEF LaidIn
<1>2. b \in Block /\ b.kind = "text" /\ b.body = <<d[2]>> /\ b.body # <<>>
  <2>1. <<d[2]>> \in Seq(Sym)
    BY <1>1
  <2> QED BY <2>1 DEF Block
<1>3. bodyOf[b] = <<d>>
  <2>1. bodyOf[b] = [j \in DOMAIN b.body |-> <<b.kind, b.body[j]>>]
    BY <1>2, SpeechGiven
  <2>2. DOMAIN <<d[2]>> = {1} /\ <<d[2]>>[1] = d[2]
    OBVIOUS
  <2>3. bodyOf[b] = [j \in {1} |-> <<"text", d[2]>>]
    BY <1>2, <2>1, <2>2
  <2>4. <<"text", d[2]>> = d
    BY <1>1
  <2>5. \A x : [j \in {1} |-> x] = <<x>>
    OBVIOUS
  <2> QED BY <2>3, <2>4, <2>5
<1>4. k = "off" /\ m \in {"closed", "off"}
  BY DEF Shift
<1> HIDE DEF b
<1>5. /\ w \in Seq(Block) /\ n \in Nat /\ Len(w) = n + 1 /\ w[n + 1] = b
      /\ \A i \in 1 .. n : w[i] = bs[i]
      /\ LastKind(w) = b.kind
      /\ Alternate(bs) /\ LastKind(bs) # b.kind => Alternate(w)
      /\ Flat(bodyOf, w) = Flat(bodyOf, bs) \o bodyOf[b]
  BY <1>1, <1>2, BlockAdded
<1> HIDE DEF w
<1>6. Alternate(w)
  BY <1>2, <1>5 DEF LaidIn
<1>7. Filled(w, k)
  <2>1. \A i \in 1 .. n : bs[i].body # <<>>
    BY <1>4 DEF LaidIn, Filled
  <2> HIDE DEF n
  <2>2. \A i \in 1 .. n + 1 : i \in 1 .. n \/ i = n + 1
    BY <1>5
  <2>3. \A i \in 1 .. n + 1 : w[i].body # <<>>
    BY <1>2, <1>5, <2>1, <2>2
  <2> QED BY <1>5, <2>3 DEF Filled
<1>8. Flat(bodyOf, w) = Flat(spoken, Append(p, d))
  <2>1. Flat(bodyOf, bs) = Flat(spoken, p)
    BY DEF LaidIn
  <2>2. Flat(spoken, Append(p, d)) = Flat(spoken, p) \o <<d>>
    BY SpokenMore
  <2> QED BY <1>3, <1>5, <2>1, <2>2
<1>9. /\ on <=> k \in {"opened", "on"}
      /\ LastKind(w) = "reason" <=> k \in {"opened", "on", "closed"}
  <2>1. on <=> m \in {"opened", "on"}
    BY DEF LaidIn
  <2> QED BY <1>2, <1>4, <1>5, <2>1
<1> QED BY <1>1, <1>5, <1>6, <1>7, <1>8, <1>9 DEF LaidIn, w, b

\* Reasoning opens an empty one, to be filled at once.
LEMMA LaidOpen ==
  ASSUME NEW bs, NEW on, NEW p \in Seq(Delta), NEW m \in Mode, LaidIn(bs, on, p, m), m = "off"
  PROVE  ~on /\ LaidIn(Append(bs, [kind |-> "reason", body |-> <<>>]), TRUE, p, "opened")
<1> DEFINE b == [kind |-> "reason", body |-> <<>>]
           n == Len(bs)
           w == Append(bs, b)
<1>1. bs \in Seq(Block) /\ ~on /\ LastKind(bs) # "reason"
  BY DEF LaidIn
<1>2. b \in Block /\ b.kind = "reason"
  BY DEF Block
<1>3. bodyOf[b] = <<>>
  <2>1. bodyOf[b] = [j \in DOMAIN b.body |-> <<b.kind, b.body[j]>>]
    BY <1>2, SpeechGiven
  <2>2. b.body = <<>> /\ DOMAIN <<>> = {}
    OBVIOUS
  <2>3. bodyOf[b] = [j \in {} |-> <<b.kind, b.body[j]>>]
    BY <2>1, <2>2
  <2> QED BY <2>3
<1> HIDE DEF b
<1>4. /\ w \in Seq(Block) /\ n \in Nat /\ Len(w) = n + 1 /\ w[n + 1] = b
      /\ \A i \in 1 .. n : w[i] = bs[i]
      /\ LastKind(w) = b.kind
      /\ Alternate(bs) /\ LastKind(bs) # b.kind => Alternate(w)
      /\ Flat(bodyOf, w) = Flat(bodyOf, bs) \o bodyOf[b]
  BY <1>1, <1>2, BlockAdded
<1> HIDE DEF w
<1>5. Alternate(w)
  BY <1>1, <1>2, <1>4 DEF LaidIn
<1>6. Filled(w, "opened")
  <2>1. \A i \in 1 .. n : bs[i].body # <<>>
    BY DEF LaidIn, Filled
  <2> HIDE DEF n
  <2>2. \A i \in 1 .. n + 1 : i \in 1 .. n \/ i = n + 1
    BY <1>4
  <2>3. \A i \in 1 .. n + 1 : w[i].body = <<>> => i = n + 1
    BY <1>4, <2>1, <2>2
  <2> QED BY <1>4, <2>3 DEF Filled
<1>7. Flat(bodyOf, w) = Flat(spoken, p)
  <2>1. Flat(bodyOf, bs) = Flat(spoken, p)
    BY DEF LaidIn
  <2>2. Flat(spoken, p) \in Seq(Speech)
    BY SpeechFlat
  <2>3. \A x \in Seq(Speech) : x \o <<>> = x
    OBVIOUS
  <2> QED BY <1>3, <1>4, <2>1, <2>2, <2>3
<1>8. LastKind(w) = "reason"
  BY <1>2, <1>4
<1> QED BY <1>1, <1>4, <1>5, <1>6, <1>7, <1>8 DEF LaidIn, w, b

\* Where it ends no block changes.
LEMMA LaidClose ==
  ASSUME NEW bs, NEW on, NEW p \in Seq(Delta), LaidIn(bs, on, p, "on")
  PROVE  LaidIn(bs, FALSE, p, "closed")
<1>1. Filled(bs, "closed")
  BY DEF LaidIn, Filled
<1> QED BY <1>1 DEF LaidIn

\* Nor does one for a call or for the usage.
LEMMA LaidOther ==
  ASSUME NEW bs, NEW on, NEW p \in Seq(Delta), NEW m \in Mode, LaidIn(bs, on, p, m),
         NEW d \in Delta, d[1] \notin {"text", "reason"}
  PROVE  LaidIn(bs, on, Append(p, d), m)
<1>1. Flat(spoken, Append(p, d)) = Flat(spoken, p) \o <<>>
  BY SpokenMore
<1>2. Flat(spoken, p) \in Seq(Speech)
  BY SpeechFlat
<1>3. \A x \in Seq(Speech) : x \o <<>> = x
  OBVIOUS
<1>4. Flat(spoken, Append(p, d)) = Flat(spoken, p)
  BY <1>1, <1>2, <1>3, Zenon
<1> QED BY <1>4 DEF LaidIn

\* A chunk that is received is laid where it belongs.
LEMMA ReceiveLays ==
  ASSUME NEW p \in Seq(Delta), NEW m \in Mode, LaidIn(blocks, thinking, p, m),
         NEW d \in Chunk, d = Head(chan), Shift(m, d) # "bad", Answer!Receive,
         NEW q, q = p \o plain[d]
  PROVE  LaidIn(blocks', thinking', q, Shift(m, d))
<1>1. d \in Delta => q = Append(p, d)
  BY SpokenMore
<1>2. \A s : Answer!Last(s) = s[Len(s)]
  BY DEF Answer!Last
<1> DEFINE Grow == [blocks EXCEPT ![Len(blocks)].body = Append(@, d[2])]
           lastKind == IF blocks = <<>> THEN "none" ELSE Answer!Last(blocks).kind
<1>3. Grow = Grown(blocks, d[2]) /\ lastKind = LastKind(blocks)
  BY <1>2 DEF Grown, LastKind
<1>4. CASE d \in Delta /\ d[1] = "text"
  <2>1. /\ blocks' = IF lastKind = "text" THEN Grow ELSE Append(blocks, [kind |-> "text", body |-> <<d[2]>>])
        /\ thinking' = thinking
    BY <1>4 DEF Answer!Receive
  <2>2. CASE LastKind(blocks) = "text"
    <3>1. blocks # <<>>
      BY <2>2 DEF LastKind
    <3>2. blocks' = Grown(blocks, d[2])
      BY <1>3, <2>1, <2>2
    <3> QED BY <1>1, <1>4, <2>1, <2>2, <3>1, <3>2, LaidGrow
  <2>3. CASE LastKind(blocks) # "text"
    <3>1. blocks' = Append(blocks, [kind |-> "text", body |-> <<d[2]>>])
      BY <1>3, <2>1, <2>3
    <3> QED BY <1>1, <1>4, <2>1, <2>3, <3>1, LaidText
  <2> QED BY <2>2, <2>3
<1>5. CASE d \in Delta /\ d[1] = "reason"
  <2>1. /\ blocks' = IF lastKind = "reason" THEN Grow ELSE blocks
        /\ thinking' = thinking
    BY <1>5 DEF Answer!Receive
  <2>2. m \in {"opened", "on"}
    BY <1>5 DEF Shift
  <2>3. LastKind(blocks) = "reason"
    BY <2>2 DEF LaidIn
  <2>4. blocks # <<>>
    BY <2>3 DEF LastKind
  <2>5. blocks' = Grown(blocks, d[2])
    BY <1>3, <2>1, <2>3
  <2> QED BY <1>1, <1>5, <2>1, <2>3, <2>4, <2>5, LaidGrow
<1>6. CASE d \in Delta /\ d[1] \in {"call", "usage"}
  <2>1. blocks' = blocks /\ thinking' = thinking
    BY <1>6 DEF Answer!Receive
  <2>2. Shift(m, d) = m
    BY <1>6 DEF Shift
  <2>3. LaidIn(blocks, thinking, Append(p, d), m)
    BY <1>6, LaidOther
  <2> QED BY <1>1, <1>6, <2>1, <2>2, <2>3
<1>7. CASE d \notin Delta
  <2>1. d[1] = "thinking" /\ d[2] \in BOOLEAN /\ (d = Thinking(TRUE) \/ d = Thinking(FALSE))
    BY <1>7, ChunkKinds
  <2>2. plain[d] = <<>> /\ p \o <<>> = p
    <3>1. plain[d] = <<>>
      BY <2>1, PlainGives
    <3>2. p \o <<>> = p
      OBVIOUS
    <3> QED BY <3>1, <3>2
  <2>3. q = p
    BY <2>2
  <2>4. /\ thinking' = d[2]
        /\ blocks' = IF d[2] /\ ~thinking THEN Append(blocks, [kind |-> "reason", body |-> <<>>]) ELSE blocks
    BY <2>1 DEF Answer!Receive
  <2>5. CASE d[2]
    <3>1. m = "off" /\ Shift(m, d) = "opened"
      BY <2>1, <2>5 DEF Shift
    <3>2. thinking' = TRUE
      BY <2>1, <2>4, <2>5
    <3>3. ~thinking /\ LaidIn(Append(blocks, [kind |-> "reason", body |-> <<>>]), TRUE, p, "opened")
      BY <3>1, LaidOpen
    <3> QED BY <2>3, <2>4, <2>5, <3>1, <3>2, <3>3
  <2>6. CASE ~d[2]
    <3>1. m = "on" /\ Shift(m, d) = "closed"
      BY <2>1, <2>6 DEF Shift
    <3>2. thinking' = FALSE /\ blocks' = blocks
      BY <2>1, <2>4, <2>6
    <3>3. LaidIn(blocks, FALSE, p, "closed")
      BY <3>1, LaidClose
    <3> QED BY <2>3, <3>1, <3>2, <3>3
  <2> QED BY <2>5, <2>6
<1> QED BY <1>4, <1>5, <1>6, <1>7, ChunkKinds

(* The calls it has assembled.                                             *)
Id(i) == IF i = 1 THEN "id1" ELSE "id2"
Fragment == Seq({"{", "}"})
Call == [id : {"", "id1", "id2"}, args : Fragment]
CallDelta == {d \in Delta : d[1] = "call"}
CallsOf(i) == [d \in Delta |-> IF d[1] = "call" /\ d[2] = i THEN <<d>> ELSE <<>>]
ArgsOf(i) == [d \in Delta |-> IF d[1] = "call" /\ d[2] = i THEN d[4] ELSE <<>>]
Own(calls, i) == IF i <= Len(calls) THEN calls[i] ELSE Answer!NoCall
NamedIn(ds, i) == \E k \in DOMAIN ds : ds[k][3] = Id(i)

\* The calls are those that p tells of.
CallsIn(calls, p) ==
  /\ calls \in Seq(Call) /\ Len(calls) <= 2
  /\ \A i \in {1, 2} :
       /\ Own(calls, i).id = IF NamedIn(Flat(CallsOf(i), p), i) THEN Id(i) ELSE ""
       /\ Own(calls, i).args = Flat(ArgsOf(i), p)

\* The deltas of a call have its index, its id or none, and a fragment.
LEMMA CallFacts ==
  ASSUME NEW d \in Delta, d[1] = "call"
  PROVE  /\ d[2] \in {1, 2} /\ (d[3] = "" \/ d[3] = Id(d[2])) /\ d[4] \in Fragment
         /\ d \in CallDelta
<1>0. \A x : x \in {"text", "reason"} \X Sym => x[1] # "call"
  OBVIOUS
<1>1. <<"usage">>[1] # "call"
  OBVIOUS
<1>2. d \in {<<"call", 1, "id1", <<"{">>>>, <<"call", 1, "", <<"}">>>>, <<"call", 2, "id2", <<>>>>}
  BY <1>0, <1>1, Zenon DEF Delta
<1>3. <<"{">> \in Fragment /\ <<"}">> \in Fragment /\ <<>> \in Fragment
  BY DEF Fragment
<1>4. Id(1) = "id1" /\ Id(2) = "id2"
  BY DEF Id
<1>8. d \in CallDelta
  BY DEF CallDelta
<1>5. CASE d = <<"call", 1, "id1", <<"{">>>>
  <2>1. <<"call", 1, "id1", <<"{">>>>[2] = 1 /\ <<"call", 1, "id1", <<"{">>>>[3] = "id1" /\ <<"call", 1, "id1", <<"{">>>>[4] = <<"{">>
    OBVIOUS
  <2>2. d[2] = 1 /\ d[3] = "id1" /\ d[4] = <<"{">>
    BY <1>5, <2>1, Zenon
  <2> QED BY <1>3, <1>4, <1>8, <2>2
<1>6. CASE d = <<"call", 1, "", <<"}">>>>
  <2>1. <<"call", 1, "", <<"}">>>>[2] = 1 /\ <<"call", 1, "", <<"}">>>>[3] = "" /\ <<"call", 1, "", <<"}">>>>[4] = <<"}">>
    OBVIOUS
  <2>2. d[2] = 1 /\ d[3] = "" /\ d[4] = <<"}">>
    BY <1>6, <2>1, Zenon
  <2> QED BY <1>3, <1>4, <1>8, <2>2
<1>7. CASE d = <<"call", 2, "id2", <<>>>>
  <2>1. <<"call", 2, "id2", <<>>>>[2] = 2 /\ <<"call", 2, "id2", <<>>>>[3] = "id2" /\ <<"call", 2, "id2", <<>>>>[4] = <<>>
    OBVIOUS
  <2>2. d[2] = 2 /\ d[3] = "id2" /\ d[4] = <<>>
    BY <1>7, <2>1, Zenon
  <2> QED BY <1>3, <1>4, <1>8, <2>2
<1>9. d[2] \in {1, 2} /\ (d[3] = "" \/ d[3] = Id(d[2])) /\ d[4] \in Fragment
  BY <1>2, <1>5, <1>6, <1>7, Zenon
<1> QED BY <1>8, <1>9

\* The deltas and the fragments of one call.
LEMMA CallsGiven ==
  ASSUME NEW i \in {1, 2}
  PROVE  /\ Gives(Delta, CallDelta, CallsOf(i)) /\ Gives(Delta, {"{", "}"}, ArgsOf(i))
         /\ \A d \in Delta :
              /\ CallsOf(i)[d] = IF d[1] = "call" /\ d[2] = i THEN <<d>> ELSE <<>>
              /\ ArgsOf(i)[d] = IF d[1] = "call" /\ d[2] = i THEN d[4] ELSE <<>>
<1> DEFINE S == CallDelta
           c == CallsOf(i)
           a == ArgsOf(i)
<1>1. \A d \in Delta : /\ c[d] = IF d[1] = "call" /\ d[2] = i THEN <<d>> ELSE <<>>
                       /\ a[d] = IF d[1] = "call" /\ d[2] = i THEN d[4] ELSE <<>>
  BY DEF CallsOf, ArgsOf
<1>2. c = [d \in Delta |-> c[d]] /\ a = [d \in Delta |-> a[d]]
  BY DEF CallsOf, ArgsOf
<1>3. \A x \in S : <<x>> \in Seq(S)
  OBVIOUS
<1>4. <<>> \in Seq(S) /\ <<>> \in Fragment
  BY DEF Fragment
<1>5. \A d \in Delta : d[1] = "call" => d \in S /\ d[4] \in Fragment
  BY CallFacts
<1> HIDE DEF S, c, a
<1>6. ASSUME NEW d \in Delta PROVE c[d] \in Seq(S) /\ a[d] \in Fragment
  <2>1. CASE d[1] = "call" /\ d[2] = i
    BY <1>1, <1>3, <1>5, <2>1, Zenon
  <2>2. CASE ~(d[1] = "call" /\ d[2] = i)
    BY <1>1, <1>4, <2>2, Zenon
  <2> QED BY <2>1, <2>2
<1>7. c \in [Delta -> Seq(S)]
  BY <1>2, <1>6
<1>8. a \in [Delta -> Fragment]
  BY <1>2, <1>6
<1> QED BY <1>1, <1>7, <1>8 DEF Gives, Fragment, S, c, a

\* The same of a sequence, and of one delta more.
LEMMA CallsFlat ==
  ASSUME NEW i \in {1, 2}
  PROVE  /\ Flat(CallsOf(i), <<>>) = <<>> /\ Flat(ArgsOf(i), <<>>) = <<>>
         /\ \A s \in Seq(Delta) : Flat(CallsOf(i), s) \in Seq(CallDelta) /\ Flat(ArgsOf(i), s) \in Fragment
         /\ \A s \in Seq(Delta) : \A d \in Delta :
              /\ Flat(CallsOf(i), Append(s, d)) = Flat(CallsOf(i), s) \o CallsOf(i)[d]
              /\ Flat(ArgsOf(i), Append(s, d)) = Flat(ArgsOf(i), s) \o ArgsOf(i)[d]
<1>1. CallsOf(i) \in [Delta -> Seq(CallDelta)] /\ ArgsOf(i) \in [Delta -> Seq({"{", "}"})]
  BY CallsGiven DEF Gives
<1> DEFINE c == CallsOf(i)
           a == ArgsOf(i)
           D == CallDelta
           X == {"{", "}"}
<1> HIDE DEF c, a, D, X
<1>2. /\ Flat(c, <<>>) = <<>>
      /\ \A s \in Seq(Delta) : Flat(c, s) \in Seq(D)
      /\ \A s \in Seq(Delta) : \A d \in Delta : Flat(c, Append(s, d)) = Flat(c, s) \o c[d]
  <2>1. c \in [Delta -> Seq(D)]
    BY <1>1 DEF c, D
  <2> QED BY <2>1, FlatLaws
<1>3. /\ Flat(a, <<>>) = <<>>
      /\ \A s \in Seq(Delta) : Flat(a, s) \in Seq(X)
      /\ \A s \in Seq(Delta) : \A d \in Delta : Flat(a, Append(s, d)) = Flat(a, s) \o a[d]
  <2>1. a \in [Delta -> Seq(X)]
    BY <1>1 DEF a, X
  <2> QED BY <2>1, FlatLaws
<1> QED BY <1>2, <1>3 DEF c, a, D, X, Fragment

\* A delta goes to the call of its index.
LEMMA AccumulateLaws ==
  ASSUME NEW calls \in Seq(Call), Len(calls) <= 2, NEW d \in Delta, d[1] = "call"
  PROVE  LET w == Answer!Accumulate(calls, d)
         IN /\ w \in Seq(Call) /\ Len(w) <= 2
            /\ \A i \in {1, 2} :
                 /\ i # d[2] => Own(w, i) = Own(calls, i)
                 /\ i = d[2] => /\ Own(w, i).id = IF d[3] = "" THEN Own(calls, i).id ELSE d[3]
                                /\ Own(w, i).args = Own(calls, i).args \o d[4]
<1> DEFINE w == Answer!Accumulate(calls, d)
           n == Len(calls)
           j == d[2]
           e == IF j > n THEN j - n ELSE 0
           pad == [i \in 1 .. e |-> Answer!NoCall]
           padded == calls \o pad
           x == [id |-> IF d[3] = "" THEN padded[j].id ELSE d[3], args |-> padded[j].args \o d[4]]
           C == Call
           none == Answer!NoCall
<1>1. j \in {1, 2} /\ (d[3] = "" \/ d[3] = Id(j)) /\ d[4] \in Fragment
  BY CallFacts
<1>2. n \in Nat /\ n <= 2
  OBVIOUS
<1>3. none \in C
  <2>1. \A y \in {"", "id1", "id2"}, z \in Fragment : [id |-> y, args |-> z] \in Call
    BY DEF Call
  <2>2. <<>> \in Fragment
    BY DEF Fragment
  <2> QED BY <2>1, <2>2 DEF Answer!NoCall
<1>4. w = [padded EXCEPT ![j] = x]
  BY DEF Answer!Accumulate
<1> HIDE DEF w, C, n
<1>5. calls \in Seq(C) /\ Len(calls) = n
  BY DEF C, n
<1> HIDE DEF none, j
<1>6. e \in Nat /\ n + e <= 2 /\ j \in 1 .. n + e
  <2>1. j \in Nat /\ 1 <= j /\ j <= 2
    <3>1. j = 1 \/ j = 2
      BY <1>1, Zenon
    <3> QED BY <3>1
  <2>2. CASE j > n
    BY <1>2, <2>1, <2>2
  <2>3. CASE ~(j > n)
    BY <1>2, <2>1, <2>3
  <2> QED BY <2>2, <2>3
<1> HIDE DEF e
<1>7. pad \in Seq(C) /\ Len(pad) = e /\ \A i \in 1 .. e : pad[i] = none
  <2>1. pad \in [1 .. e -> C]
    BY <1>3 DEF none
  <2>2. pad \in Seq(C)
    BY <1>6, <2>1
  <2>3. DOMAIN pad = 1 .. e /\ \A i \in 1 .. e : pad[i] = none
    BY DEF none
  <2> HIDE DEF pad
  <2> QED BY <1>6, <2>2, <2>3
<1> HIDE DEF pad
<1>8. /\ padded \in Seq(C) /\ Len(padded) = n + e
      /\ \A i \in 1 .. n + e : padded[i] = IF i <= n THEN calls[i] ELSE none
  <2>1. padded \in Seq(C) /\ Len(padded) = n + e
        /\ \A i \in 1 .. n + e : padded[i] = IF i <= n THEN calls[i] ELSE pad[i - n]
    BY <1>5, <1>7, ConcatProperties
  <2>2. \A i \in 1 .. n + e : i <= n \/ i - n \in 1 .. e
    BY <1>2, <1>6
  <2> QED BY <1>7, <2>1, <2>2
<1> HIDE DEF padded
<1>9. x \in C
  <2>1. padded[j] \in Call
    BY <1>6, <1>8 DEF C
  <2>2. padded[j].id \in {"", "id1", "id2"} /\ padded[j].args \in Seq({"{", "}"})
    BY <2>1 DEF Call, Fragment
  <2>3. d[3] \in {"", "id1", "id2"}
    BY <1>1 DEF Id
  <2> DEFINE a == padded[j].args
             b == d[4]
             X == {"{", "}"}
  <2>4. a \o b \in Fragment
    <3>1. a \in Seq(X) /\ b \in Seq(X)
      BY <1>1, <2>2 DEF Fragment
    <3> HIDE DEF a, b, X
    <3>2. a \o b \in Seq(X)
      BY <3>1
    <3> QED BY <3>2 DEF X, Fragment
  <2>5. (IF d[3] = "" THEN padded[j].id ELSE d[3]) \in {"", "id1", "id2"}
    BY <2>2, <2>3
  <2>6. \A y \in {"", "id1", "id2"}, z \in Fragment : [id |-> y, args |-> z] \in Call
    BY DEF Call
  <2> QED BY <2>4, <2>5, <2>6 DEF C
<1>10. x.id = (IF d[3] = "" THEN padded[j].id ELSE d[3]) /\ x.args = padded[j].args \o d[4]
  OBVIOUS
<1> HIDE DEF x
<1>11. /\ w \in Seq(C) /\ Len(w) = n + e
       /\ \A i \in 1 .. n + e : w[i] = IF i = j THEN x ELSE padded[i]
  BY <1>4, <1>6, <1>8, <1>9
<1>12. \A i \in {1, 2} : Own(calls, i) = IF i <= n THEN calls[i] ELSE none
  BY DEF Own, n, none
<1>13. \A i \in {1, 2} : Own(w, i) = IF i <= n + e THEN w[i] ELSE none
  BY <1>11 DEF Own, none
<1>14. \A i \in {1, 2} : i <= n + e => i \in 1 .. n + e
  BY <1>2, <1>6
<1>15. padded[j] = Own(calls, j)
  BY <1>1, <1>6, <1>8, <1>12 DEF j
<1>16. ASSUME NEW i \in {1, 2}, i # j PROVE Own(w, i) = Own(calls, i)
  <2>1. ~(i <= n + e) => ~(i <= n)
    BY <1>2, <1>6
  <2> QED BY <1>8, <1>11, <1>12, <1>13, <1>14, <1>16, <2>1
<1>17. Own(w, j) = x
  <2>1. j \in {1, 2}
    BY <1>1, Zenon
  <2>2. j <= n + e
    BY <1>2, <1>6
  <2> QED BY <1>6, <1>11, <1>13, <2>1, <2>2
<1>18. Len(w) <= 2
  BY <1>6, <1>11
<1> QED BY <1>10, <1>11, <1>15, <1>16, <1>17, <1>18 DEF w, C, j

\* A call is named by one of its deltas.
LEMMA NamedMore ==
  ASSUME NEW S, NEW ds \in Seq(S), NEW d \in S, NEW i
  PROVE  NamedIn(ds \o <<d>>, i) <=> NamedIn(ds, i) \/ d[3] = Id(i)
<1> DEFINE n == Len(ds)
           w == Append(ds, d)
<1>1. n \in Nat /\ DOMAIN ds = 1 .. n /\ DOMAIN w = 1 .. n + 1 /\ w[n + 1] = d /\ \A k \in 1 .. n : w[k] = ds[k]
  OBVIOUS
<1>2. ds \o <<d>> = w
  BY AppendIsConcat
<1> HIDE DEF n, w
<1>3. \A k \in 1 .. n + 1 : k \in 1 .. n \/ k = n + 1
  BY <1>1
<1>4. n + 1 \in 1 .. n + 1 /\ \A k \in 1 .. n : k \in 1 .. n + 1
  BY <1>1
<1>5. (\E k \in 1 .. n + 1 : w[k][3] = Id(i)) <=> (\E k \in 1 .. n : ds[k][3] = Id(i)) \/ d[3] = Id(i)
  <2>1. ASSUME NEW k \in 1 .. n + 1, w[k][3] = Id(i)
        PROVE  (\E l \in 1 .. n : ds[l][3] = Id(i)) \/ d[3] = Id(i)
    <3>1. CASE k = n + 1
      BY <1>1, <2>1, <3>1
    <3>2. CASE k \in 1 .. n
      BY <1>1, <2>1, <3>2
    <3> QED BY <1>3, <3>1, <3>2
  <2>2. ASSUME NEW k \in 1 .. n, ds[k][3] = Id(i) PROVE \E l \in 1 .. n + 1 : w[l][3] = Id(i)
    BY <1>1, <1>4, <2>2
  <2>3. ASSUME d[3] = Id(i) PROVE \E l \in 1 .. n + 1 : w[l][3] = Id(i)
    BY <1>1, <1>4, <2>3
  <2> QED BY <2>1, <2>2, <2>3
<1> QED BY <1>1, <1>2, <1>5 DEF NamedIn

\* A delta that is received is accumulated.
LEMMA CallsMore ==
  ASSUME NEW calls, NEW p \in Seq(Delta), CallsIn(calls, p), NEW d \in Delta
  PROVE  /\ d[1] = "call" => CallsIn(Answer!Accumulate(calls, d), Append(p, d))
         /\ d[1] # "call" => CallsIn(calls, Append(p, d))
<1> DEFINE w == IF d[1] = "call" THEN Answer!Accumulate(calls, d) ELSE calls
<1>1. calls \in Seq(Call) /\ Len(calls) <= 2
  BY DEF CallsIn
<1>2. w \in Seq(Call) /\ Len(w) <= 2
  BY <1>1, AccumulateLaws
<1>3. ASSUME NEW i \in {1, 2}
      PROVE  /\ Own(w, i).id = IF NamedIn(Flat(CallsOf(i), Append(p, d)), i) THEN Id(i) ELSE ""
             /\ Own(w, i).args = Flat(ArgsOf(i), Append(p, d))
  <2> DEFINE c == Flat(CallsOf(i), p)
             a == Flat(ArgsOf(i), p)
  <2>1. c \in Seq(CallDelta) /\ a \in Seq({"{", "}"})
    BY CallsFlat DEF Fragment
  <2>2. /\ Flat(CallsOf(i), Append(p, d)) = c \o (IF d[1] = "call" /\ d[2] = i THEN <<d>> ELSE <<>>)
        /\ Flat(ArgsOf(i), Append(p, d)) = a \o (IF d[1] = "call" /\ d[2] = i THEN d[4] ELSE <<>>)
    <3> DEFINE f == CallsOf(i)
               g == ArgsOf(i)
    <3>1. f[d] = (IF d[1] = "call" /\ d[2] = i THEN <<d>> ELSE <<>>)
          /\ g[d] = (IF d[1] = "call" /\ d[2] = i THEN d[4] ELSE <<>>)
      BY CallsGiven
    <3>2. Flat(f, Append(p, d)) = Flat(f, p) \o f[d] /\ Flat(g, Append(p, d)) = Flat(g, p) \o g[d]
      BY CallsFlat, Zenon
    <3> HIDE DEF f, g
    <3>3. Flat(f, Append(p, d)) = Flat(f, p) \o (IF d[1] = "call" /\ d[2] = i THEN <<d>> ELSE <<>>)
      BY <3>1, <3>2
    <3>4. Flat(g, Append(p, d)) = Flat(g, p) \o (IF d[1] = "call" /\ d[2] = i THEN d[4] ELSE <<>>)
      BY <3>1, <3>2
    <3> QED BY <3>3, <3>4, Zenon DEF f, g
  <2>3. Own(calls, i).id = (IF NamedIn(c, i) THEN Id(i) ELSE "") /\ Own(calls, i).args = a
    BY DEF CallsIn
  <2> HIDE DEF c, a
  <2>4. CASE d[1] = "call" /\ d[2] = i
    <3>1. /\ Own(w, i).id = IF d[3] = "" THEN Own(calls, i).id ELSE d[3]
          /\ Own(w, i).args = Own(calls, i).args \o d[4]
      BY <1>1, <2>4, AccumulateLaws
    <3>2. d[3] = "" \/ d[3] = Id(i)
      BY <2>4, CallFacts
    <3>3. NamedIn(c \o <<d>>, i) <=> NamedIn(c, i) \/ d[3] = Id(i)
      <4>1. d \in CallDelta
        BY <2>4, CallFacts
      <4> QED BY <2>1, <4>1, NamedMore, Zenon
    <3>4. Id(i) # ""
      BY DEF Id
    <3> HIDE DEF w
    <3> QED BY <2>2, <2>3, <2>4, <3>1, <3>2, <3>3, <3>4
  <2>5. CASE ~(d[1] = "call" /\ d[2] = i)
    <3>1. Own(w, i) = Own(calls, i)
      BY <1>1, <2>5, AccumulateLaws
    <3>2. c \o <<>> = c /\ a \o <<>> = a
      <4>1. \A x \in Seq(CallDelta) : x \o <<>> = x
        OBVIOUS
      <4>2. \A S : \A x \in Seq(S) : x \o <<>> = x
        OBVIOUS
      <4> QED BY <2>1, <4>1, <4>2, Zenon
    <3> HIDE DEF w
    <3> QED BY <2>2, <2>3, <2>5, <3>1, <3>2
  <2> QED BY <2>4, <2>5
<1> HIDE DEF w
<1>4. CallsIn(w, Append(p, d))
  BY <1>2, <1>3 DEF CallsIn
<1> QED BY <1>4 DEF w

(* The end of the response.                                                *)

\* What passes every test is all kept.
LEMMA AllKept ==
  ASSUME NEW X, NEW op, op \in [X -> Seq(X)], \A x \in X : op[x] = <<x>>
  PROVE  \A s \in Seq(X) : Flat(op, s) = s
<1> DEFINE T == {u \in Seq(X) : Flat(op, u) = u}
<1>1. /\ Flat(op, <<>>) = <<>>
      /\ \A s \in Seq(X) : \A x \in X : Flat(op, Append(s, x)) = Flat(op, s) \o op[x]
  BY FlatLaws
<1>2. <<>> \in T
  BY <1>1
<1>3. ASSUME NEW u \in T, NEW x \in X PROVE Append(u, x) \in T
  <2>1. u \in Seq(X) /\ Flat(op, u) = u /\ Append(u, x) \in Seq(X)
    OBVIOUS
  <2>2. Append(u, x) = u \o <<x>>
    BY <2>1, AppendIsConcat
  <2> QED BY <1>1, <2>1, <2>2
<1>4. T \in SUBSET Seq(X)
  OBVIOUS
<1> HIDE DEF T
<1>5. T = Seq(X)
  BY <1>2, <1>3, <1>4, SeqInduction
<1> QED BY <1>5 DEF T

\* No block is dropped.
LEMMA BlocksStay ==
  ASSUME NEW bs \in Seq(Block), \A i \in 1 .. Len(bs) : bs[i].body # <<>>
  PROVE  Answer!Those(bs, LAMBDA b : b.kind = "text" \/ b.body # <<>>) = bs
<1> DEFINE X == {b \in Block : b.body # <<>>}
           op == [b \in X |-> <<b>>]
<1>1. \A i \in DOMAIN bs : bs[i] \in X
  BY DEF X
<1>2. Answer!Those(bs, LAMBDA b : b.kind = "text" \/ b.body # <<>>)
        = Answer!FlattenSeq([i \in DOMAIN bs |-> IF bs[i].kind = "text" \/ bs[i].body # <<>>
                                                 THEN <<bs[i]>> ELSE <<>>])
  BY DEF Answer!Those
<1>3. [i \in DOMAIN bs |-> IF bs[i].kind = "text" \/ bs[i].body # <<>> THEN <<bs[i]>> ELSE <<>>]
        = [i \in DOMAIN bs |-> op[bs[i]]]
  <2>1. \A b \in X : op[b] = <<b>> /\ b.body # <<>>
    OBVIOUS
  <2> HIDE DEF X, op
  <2> QED BY <1>1, <2>1
<1>4. bs \in Seq(X)
  <2>1. DOMAIN bs = 1 .. Len(bs) /\ Len(bs) \in Nat /\ bs = [i \in DOMAIN bs |-> bs[i]]
    OBVIOUS
  <2> HIDE DEF X
  <2>2. bs \in [1 .. Len(bs) -> X]
    BY <1>1, <2>1
  <2> QED BY <2>1, <2>2
<1>5. op \in [X -> Seq(X)] /\ \A b \in X : op[b] = <<b>>
  <2> HIDE DEF X
  <2>1. \A b \in X : <<b>> \in Seq(X)
    OBVIOUS
  <2> QED BY <2>1
<1> HIDE DEF X, op
<1>6. Flat(op, bs) = bs
  BY <1>4, <1>5, AllKept
<1> QED BY <1>2, <1>3, <1>6, SameFlatten DEF Flat

kept == [c \in Call |-> IF c.id # "" /\ Answer!Parses(c.args) THEN <<c>> ELSE <<>>]
With(x) == [c \in Call |-> IF c.id = x THEN <<c>> ELSE <<>>]
Good(x) == [c \in Call |-> IF c.id = x /\ Answer!Parses(c.args) THEN <<c>> ELSE <<>>]

\* A call is kept when it has a name and its arguments are JSON.
LEMMA KeptGiven ==
  /\ Gives(Call, Call, kept) /\ \A x : Gives(Call, Call, With(x)) /\ Gives(Call, Call, Good(x))
  /\ \A c \in Call : kept[c] = IF c.id # "" /\ Answer!Parses(c.args) THEN <<c>> ELSE <<>>
  /\ \A x : \A c \in Call : With(x)[c] = IF c.id = x THEN <<c>> ELSE <<>>
  /\ \A x : \A c \in Call : Good(x)[c] = IF c.id = x /\ Answer!Parses(c.args) THEN <<c>> ELSE <<>>
<1> DEFINE C == Call
<1>1. \A c \in C : <<c>> \in Seq(C)
  OBVIOUS
<1>2. <<>> \in Seq(C)
  OBVIOUS
<1> HIDE DEF C
<1>3. kept \in [C -> Seq(C)]
  BY <1>1, <1>2 DEF kept, C
<1>4. \A x : With(x) \in [C -> Seq(C)]
  BY <1>1, <1>2 DEF With, C
<1>5. \A x : Good(x) \in [C -> Seq(C)]
  BY <1>1, <1>2 DEF Good, C
<1> QED BY <1>3, <1>4, <1>5 DEF Gives, kept, With, Good, C

\* The program's own filter keeps those.
LEMMA KeptIs ==
  ASSUME NEW s \in Seq(Call)
  PROVE  Answer!Finalize(s) = Flat(kept, s) /\ Flat(kept, s) \in Seq(Call)
<1>1. \A i \in DOMAIN s : s[i] \in Call
  OBVIOUS
<1>2. Answer!Finalize(s) = Answer!FlattenSeq([i \in DOMAIN s |-> IF s[i].id # "" /\ Answer!Parses(s[i].args) THEN <<s[i]>> ELSE <<>>])
  BY DEF Answer!Finalize, Answer!Those
<1>3. [i \in DOMAIN s |-> IF s[i].id # "" /\ Answer!Parses(s[i].args) THEN <<s[i]>> ELSE <<>>] = [i \in DOMAIN s |-> kept[s[i]]]
  BY <1>1, KeptGiven
<1>6. Flat(kept, s) \in Seq(Call)
  BY KeptGiven, FlatLaws DEF Gives
<1>7. Answer!Finalize(s) = Flat(kept, s)
  BY <1>2, <1>3, SameFlatten DEF Flat
<1> QED BY <1>6, <1>7

\* Of the calls that are kept, the one with a name is its own.
LEMMA KeptOwn ==
  ASSUME NEW calls, NEW p, CallsIn(calls, p), NEW i \in {1, 2}
  PROVE  LET own == Flat(With(Id(i)), Flat(kept, calls))
         IN IF NamedIn(Flat(CallsOf(i), p), i) /\ Answer!Parses(Flat(ArgsOf(i), p))
            THEN Len(own) = 1 /\ own[1].args = Flat(ArgsOf(i), p)
            ELSE own = <<>>
<1> DEFINE x == Id(i)
           h == With(x)
           g == Good(x)
           C == Call
           n == Len(calls)
           one == calls[1]
           two == calls[2]
<1>0. x # "" /\ x \in {"id1", "id2"}
  BY DEF Id
<1>1. /\ calls \in Seq(C) /\ n \in Nat /\ n <= 2
  <2>1. calls \in Seq(C) /\ n <= 2
    BY Zenon DEF CallsIn
  <2> HIDE DEF C
  <2>2. n \in Nat
    BY <2>1
  <2> QED BY <2>1, <2>2
<1>2. /\ \A c \in C : g[c] = IF c.id = x /\ Answer!Parses(c.args) THEN <<c>> ELSE <<>>
      /\ \A c \in C : h[c] = IF c.id = x THEN <<c>> ELSE <<>>
  BY KeptGiven
<1>3. Gives(C, C, g) /\ Gives(C, C, h) /\ Gives(C, C, kept)
  BY KeptGiven
<1>4. /\ Flat(g, <<>>) = <<>>
      /\ \A s \in Seq(C) : \A c \in C : Flat(g, Append(s, c)) = Flat(g, s) \o g[c]
  <2> HIDE DEF g, C
  <2>1. g \in [C -> Seq(C)]
    BY <1>3 DEF Gives
  <2>2. Flat(g, <<>>) = <<>>
    BY <2>1, FlatLaws
  <2>3. ASSUME NEW s \in Seq(C), NEW c \in C PROVE Flat(g, Append(s, c)) = Flat(g, s) \o g[c]
    BY <1>3, FlatAppend
  <2> QED BY <2>2, <2>3
<1>5. Flat(h, Flat(kept, calls)) = Flat(g, calls)
  <2> HIDE DEF g, h, C
  <2>0. h \in [C -> Seq(C)]
    BY <1>3 DEF Gives
  <2>1. \A c \in C : g[c] = Flat(h, kept[c])
    <3>1. ASSUME NEW c \in C PROVE Flat(h, <<c>>) = h[c]
      BY <1>3, FlatOfOne
    <3>2. \A c \in C : kept[c] = IF c.id # "" /\ Answer!Parses(c.args) THEN <<c>> ELSE <<>>
      BY KeptGiven DEF C
    <3>3. Flat(h, <<>>) = <<>>
      BY <2>0, FlatLaws
    <3> QED BY <1>0, <1>2, <3>1, <3>2, <3>3
  <2>2. Composed(C, C, C, kept, h, g)
    BY <1>3, <2>1 DEF Composed, Gives
  <2> QED BY <1>1, <2>2, FlatTwice
<1>6. \A k \in {1, 2} : Own(calls, k) = IF k <= n THEN calls[k] ELSE Answer!NoCall
  BY DEF Own
<1>7. /\ Own(calls, i).id = IF NamedIn(Flat(CallsOf(i), p), i) THEN x ELSE ""
      /\ Own(calls, i).args = Flat(ArgsOf(i), p)
      /\ i = 1 => Own(calls, 2).id # x
      /\ i = 2 => Own(calls, 1).id # x
  <2>1. \A k \in {1, 2} : Own(calls, k).id = (IF NamedIn(Flat(CallsOf(k), p), k) THEN Id(k) ELSE "")
                            /\ Own(calls, k).args = Flat(ArgsOf(k), p)
    BY DEF CallsIn
  <2>2. Id(1) # Id(2) /\ "" # Id(1) /\ "" # Id(2)
    BY DEF Id
  <2>3. CASE i = 1
    <3>1. Own(calls, 2).id = Id(2) \/ Own(calls, 2).id = ""
      BY <2>1
    <3> QED BY <2>1, <2>2, <2>3, <3>1
  <2>4. CASE i = 2
    <3>1. Own(calls, 1).id = Id(1) \/ Own(calls, 1).id = ""
      BY <2>1
    <3> QED BY <2>1, <2>2, <2>4, <3>1
  <2> QED BY <2>3, <2>4
<1>8. Answer!NoCall.id = ""
  BY DEF Answer!NoCall
<1> HIDE DEF g, h, C, x, n, one, two
<1>9. n = 0 => calls = <<>>
  BY <1>1 DEF n
<1>10. n = 1 => one \in C /\ calls = Append(<<>>, one)
  <2> SUFFICES ASSUME n = 1 PROVE one \in C /\ calls = Append(<<>>, one)
    OBVIOUS
  <2>1. Len(calls) = 1
    BY DEF n
  <2>2. calls[1] \in C
    BY <1>1, <2>1
  <2>3. one \in C /\ one = calls[1]
    BY <2>2 DEF one
  <2> DEFINE w == Append(<<>>, one)
  <2>4. w \in Seq(C) /\ Len(w) = 1 /\ w[1] = one
    BY <2>3
  <2> HIDE DEF w
  <2>5. \A k \in 1 .. 1 : k = 1
    OBVIOUS
  <2>6. calls = w
    BY <1>1, <2>1, <2>3, <2>4, <2>5, SeqEqual
  <2> QED BY <2>3, <2>6 DEF w
<1>11. n = 2 => one \in C /\ two \in C /\ calls = Append(Append(<<>>, one), two)
  <2> SUFFICES ASSUME n = 2 PROVE one \in C /\ two \in C /\ calls = Append(Append(<<>>, one), two)
    OBVIOUS
  <2>1. Len(calls) = 2
    BY DEF n
  <2>2. calls[1] \in C /\ calls[2] \in C
    BY <1>1, <2>1
  <2>3. one \in C /\ one = calls[1] /\ two \in C /\ two = calls[2]
    BY <2>2 DEF one, two
  <2> DEFINE v == Append(<<>>, one)
             w == Append(v, two)
  <2>4. v \in Seq(C) /\ Len(v) = 1 /\ v[1] = one
    BY <2>3
  <2> HIDE DEF v
  <2>5. w \in Seq(C) /\ Len(w) = 2 /\ w[1] = one /\ w[2] = two
    <3>1. /\ w \in Seq(C) /\ Len(w) = Len(v) + 1
          /\ \A k \in 1 .. Len(v) : w[k] = v[k]
          /\ w[Len(v) + 1] = two
      <4>1. \A s \in Seq(C) : \A c \in C :
              /\ Append(s, c) \in Seq(C) /\ Len(Append(s, c)) = Len(s) + 1
              /\ \A k \in 1 .. Len(s) : Append(s, c)[k] = s[k]
              /\ Append(s, c)[Len(s) + 1] = c
        BY AppendProperties
      <4>2. v \in Seq(C) /\ two \in C
        BY <2>3, <2>4
      <4> QED BY <4>1, <4>2, Zenon
    <3> HIDE DEF w
    <3>2. 1 \in 1 .. 1 /\ 1 + 1 = 2
      OBVIOUS
    <3> QED BY <2>4, <3>1, <3>2
  <2> HIDE DEF w
  <2>6. \A k \in 1 .. 2 : k = 1 \/ k = 2
    OBVIOUS
  <2>7. calls = w
    BY <1>1, <2>1, <2>3, <2>5, <2>6, SeqEqual
  <2> QED BY <2>3, <2>7 DEF v, w
<1>12. /\ n = 1 => Own(calls, 1) = one /\ Own(calls, 2) = Answer!NoCall
       /\ n = 2 => Own(calls, 1) = one /\ Own(calls, 2) = two
       /\ n = 0 => Own(calls, 1) = Answer!NoCall /\ Own(calls, 2) = Answer!NoCall
  BY <1>6 DEF one, two
<1>13. Flat(g, calls) = IF Own(calls, i).id = x /\ Answer!Parses(Own(calls, i).args)
                        THEN <<Own(calls, i)>> ELSE <<>>
  <2>0. <<>> \in Seq(C) /\ \A c \in C : Append(<<>>, c) \in Seq(C)
    OBVIOUS
  <2>1. <<>> \o <<>> = <<>> /\ \A c : <<>> \o <<c>> = <<c>> /\ <<c>> \o <<>> = <<c>>
    <3>1. <<>> \o <<>> = <<>>
      OBVIOUS
    <3>2. \A c : <<>> \o <<c>> = <<c>>
      OBVIOUS
    <3>3. \A c : <<c>> \o <<>> = <<c>>
      OBVIOUS
    <3> QED BY <3>1, <3>2, <3>3
  <2>2. CASE n = 0
    <3>1. Flat(g, calls) = <<>>
      BY <1>4, <1>9, <2>2
    <3>2. Own(calls, i).id # x
      BY <1>0, <1>8, <1>12, <2>2
    <3> QED BY <3>1, <3>2
  <2>3. CASE n = 1
    <3>1. Flat(g, calls) = <<>> \o g[one]
      BY <1>4, <1>10, <2>0, <2>3
    <3>2. g[one] = IF one.id = x /\ Answer!Parses(one.args) THEN <<one>> ELSE <<>>
      BY <1>2, <1>10, <2>3
    <3>3. CASE i = 1
      BY <1>12, <2>1, <2>3, <3>1, <3>2, <3>3
    <3>4. CASE i = 2
      <4>1. one.id # x /\ Own(calls, i).id # x
        BY <1>0, <1>7, <1>8, <1>12, <2>3, <3>4
      <4> QED BY <2>1, <3>1, <3>2, <4>1
    <3> QED BY <3>3, <3>4
  <2>4. CASE n = 2
    <3>1. Flat(g, calls) = (<<>> \o g[one]) \o g[two]
      BY <1>4, <1>11, <2>0, <2>4
    <3>2. g[one] = (IF one.id = x /\ Answer!Parses(one.args) THEN <<one>> ELSE <<>>) /\ g[two] = (IF two.id = x /\ Answer!Parses(two.args) THEN <<two>> ELSE <<>>)
      BY <1>2, <1>11, <2>4
    <3>3. CASE i = 1
      <4>1. two.id # x
        BY <1>7, <1>12, <2>4, <3>3
      <4> QED BY <1>12, <2>1, <2>4, <3>1, <3>2, <3>3, <4>1
    <3>4. CASE i = 2
      <4>1. one.id # x
        BY <1>7, <1>12, <2>4, <3>4
      <4> QED BY <1>12, <2>1, <2>4, <3>1, <3>2, <3>4, <4>1
    <3> QED BY <3>3, <3>4
  <2>5. n = 0 \/ n = 1 \/ n = 2
    BY <1>1
  <2> QED BY <2>2, <2>3, <2>4, <2>5
<1>14. Flat(With(Id(i)), Flat(kept, calls)) = Flat(g, calls)
  BY <1>5 DEF h, x
<1> HIDE DEF x
<1>15. \A y : Len(<<y>>) = 1 /\ <<y>>[1] = y
  OBVIOUS
<1> QED BY <1>0, <1>7, <1>13, <1>14, <1>15

Verdicts ==
  ~cancel =>
    /\ pc # "done" => fault = "none" /\ result # "ok"
    /\ result = "ok" => fault = "none"
    /\ outcome = "complete" => result = "ok" /\ at = "done"
    /\ ~stopped /\ result # "complete"

\* As long as nothing is wrong.
Sound == ~cancel /\ fault = "none"
Underway(c) ==
  \E p, m : Flow(c, p, m) /\ LaidIn(blocks, thinking, p, m) /\ CallsIn(partial, p)
Answered(c) ==
  /\ blocks \in Seq(Block) /\ partial \in Seq(Call)
  /\ Flat(bodyOf, blocks) = Flat(spoken, Heard(c)) /\ Alternate(blocks)
  /\ \A i \in {1, 2} :
       LET own == Flat(With(Id(i)), partial)
       IN IF NamedIn(Flat(CallsOf(i), Heard(c)), i) /\ Answer!Parses(Flat(ArgsOf(i), Heard(c)))
          THEN Len(own) = 1 /\ own[1].args = Flat(ArgsOf(i), Heard(c))
          ELSE own = <<>>
Far(c) ==
  /\ Progress(c) /\ Parsed(c)
  /\ \/ at = "loop" /\ Underway(c)
     \/ at = "join" /\ Underway(c) /\ chan = <<>> /\ pc = "done"
     \/ at = "done" /\ Answered(c) /\ pc = "done"
StreamInv == Verdicts /\ (Sound => \E c : Far(c))

\* The names of the program's own results are not the one for none.
LEMMA StreamNames == NoResult # "ok" /\ NoResult # "complete"
BY ProviderAssumption, Zenon DEF Answer!StreamAssumption

\* What a server sends is bytes.
LEMMA ReplyTyped ==
  ASSUME NEW s \in Scripts
  PROVE  Answer!Reply(s) \in Line
<1> DEFINE S == Sym
           op == [e \in S |-> Answer!Bytes(e)]
<1>1. s \in Seq(S)
  BY ProviderAssumption DEF Answer!StreamAssumption, Sym
<1>2. "lead" \in S /\ "cont" \in S /\ "end" \in S /\ "nl" \in S
  BY DEF Sym, Answer!Symbol
<1> HIDE DEF S
<1>3. ASSUME NEW e \in S PROVE Answer!Bytes(e) \in Seq(S)
  <2>1. <<e, "lead", "cont", "end", "nl">> \in Seq(S)
    BY <1>2
  <2>2. <<e, "end", "nl">> \in Seq(S)
    BY <1>2
  <2> QED BY <2>1, <2>2 DEF Answer!Bytes
<1>4. op \in [S -> Seq(S)]
  BY <1>3
<1>5. Answer!Reply(s) = Answer!FlattenSeq([i \in DOMAIN s |-> op[s[i]]])
  <2>1. \A i \in DOMAIN s : s[i] \in S
    BY <1>1
  <2>2. \A e \in S : op[e] = Answer!Bytes(e)
    OBVIOUS
  <2> HIDE DEF op
  <2>3. [i \in DOMAIN s |-> Answer!Bytes(s[i])] = [i \in DOMAIN s |-> op[s[i]]]
    BY <2>1, <2>2
  <2> QED BY <2>3 DEF Answer!Reply
<1> HIDE DEF op
<1>6. Flat(op, s) \in Seq(S)
  BY <1>1, <1>4, FlatLaws
<1> QED BY <1>5, <1>6, SameFlatten DEF Flat, Line, S

\* A response that is not sent yet is read as far as it is.
LEMMA StreamStart == Init => StreamInv
<1> SUFFICES ASSUME Init PROVE StreamInv
  OBVIOUS
<1>1. /\ got = <<>> /\ pc = "connect" /\ pending = <<>> /\ buffer = <<>>
      /\ seen = Answer!Fresh /\ out = <<>> /\ chan = <<>> /\ result = NoResult /\ fault = "none"
      /\ at = "loop" /\ blocks = <<>> /\ partial = <<>> /\ thinking = FALSE
      /\ stopped = FALSE /\ cancel = FALSE /\ outcome = NoResult
  BY DEF Init, Answer!Init
<1>2. Verdicts
  BY <1>1, StreamNames DEF Verdicts
<1>3. net \in Line
  BY ReplyTyped DEF Init, Answer!Init
<1>4. <<>> \in Line /\ <<>> \o <<>> = <<>>
  BY DEF Line
<1>5. Waits(FALSE) = <<>> /\ Answer!Decoded(<<>>) = [text |-> <<>>, begun |-> FALSE]
  <2>1. Waits(FALSE) = <<>>
    BY DEF Waits
  <2>2. Answer!Decoded(Waits(FALSE)) = [text |-> <<>>, begun |-> FALSE]
    BY WaitsDecoded
  <2> QED BY <2>1, <2>2
<1>6. Told(<<>>) = <<>> /\ Rest(<<>>) = <<>> /\ Heard(<<>>) = <<>>
  BY <1>4, ToldSteps, LineTyped DEF Heard
<1>7. Progress(<<>>)
  <2>1. Unbroken(<<>>)
    BY DEF Unbroken
  <2>2. {<<>>, got, net, buffer} \subseteq Line /\ pc \in Pcs
    BY <1>1, <1>3, <1>4 DEF Pcs
  <2>3. Answer!Decoded(got).text = <<>> /\ Answer!Decoded(got).begun = FALSE
    BY <1>1, <1>5
  <2>4. <<>> \o buffer = <<>> /\ pending = Waits(Answer!Decoded(got).begun)
    BY <1>1, <1>4, <1>5, <2>3
  <2>5. Unbroken(buffer)
    BY <1>1, <2>1
  <2> QED BY <1>1, <1>6, <2>2, <2>3, <2>4, <2>5 DEF Progress
<1>8. Parsed(<<>>)
  <2>1. seen \in Parse /\ ~Counts(seen)
    BY <1>1 DEF Answer!Fresh, Parse, Counts
  <2>2. out \in Seq(Chunk)
    BY <1>1
  <2> QED BY <1>1, <2>1, <2>2, StreamNames DEF Parsed
<1>9. Flow(<<>>, <<>>, "off")
  <2>1. Flat(plain, <<>>) = <<>>
    BY PlainGives, FlatLaws DEF Gives
  <2>2. "off" \in Mode
    BY DEF Mode
  <2>3. Walked(shift, "off", <<>>) = "off"
    BY <2>2, ShiftSteps, WalkedSteps
  <2>4. Settled(seen.thinking) = "off"
    BY <1>1 DEF Settled, Answer!Fresh
  <2>5. <<>> \in Seq(Delta) /\ <<>> \in Seq(Chunk)
    OBVIOUS
  <2> QED BY <1>1, <1>4, <1>6, <2>1, <2>2, <2>3, <2>4, <2>5 DEF Flow
<1>10. LaidIn(blocks, thinking, <<>>, "off")
  <2>1. Flat(bodyOf, <<>>) = <<>> /\ Flat(spoken, <<>>) = <<>>
    BY SpeechFlat
  <2>2. <<>> \in Seq(Block) /\ Len(<<>>) = 0
    OBVIOUS
  <2>3. Alternate(<<>>) /\ Filled(<<>>, "off") /\ LastKind(<<>>) = "none"
    BY <2>2 DEF Alternate, Filled, LastKind
  <2> QED BY <1>1, <2>1, <2>2, <2>3 DEF LaidIn
<1>11. CallsIn(partial, <<>>)
  <2>1. \A i \in {1, 2} : Flat(CallsOf(i), <<>>) = <<>> /\ Flat(ArgsOf(i), <<>>) = <<>>
    BY CallsFlat
  <2>2. \A i : ~NamedIn(<<>>, i)
    BY DEF NamedIn
  <2>3. \A i \in {1, 2} : Own(<<>>, i).id = "" /\ Own(<<>>, i).args = <<>>
    <3> DEFINE none == <<>>
    <3>1. Len(none) = 0 /\ ~(1 <= 0) /\ ~(2 <= 0)
      OBVIOUS
    <3> HIDE DEF none
    <3>2. \A i \in {1, 2} : Own(none, i) = Answer!NoCall
      BY <3>1 DEF Own
    <3>3. Answer!NoCall.id = "" /\ Answer!NoCall.args = <<>>
      BY DEF Answer!NoCall
    <3>4. \A i \in {1, 2} : Own(none, i).id = "" /\ Own(none, i).args = <<>>
      BY <3>2, <3>3
    <3> QED BY <3>4 DEF none
  <2>4. <<>> \in Seq(Call) /\ Len(<<>>) <= 2
    OBVIOUS
  <2>5. CallsIn(<<>>, <<>>)
    BY <2>1, <2>2, <2>3, <2>4, Zenon DEF CallsIn
  <2> QED BY <1>1, <2>5
<1>12. Far(<<>>)
  BY <1>1, <1>7, <1>8, <1>9, <1>10, <1>11 DEF Far, Underway
<1> QED BY <1>2, <1>12 DEF StreamInv

\* A result is good only while nothing has gone wrong.
LEMMA VerdictsStep ==
  ASSUME Verdicts, Answer!Next
  PROVE  Verdicts'
<1> SUFFICES ASSUME ~cancel' PROVE
      /\ pc' # "done" => fault' = "none" /\ result' # "ok"
      /\ result' = "ok" => fault' = "none"
      /\ outcome' = "complete" => result' = "ok" /\ at' = "done"
      /\ ~stopped' /\ result' # "complete"
  BY DEF Verdicts
<1>1. CASE Answer!Cancel
  BY <1>1 DEF Answer!Cancel
<1>2. CASE Answer!Server
  <2>1. cancel' = cancel /\ UNCHANGED <<outcome, at, stopped>>
    BY <1>2 DEF Answer!Server, Answer!Connect, Answer!Deliver, Answer!Close, Answer!Break, Answer!agent
  <2>2. \A e : Answer!Refused(e) \notin {"ok", "complete"}
    BY DEF Answer!Refused
  <2>3. \/ UNCHANGED <<result, fault>> /\ pc # "done"
        \/ pc # "done" /\ pc' = "done" /\ result' \notin {"ok", "complete"}
    <3>1. CASE Answer!Connect
      BY <2>2, <3>1 DEF Answer!Connect, Answer!End
    <3>2. CASE Answer!Close
      BY <3>2 DEF Answer!Close
    <3>3. CASE Answer!Break
      BY <3>3 DEF Answer!Break, Answer!End
    <3>4. CASE \E n \in 1 .. Len(net) : Answer!Deliver(n)
      BY <3>4 DEF Answer!Deliver
    <3> QED BY <1>2, <3>1, <3>2, <3>3, <3>4 DEF Answer!Server
  <2> QED BY <2>1, <2>3 DEF Verdicts
<1>3. CASE Answer!Provider
  <2>1. cancel' = cancel /\ UNCHANGED <<outcome, at, stopped>>
    BY <1>3 DEF Answer!Provider, Answer!TakeLine, Answer!TakeRest, Answer!Send, Answer!StopReading, Answer!agent
  <2>2. \/ UNCHANGED <<result, fault, pc>>
        \/ UNCHANGED <<result, fault>> /\ pc # "done"
        \/ pc # "done" /\ pc' = "done" /\ result' \notin {"ok", "complete"}
        \/ pc # "done" /\ pc' = "done" /\ result' # "complete" /\ fault' = fault
    <3>1. CASE Answer!TakeLine
      BY <3>1 DEF Answer!TakeLine, Answer!End
    <3>2. CASE Answer!TakeRest
      BY <3>2 DEF Answer!TakeRest, Answer!End, Answer!Verdict
    <3>3. CASE Answer!Send
      BY <3>3 DEF Answer!Send
    <3>4. CASE Answer!StopReading
      BY <2>1, <3>4 DEF Answer!StopReading
    <3> QED BY <1>3, <3>1, <3>2, <3>3, <3>4 DEF Answer!Provider
  <2> QED BY <2>1, <2>2 DEF Verdicts
<1>4. CASE Answer!Panic
  BY <1>4 DEF Verdicts, Answer!Panic, Answer!End, Answer!agent
<1>5. CASE Answer!Agent
  <2>1. UNCHANGED <<cancel, pc, fault, result>>
    BY <1>5 DEF Answer!Agent, Answer!Receive, Answer!Drained, Answer!Poll, Answer!Finish, Answer!provider
  <2>2. CASE Answer!Receive
    BY <2>1, <2>2 DEF Verdicts, Answer!Receive
  <2>3. CASE Answer!Drained
    BY <2>1, <2>3 DEF Verdicts, Answer!Drained
  <2>4. CASE Answer!Poll
    BY <2>1, <2>4 DEF Answer!Poll
  <2>5. CASE Answer!Finish
    BY <2>1, <2>5 DEF Verdicts, Answer!Finish, Answer!Outcome
  <2> QED BY <1>5, <2>2, <2>3, <2>4, <2>5 DEF Answer!Agent
<1> QED BY <1>1, <1>2, <1>3, <1>4, <1>5 DEF Answer!Next

\* A sequence is its head and its tail.
LEMMA FirstTaken ==
  ASSUME NEW S, NEW s \in Seq(S), s # <<>>, NEW t \in Seq(S)
  PROVE  /\ Head(s) \in S /\ Tail(s) \in Seq(S)
         /\ s \o t = <<Head(s)>> \o (Tail(s) \o t)
<1> DEFINE d == Head(s)
           r == Tail(s)
           h == <<d>>
<1>1. d \in S /\ r \in Seq(S)
  OBVIOUS
<1>2. s = h \o r
  <2>1. Len(s) \in Nat /\ Len(s) >= 1
    OBVIOUS
  <2>2. Len(r) = Len(s) - 1 /\ \A i \in 1 .. Len(s) - 1 : r[i] = s[i + 1]
    OBVIOUS
  <2>3. h \in Seq(S) /\ Len(h) = 1 /\ h[1] = s[1]
    BY <1>1
  <2> HIDE DEF r, h
  <2> DEFINE w == h \o r
  <2>4. w \in Seq(S) /\ Len(w) = Len(s)
        /\ \A i \in 1 .. Len(s) : w[i] = IF i <= 1 THEN h[i] ELSE r[i - 1]
    <3>1. w \in Seq(S) /\ Len(w) = Len(h) + Len(r)
          /\ \A j \in 1 .. Len(h) + Len(r) : w[j] = IF j <= Len(h) THEN h[j] ELSE r[j - Len(h)]
      BY <1>1, <2>3, ConcatProperties
    <3>2. Len(h) + Len(r) = Len(s)
      BY <2>1, <2>2, <2>3
    <3> HIDE DEF w
    <3> QED BY <2>3, <3>1, <3>2
  <2> HIDE DEF w
  <2>5. ASSUME NEW i \in 1 .. Len(s) PROVE w[i] = s[i]
    <3>1. CASE i = 1
      BY <2>1, <2>3, <2>4, <3>1
    <3>2. CASE i # 1
      <4>1. i - 1 \in 1 .. Len(s) - 1 /\ (i - 1) + 1 = i /\ ~(i <= 1)
        BY <2>1, <3>2
      <4> QED BY <2>2, <2>4, <4>1
    <3> QED BY <3>1, <3>2
  <2>6. s = w
    BY <2>4, <2>5, SeqEqual
  <2> QED BY <2>6 DEF w
<1>3. \A f, g, k \in Seq(S) : (f \o g) \o k = f \o (g \o k)
  OBVIOUS
<1>4. h \in Seq(S)
  BY <1>1
<1> HIDE DEF d, r, h
<1>5. (h \o r) \o t = h \o (r \o t)
  BY <1>1, <1>3, <1>4, Zenon
<1>6. s \o t = h \o (r \o t)
  BY <1>2, <1>5, Zenon
<1> QED BY <1>1, <1>6, Zenon DEF d, r, h

\* One chunk says what it says.
LEMMA PlainOne == \A d \in Chunk : Flat(plain, <<d>>) = plain[d]
<1> SUFFICES ASSUME NEW d \in Chunk PROVE Flat(plain, <<d>>) = plain[d]
  OBVIOUS
<1> QED BY PlainGives, FlatOfOne DEF Gives

\* A chunk that is received is laid and accumulated, and nothing else changes.
LEMMA ReceiveRuns ==
  ASSUME NEW c, NEW p, NEW m, Progress(c), Parsed(c), Flow(c, p, m),
         LaidIn(blocks, thinking, p, m), CallsIn(partial, p), Answer!Receive
  PROVE  Progress(c)' /\ Parsed(c)' /\ Underway(c)'
<1>1. /\ UNCHANGED <<net, got, pc, pending, buffer, seen, out, result, fault>>
      /\ chan # <<>> /\ chan' = Tail(chan)
  BY DEF Answer!Receive, Answer!provider
<1>2. p \in Seq(Delta) /\ m \in Mode /\ chan \in Seq(Chunk) /\ out \in Seq(Chunk) /\ seen \in Parse
  BY DEF Flow, Parsed
<1>3. PICK d : d = Head(chan)
  OBVIOUS
<1>4. PICK t : t = Tail(chan)
  OBVIOUS
<1>5. d \in Chunk /\ t \in Seq(Chunk) /\ chan \o out = <<d>> \o (t \o out)
  BY <1>1, <1>2, <1>3, <1>4, FirstTaken, Zenon
<1>6. PICK u : u = t \o out
  OBVIOUS
<1>7. u \in Seq(Chunk) /\ <<d>> \in Seq(Chunk)
  BY <1>2, <1>5, <1>6
<1>8. PICK q : q = p \o plain[d]
  OBVIOUS
<1>9. PICK k : k = Shift(m, d)
  OBVIOUS
<1>10. k \in Mode /\ k # "bad" /\ Walked(shift, k, u) = Settled(seen.thinking)
  <2>1. seen.thinking \in BOOLEAN
    BY <1>2 DEF Parse
  <2>2. Walked(shift, m, <<d>> \o u) = Settled(seen.thinking)
    BY <1>5, <1>6 DEF Flow
  <2> QED BY <1>2, <1>5, <1>7, <1>9, <2>1, <2>2, ShiftHead
<1>11. Heard(c) = q \o Flat(plain, u) /\ q \in Seq(Delta)
  <2>1. Flat(plain, <<d>> \o u) = Flat(plain, <<d>>) \o Flat(plain, u)
    BY <1>7, PlainOver, Zenon
  <2>2. Flat(plain, <<d>>) = plain[d]
    BY <1>5, PlainOne, Zenon
  <2>3. plain[d] \in Seq(Delta)
    BY <1>5, PlainGives DEF Gives
  <2>4. Flat(plain, u) \in Seq(Delta)
    BY <1>7, PlainGives, FlatLaws DEF Gives
  <2>5. \A f, g, h \in Seq(Delta) : (f \o g) \o h = f \o (g \o h) /\ f \o g \in Seq(Delta)
    OBVIOUS
  <2>6. p \o (plain[d] \o Flat(plain, u)) = (p \o plain[d]) \o Flat(plain, u)
    BY <1>2, <2>3, <2>4, <2>5, Zenon
  <2>7. Heard(c) = p \o Flat(plain, <<d>> \o u)
    BY <1>5, <1>6 DEF Flow
  <2> QED BY <1>2, <1>8, <2>1, <2>2, <2>3, <2>5, <2>6, <2>7, Zenon
<1>12. Flow(c, q, k)'
  <2>1. chan' \o out' = u /\ chan' \in Seq(Chunk) /\ seen' = seen
    BY <1>1, <1>4, <1>5, <1>6
  <2> QED BY <1>10, <1>11, <2>1 DEF Flow
<1>13. LaidIn(blocks', thinking', q, k)
  BY <1>2, <1>3, <1>5, <1>8, <1>9, <1>10, ReceiveLays
<1>14. CallsIn(partial', q)
  <2>1. CASE d \in Delta
    <3>1. q = Append(p, d)
      BY <1>2, <1>8, <2>1, SpokenMore
    <3>2. CASE d[1] = "call"
      <4>1. partial' = Answer!Accumulate(partial, d)
        BY <1>3, <3>2 DEF Answer!Receive
      <4> QED BY <1>2, <2>1, <3>1, <3>2, <4>1, CallsMore
    <3>3. CASE d[1] # "call"
      <4>1. partial' = partial
        BY <1>3, <2>1, <3>3, ChunkKinds DEF Answer!Receive
      <4> QED BY <1>2, <2>1, <3>1, <3>3, <4>1, CallsMore
    <3> QED BY <3>2, <3>3
  <2>2. CASE d \notin Delta
    <3>1. d[1] = "thinking"
      BY <1>5, <2>2, ChunkKinds
    <3>2. q = p
      <4>1. plain[d] = <<>>
        BY <1>5, <3>1, PlainGives
      <4>2. p \o <<>> = p
        BY <1>2
      <4> QED BY <1>8, <4>1, <4>2
    <3>3. partial' = partial
      BY <1>3, <3>1 DEF Answer!Receive
    <3> QED BY <3>2, <3>3
  <2> QED BY <2>1, <2>2
<1>15. Progress(c)' /\ Parsed(c)'
  BY <1>1 DEF Progress, Parsed
<1>16. LaidIn(blocks, thinking, q, k)' /\ CallsIn(partial, q)'
  BY <1>13, <1>14 DEF LaidIn, CallsIn
<1> QED BY <1>12, <1>15, <1>16 DEF Underway

\* At the end all that was said is laid out, each block filled.
LEMMA FinishAnswers ==
  ASSUME NEW c, Parsed(c), Underway(c), chan = <<>>, Answer!Finish
  PROVE  Answered(c)'
<1> PICK p, m : Flow(c, p, m) /\ LaidIn(blocks, thinking, p, m) /\ CallsIn(partial, p)
  BY DEF Underway
<1>1. /\ pc = "done" /\ partial' = Answer!Finalize(partial)
      /\ blocks' = Answer!Those(blocks, LAMBDA b : b.kind = "text" \/ b.body # <<>>)
  BY DEF Answer!Finish
<1>2. out = <<>> /\ p \in Seq(Delta) /\ m \in Mode
  BY <1>1 DEF Parsed, Flow
<1>3. chan \o out = <<>>
  BY <1>2
<1>4. Heard(c) = p
  <2>1. Flat(plain, <<>>) = <<>>
    BY PlainGives, FlatLaws DEF Gives
  <2>2. \A s \in Seq(Delta) : s \o <<>> = s
    OBVIOUS
  <2>3. Heard(c) = p \o Flat(plain, <<>>)
    BY <1>3 DEF Flow
  <2> QED BY <1>2, <2>1, <2>2, <2>3, Zenon
<1>5. m # "opened"
  <2>1. Walked(shift, m, <<>>) = m
    BY <1>2, ShiftSteps, WalkedSteps
  <2>2. m = Settled(seen.thinking)
    BY <1>3, <2>1 DEF Flow
  <2> QED BY <2>2 DEF Settled
<1>6. blocks' = blocks
  <2>1. blocks \in Seq(Block) /\ \A i \in 1 .. Len(blocks) : blocks[i].body # <<>>
    BY <1>5 DEF LaidIn, Filled
  <2> QED BY <1>1, <2>1, BlocksStay
<1>7. /\ blocks \in Seq(Block) /\ Alternate(blocks)
      /\ Flat(bodyOf, blocks) = Flat(spoken, Heard(c))
  BY <1>4 DEF LaidIn
<1>8. partial \in Seq(Call)
  BY DEF CallsIn
<1>9. partial' = Flat(kept, partial) /\ partial' \in Seq(Call)
  BY <1>1, <1>8, KeptIs
<1>10. ASSUME NEW i \in {1, 2}
       PROVE  LET own == Flat(With(Id(i)), partial')
              IN IF NamedIn(Flat(CallsOf(i), Heard(c)), i) /\ Answer!Parses(Flat(ArgsOf(i), Heard(c)))
                 THEN Len(own) = 1 /\ own[1].args = Flat(ArgsOf(i), Heard(c))
                 ELSE own = <<>>
  BY <1>4, <1>9, KeptOwn
<1> QED BY <1>6, <1>7, <1>9, <1>10 DEF Answered

\* While nothing is wrong the stream goes on as far as it is.
LEMMA FarStep ==
  ASSUME NEW c, Verdicts, Sound, Far(c), Answer!Next, Sound'
  PROVE  \E e : Far(e)'
<1>1. ~cancel /\ ~cancel' /\ fault = "none" /\ fault' = "none" /\ Progress(c) /\ Parsed(c)
  BY DEF Sound, Far
<1>2. at \in {"loop", "join", "done"} /\ (pc # "done" => at = "loop")
  BY DEF Far
<1>3. CASE Answer!Server
  <2>1. pc # "done" /\ UNCHANGED <<chan, at, blocks, partial, thinking>>
    <3>1. CASE Answer!Connect
      BY <3>1 DEF Answer!Connect, Answer!agent
    <3>2. CASE Answer!Close
      BY <3>2 DEF Answer!Close, Answer!agent
    <3>3. CASE Answer!Break
      BY <3>3 DEF Answer!Break, Answer!agent
    <3>4. CASE \E n \in 1 .. Len(net) : Answer!Deliver(n)
      BY <3>4 DEF Answer!Deliver, Answer!agent
    <3> QED BY <1>3, <3>1, <3>2, <3>3, <3>4 DEF Answer!Server
  <2>2. Progress(c)' /\ Parsed(c)'
    <3>1. CASE Answer!Connect
      BY <1>1, <3>1, ConnectRuns
    <3>2. CASE Answer!Close
      BY <1>1, <3>2, CloseRuns
    <3>3. CASE Answer!Break
      BY <1>1, <3>3 DEF Answer!Break
    <3>4. CASE \E n \in 1 .. Len(net) : Answer!Deliver(n)
      <4> PICK n \in 1 .. Len(net) : Answer!Deliver(n)
        BY <3>4
      <4>1. n \in Nat
        <5>1. Len(net) \in Nat
          BY <1>1 DEF Progress, Line
        <5> QED BY <5>1
      <4> QED BY <1>1, <4>1, DeliverRuns
    <3> QED BY <1>3, <3>1, <3>2, <3>3, <3>4 DEF Answer!Server
  <2>3. PICK p, m : Flow(c, p, m) /\ LaidIn(blocks, thinking, p, m) /\ CallsIn(partial, p)
    BY <1>2, <2>1 DEF Far, Underway
  <2>4. UNCHANGED <<out, seen>>
    BY <1>3 DEF Answer!Server, Answer!Connect, Answer!Close, Answer!Break, Answer!Deliver
  <2>5. Flow(c, p, m)' /\ LaidIn(blocks, thinking, p, m)' /\ CallsIn(partial, p)'
    BY <2>1, <2>3, <2>4 DEF Flow, LaidIn, CallsIn
  <2>6. Far(c)'
    BY <1>2, <2>1, <2>2, <2>5 DEF Far, Underway
  <2> QED BY <2>6
<1>4. CASE Answer!Provider
  <2>1. pc # "done" /\ UNCHANGED <<at, blocks, partial, thinking>>
    <3>1. CASE Answer!TakeLine
      BY <3>1 DEF Answer!TakeLine, Answer!agent
    <3>2. CASE Answer!TakeRest
      BY <3>2 DEF Answer!TakeRest, Answer!agent
    <3>3. CASE Answer!Send
      BY <1>1, <3>3 DEF Answer!Send, Answer!agent, Parsed
    <3>4. CASE Answer!StopReading
      BY <1>1, <3>4 DEF Answer!StopReading
    <3> QED BY <1>4, <3>1, <3>2, <3>3, <3>4 DEF Answer!Provider
  <2>2. PICK p, m : Flow(c, p, m) /\ LaidIn(blocks, thinking, p, m) /\ CallsIn(partial, p)
    BY <1>2, <2>1 DEF Far, Underway
  <2>3. \E e : Progress(e)' /\ Parsed(e)' /\ Flow(e, p, m)'
    <3>1. CASE Answer!TakeLine
      BY <1>1, <2>2, <3>1, TakeLineRuns
    <3>2. CASE Answer!TakeRest
      BY <1>1, <2>2, <3>2, TakeRestRuns
    <3>3. CASE Answer!Send
      <4>1. Progress(c)' /\ Parsed(c)' /\ Flow(c, p, m)'
        BY <1>1, <2>2, <3>3, SendRuns
      <4> QED BY <4>1
    <3>4. CASE Answer!StopReading
      BY <1>1, <3>4 DEF Answer!StopReading
    <3> QED BY <1>4, <3>1, <3>2, <3>3, <3>4 DEF Answer!Provider
  <2> PICK e : Progress(e)' /\ Parsed(e)' /\ Flow(e, p, m)'
    BY <2>3
  <2>4. LaidIn(blocks, thinking, p, m)' /\ CallsIn(partial, p)' /\ at' = "loop"
    BY <1>2, <2>1, <2>2 DEF LaidIn, CallsIn
  <2>5. Far(e)'
    BY <2>4 DEF Far, Underway
  <2> QED BY <2>5
<1>5. CASE Answer!Agent
  <2>1. CASE Answer!Receive
    <3>1. at = "loop" /\ at' = "loop"
      BY <2>1 DEF Answer!Receive
    <3>2. PICK p, m : Flow(c, p, m) /\ LaidIn(blocks, thinking, p, m) /\ CallsIn(partial, p)
      BY <3>1 DEF Far, Underway
    <3>3. Progress(c)' /\ Parsed(c)' /\ Underway(c)'
      BY <1>1, <2>1, <3>2, ReceiveRuns
    <3>4. Far(c)'
      BY <3>1, <3>3 DEF Far
    <3> QED BY <3>4
  <2>2. CASE Answer!Drained
    <3>1. /\ at = "loop" /\ at' = "join" /\ chan = <<>> /\ pc = "done"
          /\ UNCHANGED <<net, got, pc, pending, buffer, seen, out, result, fault, chan, blocks, partial, thinking>>
      BY <2>2 DEF Answer!Drained, Answer!provider
    <3>2. PICK p, m : Flow(c, p, m) /\ LaidIn(blocks, thinking, p, m) /\ CallsIn(partial, p)
      BY <3>1 DEF Far, Underway
    <3>3. Progress(c)' /\ Parsed(c)'
      BY <1>1, <3>1 DEF Progress, Parsed
    <3>4. Flow(c, p, m)' /\ LaidIn(blocks, thinking, p, m)' /\ CallsIn(partial, p)'
      BY <3>1, <3>2 DEF Flow, LaidIn, CallsIn
    <3>5. Far(c)'
      BY <3>1, <3>3, <3>4 DEF Far, Underway
    <3> QED BY <3>5
  <2>3. CASE Answer!Poll
    BY <1>1, <2>3 DEF Answer!Poll
  <2>4. CASE Answer!Finish
    <3>1. /\ at = "join" /\ at' = "done" /\ pc = "done"
          /\ UNCHANGED <<net, got, pc, pending, buffer, seen, out, result, fault, chan>>
      BY <2>4 DEF Answer!Finish, Answer!provider
    <3>2. Progress(c)' /\ Parsed(c)'
      BY <1>1, <3>1 DEF Progress, Parsed
    <3>3. Underway(c) /\ chan = <<>>
      BY <3>1 DEF Far
    <3>4. Answered(c)'
      BY <1>1, <2>4, <3>3, FinishAnswers
    <3>5. Far(c)'
      BY <3>1, <3>2, <3>4 DEF Far
    <3> QED BY <3>5
  <2> QED BY <1>5, <2>1, <2>2, <2>3, <2>4 DEF Answer!Agent
<1>6. CASE Answer!Cancel
  BY <1>1, <1>6 DEF Answer!Cancel
<1>7. CASE Answer!Panic
  BY <1>1, <1>7 DEF Answer!Panic
<1> QED BY <1>3, <1>4, <1>5, <1>6, <1>7 DEF Answer!Next

\* What has gone wrong stays so.
LEMMA WrongStays ==
  ASSUME Verdicts, Answer!Next, Sound'
  PROVE  Sound
<1>1. ~cancel
  <2>1. cancel => cancel'
    BY DEF Answer!Next, Answer!Cancel, Answer!Server, Answer!Connect, Answer!Close, Answer!Break, Answer!Deliver,
           Answer!Provider, Answer!TakeLine, Answer!TakeRest, Answer!Send, Answer!StopReading, Answer!Panic,
           Answer!Agent, Answer!Receive, Answer!Drained, Answer!Poll, Answer!Finish
  <2> QED BY <2>1 DEF Sound
<1>2. pc # "done" => fault = "none"
  BY <1>1 DEF Verdicts
<1>3. pc = "done" => fault' = fault
  BY DEF Answer!Next, Answer!Cancel, Answer!Server, Answer!Connect, Answer!Close, Answer!Break, Answer!Deliver,
         Answer!Provider, Answer!TakeLine, Answer!TakeRest, Answer!Send, Answer!StopReading, Answer!Panic,
         Answer!Agent, Answer!Receive, Answer!Drained, Answer!Poll, Answer!Finish, Answer!provider
<1> QED BY <1>1, <1>2, <1>3 DEF Sound

\* Every step of the program keeps this.
LEMMA StreamStep == StreamInv /\ [Next]_vars => StreamInv'
<1> SUFFICES ASSUME StreamInv, [Next]_vars PROVE StreamInv'
  OBVIOUS
<1>1. CASE part = "answer" /\ Answer!Next
  <2>1. Verdicts'
    BY <1>1, VerdictsStep DEF StreamInv
  <2>2. ASSUME Sound' PROVE \E c : Far(c)'
    <3>1. Sound
      BY <1>1, <2>2, WrongStays DEF StreamInv
    <3> PICK c : Far(c)
      BY <3>1 DEF StreamInv
    <3> QED BY <1>1, <2>2, <3>1, FarStep DEF StreamInv
  <2> QED BY <2>1, <2>2 DEF StreamInv
<1>2. CASE UNCHANGED streamVars
  <2>1. UNCHANGED <<net, got, pc, pending, buffer, seen, out, chan, result, fault,
                    at, blocks, partial, usage, thinking, shown, stopped, cancel, outcome>>
    BY <1>2 DEF streamVars
  <2>2. Verdicts'
    BY <2>1 DEF StreamInv, Verdicts
  <2>3. ASSUME Sound' PROVE \E c : Far(c)'
    <3>1. Sound
      BY <2>1, <2>3 DEF Sound
    <3> PICK c : Far(c)
      BY <3>1 DEF StreamInv
    <3>2. Progress(c)' /\ Parsed(c)'
      BY <2>1 DEF Far, Progress, Parsed
    <3>3. Underway(c) => Underway(c)'
      <4> SUFFICES ASSUME NEW p, NEW m, Flow(c, p, m), LaidIn(blocks, thinking, p, m), CallsIn(partial, p)
                   PROVE  Flow(c, p, m)' /\ LaidIn(blocks, thinking, p, m)' /\ CallsIn(partial, p)'
        BY DEF Underway
      <4> QED BY <2>1 DEF Flow, LaidIn, CallsIn
    <3>4. Answered(c) => Answered(c)'
      BY <2>1 DEF Answered
    <3>5. Far(c)'
      BY <2>1, <3>2, <3>3, <3>4 DEF Far
    <3> QED BY <3>5
  <2> QED BY <2>2, <2>3 DEF StreamInv
<1>3. Next => (part = "answer" /\ Answer!Next) \/ UNCHANGED streamVars
  BY DEF Next, Send, Receive, Configure
<1>4. UNCHANGED vars => UNCHANGED streamVars
  BY DEF vars
<1> QED BY <1>1, <1>2, <1>3, <1>4

\* What is complete was all read, and well.
LEMMA CompleteIs ==
  ASSUME StreamInv, Answer!Complete
  PROVE  /\ fault = "none"
         /\ Answer!Said \in Seq(Delta) /\ Tells(Answer!Said)
         /\ blocks \in Seq(Block) /\ partial \in Seq(Call) /\ Alternate(blocks)
         /\ Flat(bodyOf, blocks) = Flat(spoken, Answer!Said)
         /\ \A i \in {1, 2} :
              LET own == Flat(With(Id(i)), partial)
              IN IF NamedIn(Flat(CallsOf(i), Answer!Said), i) /\ Answer!Parses(Flat(ArgsOf(i), Answer!Said))
                 THEN Len(own) = 1 /\ own[1].args = Flat(ArgsOf(i), Answer!Said)
                 ELSE own = <<>>
<1>1. /\ ~cancel /\ fault = "none" /\ result = "ok" /\ at = "done"
  BY DEF StreamInv, Verdicts, Answer!Complete
<1> PICK c : Far(c)
  BY <1>1 DEF StreamInv, Sound
<1>2. Progress(c) /\ Parsed(c) /\ Answered(c) /\ pc = "done"
  BY <1>1 DEF Far
<1>3. c \in Line /\ Answer!Lossy(got) = c \o <<>>
  BY <1>2 DEF Progress
<1>4. c \o <<>> = c
  BY <1>3 DEF Line
<1>5. Answer!Said = Heard(c)
  BY <1>3, <1>4, SaidIsHeard
<1>6. Tells(Heard(c))
  BY <1>1, <1>2 DEF Parsed
<1>7. Heard(c) \in Seq(Delta)
  BY <1>3, ToldSteps
<1> QED BY <1>1, <1>2, <1>5, <1>6, <1>7, Zenon DEF Answered

\* Nothing had gone wrong, and something was told.
LEMMA FailureIsSeen == StreamInv => FailureSurfaces
<1> SUFFICES ASSUME StreamInv, Answer!Complete
             PROVE  fault = "none" /\ \E i \in DOMAIN Answer!Said : Answer!Said[i][1] # "usage"
  BY DEF FailureSurfaces, Answer!FailureSurfaces
<1> QED BY CompleteIs DEF Tells

\* What the blocks show, and what is spoken.
LEMMA BlocksShow ==
  ASSUME NEW bs \in Seq(Block)
  PROVE  Answer!FlattenSeq([i \in DOMAIN bs |-> [j \in DOMAIN bs[i].body |-> <<bs[i].kind, bs[i].body[j]>>]])
           = Flat(bodyOf, bs)
<1>1. \A i \in DOMAIN bs : bs[i] \in Block
  OBVIOUS
<1>2. \A i \in DOMAIN bs : bodyOf[bs[i]] = [j \in DOMAIN bs[i].body |-> <<bs[i].kind, bs[i].body[j]>>]
  BY <1>1, SpeechGiven
<1>3. [i \in DOMAIN bs |-> [j \in DOMAIN bs[i].body |-> <<bs[i].kind, bs[i].body[j]>>]]
        = [i \in DOMAIN bs |-> bodyOf[bs[i]]]
  BY <1>2
<1> QED BY <1>3, SameFlatten DEF Flat

\* The program's own reading of the bytes, as passes over its deltas.
LEMMA SpokenIs ==
  ASSUME Answer!Said \in Seq(Delta)
  PROVE  /\ Answer!Spoken = Flat(spoken, Answer!Said)
         /\ \A i \in {1, 2} : Answer!Calls(i) = Flat(CallsOf(i), Answer!Said)
<1> DEFINE s == Answer!Said
<1>1. \A k \in DOMAIN s : s[k] \in Delta
  OBVIOUS
<1>2. Answer!Spoken = Answer!FlattenSeq([k \in DOMAIN s |-> IF s[k][1] \in {"text", "reason"} THEN <<s[k]>> ELSE <<>>])
  BY DEF Answer!Spoken, Answer!Those
<1>3. \A i : Answer!Calls(i)
          = Answer!FlattenSeq([k \in DOMAIN s |-> IF s[k][1] = "call" /\ s[k][2] = i THEN <<s[k]>> ELSE <<>>])
  BY DEF Answer!Calls, Answer!Those
<1> HIDE DEF s
<1>4. [k \in DOMAIN s |-> IF s[k][1] \in {"text", "reason"} THEN <<s[k]>> ELSE <<>>]
        = [k \in DOMAIN s |-> spoken[s[k]]]
  BY <1>1, SpeechGiven
<1>5. Answer!Spoken = Flat(spoken, s)
  BY <1>2, <1>4, SameFlatten DEF Flat
<1>6. ASSUME NEW i \in {1, 2} PROVE Answer!Calls(i) = Flat(CallsOf(i), s)
  <2> DEFINE f == CallsOf(i)
  <2>1. \A d \in Delta : f[d] = IF d[1] = "call" /\ d[2] = i THEN <<d>> ELSE <<>>
    BY CallsGiven
  <2> HIDE DEF f
  <2>2. [k \in DOMAIN s |-> IF s[k][1] = "call" /\ s[k][2] = i THEN <<s[k]>> ELSE <<>>]
          = [k \in DOMAIN s |-> f[s[k]]]
    BY <1>1, <2>1
  <2> QED BY <1>3, <2>2, SameFlatten DEF Flat, f
<1> QED BY <1>5, <1>6 DEF s

\* The fragments of a call are those of its deltas.
argsOf == [d \in CallDelta |-> d[4]]
\* They are what was accumulated.
LEMMA FragmentsOf ==
  ASSUME NEW s \in Seq(Delta), NEW i \in {1, 2}, NEW calls, calls = Flat(CallsOf(i), s)
  PROVE  /\ calls \in Seq(CallDelta)
         /\ Answer!FlattenSeq([k \in DOMAIN calls |-> calls[k][4]]) = Flat(ArgsOf(i), s)
<1> DEFINE X == CallDelta
           Z == {"{", "}"}
           f == CallsOf(i)
           h == ArgsOf(i)
<1>1. \A d \in X : d \in Delta /\ d[4] \in Seq(Z) /\ argsOf[d] = d[4]
  BY CallFacts DEF CallDelta, Fragment, argsOf
<1>2. argsOf \in [X -> Seq(Z)]
  BY <1>1 DEF argsOf
<1>3. /\ Gives(Delta, X, f) /\ Gives(Delta, Z, h)
      /\ \A d \in Delta : /\ f[d] = IF d[1] = "call" /\ d[2] = i THEN <<d>> ELSE <<>>
                          /\ h[d] = IF d[1] = "call" /\ d[2] = i THEN d[4] ELSE <<>>
  BY CallsGiven
<1>4. \A d \in Delta : d[1] = "call" => d \in X
  BY CallFacts
<1> HIDE DEF X, Z, f, h
<1>5. calls \in Seq(X)
  <2>1. Flat(f, s) \in Seq(X)
    BY <1>3, FlatLaws DEF Gives
  <2> QED BY <2>1 DEF f
<1>6. ASSUME NEW d \in Delta PROVE h[d] = Flat(argsOf, f[d])
  <2>1. CASE d[1] = "call" /\ d[2] = i
    <3>1. Flat(argsOf, <<d>>) = argsOf[d]
      BY <1>2, <1>4, <2>1, FlatOfOne DEF Gives
    <3> QED BY <1>1, <1>3, <1>4, <2>1, <3>1
  <2>2. CASE ~(d[1] = "call" /\ d[2] = i)
    <3>1. Flat(argsOf, <<>>) = <<>>
      BY <1>2, FlatLaws
    <3>2. h[d] = <<>> /\ f[d] = <<>>
      BY <1>3, <2>2
    <3> QED BY <3>1, <3>2
  <2> QED BY <2>1, <2>2
<1>7. Composed(Delta, X, Z, f, argsOf, h)
  BY <1>2, <1>3, <1>6 DEF Composed, Gives
<1>8. Flat(argsOf, Flat(f, s)) = Flat(h, s)
  BY <1>7, FlatTwice
<1>9. Answer!FlattenSeq([k \in DOMAIN calls |-> calls[k][4]]) = Flat(argsOf, calls)
  <2>1. \A k \in DOMAIN calls : argsOf[calls[k]] = calls[k][4]
    BY <1>1, <1>5
  <2>2. [k \in DOMAIN calls |-> calls[k][4]] = [k \in DOMAIN calls |-> argsOf[calls[k]]]
    BY <2>1
  <2> QED BY <2>2, SameFlatten DEF Flat
<1> QED BY <1>5, <1>8, <1>9 DEF X, f, h

\* The answer is what was said.
LEMMA AnswerIsWhole == StreamInv => Unsplit
<1> SUFFICES ASSUME StreamInv, Answer!Complete PROVE Unsplit
  BY DEF Unsplit, Answer!Unsplit
<1>1. /\ Answer!Said \in Seq(Delta)
      /\ blocks \in Seq(Block) /\ partial \in Seq(Call) /\ Alternate(blocks)
      /\ Flat(bodyOf, blocks) = Flat(spoken, Answer!Said)
  BY CompleteIs
<1>2. Answer!FlattenSeq([i \in DOMAIN blocks |-> [j \in DOMAIN blocks[i].body |->
              <<blocks[i].kind, blocks[i].body[j]>>]]) = Answer!Spoken
  BY <1>1, BlocksShow, SpokenIs
<1>3. \A i \in 1 .. Len(blocks) - 1 : blocks[i].kind # blocks[i + 1].kind
  BY <1>1 DEF Alternate
<1>4. ASSUME NEW c \in {"id1", "id2"}
      PROVE  LET i == IF c = "id1" THEN 1 ELSE 2
                 own == Answer!Those(partial, LAMBDA p : p.id = c)
                 args == Answer!FlattenSeq([k \in DOMAIN Answer!Calls(i) |-> Answer!Calls(i)[k][4]])
             IN IF (\E k \in DOMAIN Answer!Calls(i) : Answer!Calls(i)[k][3] = c) /\ Answer!Parses(args)
                THEN Len(own) = 1 /\ own[1].args = args
                ELSE own = <<>>
  <2> DEFINE i == IF c = "id1" THEN 1 ELSE 2
             own == Answer!Those(partial, LAMBDA p : p.id = c)
             calls == Answer!Calls(i)
  <2>1. i \in {1, 2} /\ Id(i) = c
    BY DEF Id
  <2>2. own = Flat(With(Id(i)), partial)
    <3>1. own = Answer!FlattenSeq([k \in DOMAIN partial |-> IF partial[k].id = c THEN <<partial[k]>> ELSE <<>>])
      BY DEF Answer!Those
    <3> DEFINE g == With(c)
    <3>2. \A x \in Call : g[x] = IF x.id = c THEN <<x>> ELSE <<>>
      BY KeptGiven
    <3>3. \A k \in DOMAIN partial : partial[k] \in Call
      BY <1>1
    <3> HIDE DEF g, own, i
    <3>4. [k \in DOMAIN partial |-> IF partial[k].id = c THEN <<partial[k]>> ELSE <<>>]
            = [k \in DOMAIN partial |-> g[partial[k]]]
      BY <3>2, <3>3
    <3>5. own = Flat(g, partial)
      BY <3>1, <3>4, SameFlatten DEF Flat
    <3> QED BY <2>1, <3>5, Zenon DEF g
  <2> HIDE DEF i, own
  <2>3. calls = Flat(CallsOf(i), Answer!Said)
    BY <1>1, <2>1, SpokenIs
  <2>4. Answer!FlattenSeq([k \in DOMAIN calls |-> calls[k][4]]) = Flat(ArgsOf(i), Answer!Said)
    <3> HIDE DEF calls
    <3> QED BY <1>1, <2>1, <2>3, FragmentsOf
  <2>5. NamedIn(calls, i) <=> \E k \in DOMAIN calls : calls[k][3] = c
    BY <2>1 DEF NamedIn
  <2>6. IF NamedIn(calls, i) /\ Answer!Parses(Flat(ArgsOf(i), Answer!Said))
        THEN Len(own) = 1 /\ own[1].args = Flat(ArgsOf(i), Answer!Said) ELSE own = <<>>
    BY <2>1, <2>2, <2>3, CompleteIs, Zenon
  <2> DEFINE args == Answer!FlattenSeq([k \in DOMAIN calls |-> calls[k][4]])
  <2>7. IF (\E k \in DOMAIN calls : calls[k][3] = c) /\ Answer!Parses(args)
        THEN Len(own) = 1 /\ own[1].args = args
        ELSE own = <<>>
    BY <2>4, <2>5, <2>6, Zenon
  <2> QED BY <2>7 DEF i, own
<1> QED BY <1>2, <1>3, <1>4 DEF Unsplit, Answer!Unsplit

(* However the network splits lines and characters, a complete answer is   *)
(* that of the same bytes in one piece: its blocks, their kinds in turn,   *)
(* and each call with its own fragments (sse.rs, streaming.rs).            *)
THEOREM AnswersStayUnsplit == Spec => []Unsplit
<1> QED BY StreamStart, StreamStep, AnswerIsWhole, PTL DEF Spec

(* A response is complete only when nothing went wrong behind it and       *)
(* something was received (sse.rs parse_sse_stream, OneshotGuard).         *)
THEOREM FailuresSurface == Spec => []FailureSurfaces
<1> QED BY StreamStart, StreamStep, FailureIsSeen, PTL DEF Spec
=============================================================================
