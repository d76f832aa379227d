------------------------------- MODULE MCTools -------------------------------
(* Every text of up to four characters under all single edits, and every   *)
(* text of up to three, with each line ending, under all pairs of edits;   *)
(* the texts to find have up to two characters, one of a pair has one.     *)
EXTENDS Tools, SequencesExt
Texts(n) == BoundedSeq({"a", "sp", "nl", "x"}, n)
Dos(t) == FlattenSeq([i \in DOMAIN t |-> IF t[i] = "nl" THEN <<"cr", "nl">> ELSE <<t[i]>>])
Short ==
    Texts(3) \cup {Dos(t) : t \in Texts(2)}
             \cup {<<"bom">> \o t : t \in BoundedSeq({"a", "nl"}, 2)}
MCCalls ==
    [text : Texts(4) \cup Short,
     edits : {<<[old |-> o, new |-> n]>> : o \in Texts(2), n \in {<<"a">>, <<"b", "nl", "b">>}}]
    \cup
    [text : Short,
     edits : {<<[old |-> o, new |-> <<"b", "b", "b">>], [old |-> p, new |-> <<>>]>> :
                  o \in Texts(2) \ {<<>>}, p \in Texts(1) \ {<<>>}} \cup
             {<<[old |-> p, new |-> <<>>], [old |-> o, new |-> <<"b", "b", "b">>]>> :
                  o \in Texts(2) \ {<<>>}, p \in Texts(1) \ {<<>>}}]
MCReadFiles == BoundedSeq({0, 1, 2, 4}, 4)
MCFileOf == [p \in {"f", "./f"} |-> "f"]
=============================================================================
