--------------------------------- MODULE Lists --------------------------------
(* What the code does with iterators over a list: fold, filter and dedup.  *)
EXTENDS Naturals, Sequences, SequencesExt

Through(Step(_, _), start, s) ==
    LET so[i \in 0 .. Len(s)] == IF i = 0 THEN start ELSE Step(so[i - 1], s[i])
    IN so[Len(s)]

Those(s, Test(_)) == FlattenSeq([i \in DOMAIN s |-> IF Test(s[i]) THEN <<s[i]>> ELSE <<>>])

(* Every element where it comes first.                                     *)
Once(s) ==
    FlattenSeq([i \in DOMAIN s |-> IF \E j \in 1 .. i - 1 : s[j] = s[i] THEN <<>> ELSE <<s[i]>>])
=============================================================================
