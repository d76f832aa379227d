------------------------------ MODULE EditDiff ------------------------------
(***************************************************************************)
(* tools/edit.rs and tools/edit_diff.rs: one call of the edit tool, from   *)
(* the bytes it reads to the bytes it writes.  Every edit is looked up in  *)
(* the file as it was; one that is not found exactly is looked up in a     *)
(* normalised copy, and the lines it touches are then taken from there.    *)
(* "x" stands for a character that normalisation replaces by two others.   *)
(***************************************************************************)
EXTENDS Naturals, Sequences, SequencesExt, FiniteSets, FiniteSetsExt, Functions, Lists

CONSTANTS
    Letters,    \* the characters that are not treated in any way
    Calls,      \* [text, edits]: the bytes of a file, and a sequence of [old, new]
    NoOutcome

VARIABLES raw, edits, outcome
vars == <<raw, edits, outcome>>

Chars == Letters \cup {"a", "sp", "nl", "cr", "bom", "x"}
EditAssumption ==
    \A c \in Calls : c.text \in Seq(Chars) /\ c.edits \in Seq([old : Seq(Chars), new : Seq(Chars)])

-----------------------------------------------------------------------------
(* Byte order mark and line endings.                                       *)

HadBom(t) == t # <<>> /\ t[1] = "bom"
StripBom(t) == IF HadBom(t) THEN Tail(t) ELSE t

Count(t, S) == Cardinality({i \in DOMAIN t : i \in S})
Crlfs(t) == {i \in DOMAIN t : t[i] = "nl" /\ i > 1 /\ t[i - 1] = "cr"}
Newlines(t) == {i \in DOMAIN t : t[i] = "nl"}

DetectLineEnding(t) ==
    LET crlf == Count(t, Crlfs(t))
        bareLf == Count(t, Newlines(t)) - crlf
    IN IF crlf >= bareLf /\ crlf > 0 THEN "crlf" ELSE "lf"

NormalizeToLf(t) ==
    FlattenSeq([i \in DOMAIN t |->
        IF t[i] # "cr" THEN <<t[i]>>
        ELSE IF i < Len(t) /\ t[i + 1] = "nl" THEN <<>> ELSE <<"nl">>])

RestoreLineEndings(t, ending) ==
    FlattenSeq([i \in DOMAIN t |->
        IF t[i] = "nl" /\ ending = "crlf" THEN <<"cr", "nl">> ELSE <<t[i]>>])

(* nfkc and the replacements, then trim_end of every line.                 *)
NormalizeForFuzzy(t) ==
    LET u == FlattenSeq([i \in DOMAIN t |-> IF t[i] = "x" THEN <<"a", "a">> ELSE <<t[i]>>])
        Trimmed(i) == \E j \in i .. Len(u) :
                          /\ \A k \in i .. j : u[k] \in {"sp", "cr"}
                          /\ j = Len(u) \/ u[j + 1] = "nl"
    IN FlattenSeq([i \in DOMAIN u |-> IF Trimmed(i) THEN <<>> ELSE <<u[i]>>])

-----------------------------------------------------------------------------
(* Searching.                                                              *)

Places(t, o) == {i \in 1 .. Len(t) + 1 - Len(o) : SubSeq(t, i, i + Len(o) - 1) = o}

(* fuzzy_find_text, of a text that need not be there: at is 0 then.        *)
FuzzyFindText(t, o) ==
    LET n == NormalizeForFuzzy(t)
        m == NormalizeForFuzzy(o)
    IN IF Places(t, o) # {} THEN [at |-> Min(Places(t, o)), len |-> Len(o), fuzzy |-> FALSE]
       ELSE IF Places(n, m) # {} THEN [at |-> Min(Places(n, m)), len |-> Len(m), fuzzy |-> TRUE]
       ELSE [at |-> 0, len |-> 0, fuzzy |-> FALSE]

(* split(..).count() - 1 counts from left to right without overlaps.       *)
FuzzyCountOccurrences(t, o) ==
    LET n == NormalizeForFuzzy(t)
        m == NormalizeForFuzzy(o)
        from[i \in 1 .. Len(n) + 1] ==
            LET later == {j \in Places(n, m) : j >= i}
            IN IF later = {} THEN 0 ELSE 1 + from[Min(later) + Len(m)]
    IN IF m = <<>> THEN 0 ELSE from[1]

-----------------------------------------------------------------------------
(* Replacing.  A replacement is [at, len, new]; lists are sorted by place. *)

Replaced(t, r) == SubSeq(t, 1, r.at - 1) \o r.new \o SubSeq(t, r.at + r.len, Len(t))

(* A mutant: from the first to the last, at places that have moved.        *)
FaultApplyReplacements(t, rs) == Through(Replaced, t, rs)

ApplyReplacements(t, rs) == Through(Replaced, t, Reverse(rs))

(* Two replacements at one place stay in the order of the call.            *)
ByPlace(rs) ==
    LET Rank(i) == Cardinality({j \in DOMAIN rs :
                                   rs[j].at < rs[i].at \/ (rs[j].at = rs[i].at /\ j <= i)})
    IN [k \in DOMAIN rs |-> rs[CHOOSE i \in DOMAIN rs : Rank(i) = k]]

LineOf(t, i) == 1 + Cardinality({j \in Newlines(t) : j < i})
LineCount(t) == IF t = <<>> THEN 0 ELSE LineOf(t, Len(t))
LineStart(t, n) == Min({i \in DOMAIN t : LineOf(t, i) = n} \cup {Len(t) + 1})

(* Lines from to to - 1, and the lines a replacement touches.              *)
LinesOf(t, from, to) == SubSeq(t, LineStart(t, from), LineStart(t, to) - 1)
FirstLine(base, r) == LineOf(base, r.at)
LastLine(base, r) == IF r.len = 0 THEN FirstLine(base, r) ELSE LineOf(base, r.at + r.len - 1)

(* Replacements whose lines meet form a group, which is rewritten in the   *)
(* normalised text; the lines between groups come from the original.       *)
Groups(base, rs) ==
    LET Join(gs, r) ==
            IF gs # <<>> /\ FirstLine(base, r) <= Last(gs).last
            THEN Front(gs) \o <<[first |-> Last(gs).first,
                                 last |-> Max({Last(gs).last, LastLine(base, r)}),
                                 rs |-> Append(Last(gs).rs, r)]>>
            ELSE Append(gs, [first |-> FirstLine(base, r), last |-> LastLine(base, r),
                             rs |-> <<r>>])
    IN Through(Join, <<>>, rs)

(* A mutant: the whole normalised text is written.                         *)
FaultApplyPreservingLines(original, base, rs) == ApplyReplacements(base, rs)

ApplyPreservingLines(original, base, rs) ==
    LET gs == Groups(base, rs)
        start(g) == LineStart(base, g.first)
        rewritten(g) ==
            ApplyReplacements(LinesOf(base, g.first, g.last + 1),
                              [i \in DOMAIN g.rs |-> [g.rs[i] EXCEPT !.at = @ - start(g) + 1]])
        Rewrite(acc, g) ==
            [text |-> acc.text \o LinesOf(original, acc.line, g.first) \o rewritten(g),
             line |-> g.last + 1]
        done == Through(Rewrite, [text |-> <<>>, line |-> 1], gs)
    IN done.text \o LinesOf(original, done.line, LineCount(original) + 1)

Failed(e) == [error |-> e, base |-> <<>>, text |-> <<>>, places |-> <<>>]

(* What the text becomes, unless the edits change nothing.                 *)
Changed(base, rs, text) ==
    IF base = text THEN Failed("NoChange")
    ELSE [error |-> "none", base |-> base, text |-> text, places |-> rs]

(* The replacements, sorted by place.                                      *)
Replace(content, base, rs, usedFuzzy) ==
    IF \E i \in 2 .. Len(rs) : rs[i].at < rs[i - 1].at + rs[i - 1].len THEN Failed("Overlapping")
    ELSE IF ~usedFuzzy THEN Changed(base, rs, ApplyReplacements(content, rs))
    ELSE IF LineCount(base) # LineCount(content) \/ base = <<>> THEN Failed("InternalMismatch")
    ELSE Changed(base, rs, ApplyPreservingLines(content, base, rs))

(* The place of every edit in the text that is searched for all of them.   *)
Locate(content, base, es, places, usedFuzzy) ==
    IF \E i \in DOMAIN es : places[i].at = 0 THEN Failed("NotFound")
    ELSE IF \E i \in DOMAIN es : FuzzyCountOccurrences(base, es[i].old) > 1 THEN Failed("NotUnique")
    ELSE Replace(content, base,
                 ByPlace([i \in DOMAIN es |->
                             [at |-> places[i].at, len |-> places[i].len, new |-> es[i].new]]),
                 usedFuzzy)

(* One fuzzy match, and all are searched in the normalised text.           *)
Resolve(content, es, found) ==
    LET base == NormalizeForFuzzy(content)
    IN IF \E i \in DOMAIN es : found[i].at = 0 THEN Failed("NotFound")
       ELSE IF \A i \in DOMAIN es : ~found[i].fuzzy THEN Locate(content, content, es, found, FALSE)
       ELSE Locate(content, base, es,
                   [i \in DOMAIN es |-> IF found[i].fuzzy THEN found[i] ELSE FuzzyFindText(base, es[i].old)],
                   TRUE)

(* apply_edits, error by error in the order of the code.                   *)
ApplyEdits(content, es) ==
    IF \E i \in DOMAIN es : es[i].old = <<>> THEN Failed("EmptyOldText")
    ELSE Resolve(content, es, [i \in DOMAIN es |-> FuzzyFindText(content, es[i].old)])

(* What execute writes, byte order mark and line endings restored.         *)
Edited(t, applied) ==
    (IF HadBom(t) THEN <<"bom">> ELSE <<>>)
        \o RestoreLineEndings(applied.text, DetectLineEnding(StripBom(t)))

-----------------------------------------------------------------------------
Init ==
    /\ \E c \in Calls : raw = c.text /\ edits = c.edits
    /\ outcome = NoOutcome

Content == NormalizeToLf(StripBom(raw))

Accept ==
    /\ outcome = NoOutcome
    /\ \E applied \in {ApplyEdits(Content, edits)} :
          applied.error = "none" /\ outcome' = [applied |-> applied, file |-> Edited(raw, applied)]
    /\ UNCHANGED <<raw, edits>>

Reject ==
    /\ outcome = NoOutcome
    /\ \E applied \in {ApplyEdits(Content, edits)} :
          applied.error # "none" /\ outcome' = [applied |-> applied, file |-> raw]
    /\ UNCHANGED <<raw, edits>>

Next == Accept \/ Reject
Spec == Init /\ [][Next]_vars

Accepted == outcome # NoOutcome /\ outcome.applied.error = "none"
Exact == \A i \in DOMAIN edits : Places(Content, edits[i].old) # {}
-----------------------------------------------------------------------------
(* Edits found exactly replace their texts all at once: what lies before,  *)
(* between and after the places is as it was, whatever the order in which  *)
(* the call lists the edits and however their lengths change.              *)
EditsAtOnce ==
    Accepted /\ Exact =>
        \E order \in {p \in [DOMAIN edits -> DOMAIN edits] : IsInjective(p)} :
        \E cut \in [DOMAIN edits -> 0 .. Len(Content)] :
            LET e(k) == edits[order[k]]
                end(k) == IF k = 0 THEN 0 ELSE cut[k] + Len(e(k).old)
                kept(k) == SubSeq(Content, end(k) + 1, IF k = Len(edits) THEN Len(Content) ELSE cut[k + 1])
            IN /\ \A k \in DOMAIN edits : cut[k] + 1 \in Places(Content, e(k).old)
               /\ \A k \in 0 .. Len(edits) - 1 : end(k) <= cut[k + 1]
               /\ outcome.applied.text =
                      FlattenSeq([k \in DOMAIN edits |-> kept(k - 1) \o e(k).new]) \o kept(Len(edits))

(* A fuzzy match changes no line it does not touch: such a line keeps its  *)
(* own bytes, although it was looked up in the normalised text.            *)
UntouchedLinesKept ==
    Accepted =>
        LET rs == outcome.applied.places
            first(i) == FirstLine(outcome.applied.base, rs[i])
            last(i) == LastLine(outcome.applied.base, rs[i])
        IN /\ IsPrefix(LinesOf(Content, 1, first(1)), outcome.applied.text)
           /\ IsSuffix(LinesOf(Content, last(Len(rs)) + 1, LineCount(Content) + 1), outcome.applied.text)
           /\ \A i \in 2 .. Len(rs) :
                  Places(outcome.applied.text, LinesOf(Content, last(i - 1) + 1, first(i))) # {}

(* edit.rs:31: "Every edits[].oldText must match a unique, non-overlapping *)
(* region of the original file."                                           *)
MatchesUnique ==
    Accepted => \A i \in DOMAIN edits :
        Cardinality(Places(NormalizeForFuzzy(Content), NormalizeForFuzzy(edits[i].old))) = 1
=============================================================================
