------------------------------ MODULE ReadTool ------------------------------
(***************************************************************************)
(* tools/read.rs: a file is read page by page.  A page has at most         *)
(* MaxLines lines (or the limit the call gives) and MaxBytes bytes, and    *)
(* ends with the offset to continue from.  A line is its length here.      *)
(* Whoever reads follows that offset, and goes past a line that is too     *)
(* long for any page as the message about it says.                         *)
(***************************************************************************)
EXTENDS Naturals, Sequences, SequencesExt, FiniteSets, FiniteSetsExt

CONSTANTS ReadFiles, MaxLines, MaxBytes, Limits

\* What an offset, a limit and a length in bytes are (usize).
ReadAssumption ==
    /\ ReadFiles \subseteq Seq(Nat)
    /\ Limits \subseteq Nat /\ MaxLines \in Nat

VARIABLES
    from,    \* the offset the reader begins with
    lines,   \* the lengths of the file's lines
    limit,   \* the limit of the calls
    next,    \* the offset of the next call, 0 once there is nothing to continue
    pages,   \* the pages given: [first, last, text, kind]
    refused  \* a call was answered with an error
vars == <<from, lines, limit, next, pages, refused>>

Total == Len(lines)
Sum(s) == FoldSeq(LAMBDA a, b : a + b, 0, s)

(* The bytes of a page from line a to line b: one newline between lines,   *)
(* and none before the first line of the output.                           *)
Bytes(a, b) == Sum(SubSeq(lines, a, b)) + (b - a)

(* A mutant: the newlines between the lines are not counted.               *)
FaultPageEnd(a) ==
    Max({a - 1} \cup {b \in a .. Total : b - a < limit /\ \A c \in a .. b : Sum(SubSeq(lines, a, c)) <= MaxBytes})

(* The last line of a page that starts with line a.                        *)
PageEnd(a) ==
    Max({a - 1} \cup {b \in a .. Total : b - a < limit /\ \A c \in a .. b : Bytes(a, c) <= MaxBytes})

(* Empty lines at the end of a page are not printed.                       *)
Printed(a, b) == {n \in a .. b : \E m \in n .. b : lines[m] > 0}

Init ==
    /\ lines \in ReadFiles
    /\ limit \in Limits \cup {MaxLines}
    /\ from \in 1 .. Total + 1 /\ next = from
    /\ pages = <<>> /\ refused = FALSE

(* An offset past the end is an error; a reader that begins with the first *)
(* line gives no offset, so an empty file is none.                         *)
Refuse ==
    /\ next > Total /\ ~(from = 1 /\ pages = <<>>)
    /\ refused' = TRUE /\ next' = 0
    /\ UNCHANGED <<from, lines, limit, pages>>

(* Nothing was selected, and the line alone is too much.                   *)
TooLong == next \in 1 .. Total /\ PageEnd(next) < next /\ lines[next] > MaxBytes

ReadPage ==
    /\ next > 0 /\ (next <= Total \/ (from = 1 /\ pages = <<>>))
    /\ ~TooLong
    /\ LET end == PageEnd(next)
       IN /\ pages' = Append(pages, [kind |-> "page", first |-> next, last |-> end, text |-> Printed(next, end)])
          /\ next' = IF end < Total THEN end + 1 ELSE 0
    /\ UNCHANGED <<from, lines, limit, refused>>

(* The message about a line that exceeds a page names the line and how to  *)
(* read it with bash; it gives no offset, the reader takes the next one.   *)
LineTooLong ==
    /\ TooLong
    /\ pages' = Append(pages, [kind |-> "bash", first |-> next, last |-> next, text |-> {next}])
    /\ next' = IF next < Total THEN next + 1 ELSE 0
    /\ UNCHANGED <<from, lines, limit, refused>>

Next == Refuse \/ ReadPage \/ LineTooLong
Spec == Init /\ [][Next]_vars

-----------------------------------------------------------------------------
(* Every line with something in it is printed once the reader is through,  *)
(* and no page is larger than the tool allows.                             *)
NothingSkipped ==
    /\ next = 0 => \A n \in from .. Total : lines[n] > 0 => \E i \in DOMAIN pages : n \in pages[i].text
    /\ \A i \in DOMAIN pages : pages[i].kind = "page" =>
           LET shown == pages[i].text
           IN shown = {} \/ Bytes(pages[i].first, Max(shown)) <= MaxBytes
=============================================================================
