------------------------------- MODULE MCSession ------------------------------
\* SessionStore over small bounds; session files are interchangeable.
EXTENDS SessionStore, TLC

AnySession == Permutations(Sessions)
=============================================================================
