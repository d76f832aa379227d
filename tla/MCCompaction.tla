----------------------------- MODULE MCCompaction -----------------------------
EXTENDS Compaction
MCKeeps == {-1, 0, 1}
MCAsks == {[v |-> "task", size |-> 1], [v |-> "prefer", size |-> 1]}
MCSays == {[v |-> "trouble", size |-> 1], [v |-> "talk", size |-> 4]}
MCCalls == {[v |-> "commit", size |-> 1], [v |-> "edit", size |-> 1]}
=============================================================================
