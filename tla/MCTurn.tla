------------------------------- MODULE MCTurn --------------------------------
\* TurnLoop over small bounds; the bounds are the constants of the .cfg files.
EXTENDS TurnLoop
=============================================================================
