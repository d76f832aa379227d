-------------------------------- MODULE MCMain --------------------------------
(* Model values for the sessions and skills of MainLoop, interchangeable.  *)
EXTENDS MainLoop, TLC

AnySession == Permutations(Sessions)
=============================================================================
