--------------------------- MODULE MCChannel ---------------------------
(* The channel for TLC.  Coroutines are interchangeable.                  *)
EXTENDS Channel, TLC

Perms == Permutations(Coroutines)
=======================================================================
