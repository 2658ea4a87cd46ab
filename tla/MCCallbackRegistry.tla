-------------------------- MODULE MCCallbackRegistry --------------------------
(* The instance of CallbackRegistry that TLC explores.                     *)
EXTENDS CallbackRegistry, TLC

CONSTANTS c1, c2, c3, w1, w2, n1

Symmetric == Permutations(Clients) \cup Permutations(Workers)

\* What an uninitialised int may hold: a refused id, or the key of somebody.
StrayIdsDef == {-1, 0}
===============================================================================
