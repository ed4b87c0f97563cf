------------------------------ MODULE MCService -----------------------------
(* Three requests over two keys: a race of two on one key with a third to   *)
(* arrive late, and a second key that must not be mixed up with the first.  *)
EXTENDS NotificationService, TLC

Symmetry == Permutations(Ids) \cup Permutations(Keys) \cup Permutations(Requests)
=============================================================================
