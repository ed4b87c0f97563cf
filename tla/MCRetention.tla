---------------------------- MODULE MCRetention -----------------------------
(* One nightly run, a manual one next to it, one retry by an operator; two  *)
(* rows, batches of up to two.                                              *)
EXTENDS RetentionSystem
=============================================================================
