------------------------------ MODULE MCBacklog -----------------------------
(* Two workers, and either two notifications or one that is on the log      *)
(* twice, as a send with a lost acknowledgement leaves it; one fault.       *)
EXTENDS BacklogConsumption, TLC

CONSTANTS i1, i2

TwoRecords == {<<i1, i2>>, <<i1, i1>>}

Symmetry == Permutations(Workers)
=============================================================================
