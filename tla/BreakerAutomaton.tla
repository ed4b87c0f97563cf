-------------------------- MODULE BreakerAutomaton --------------------------
(***************************************************************************)
(* What a caller may rely on from a circuit breaker, whatever it counts:   *)
(* a call is never let through an open circuit except as a probe that      *)
(* turns it half open, and a circuit that is open does not close (or move  *)
(* at all) because some late call of an earlier period comes back.         *)
(***************************************************************************)
CONSTANTS Callers

VARIABLES
  mode,     \* what getState() reports
  running   \* the callers whose provider call is under way

vars == <<mode, running>>

\* The modes in which a returning call may leave the circuit.
After(m) ==
  CASE m = "CLOSED"    -> {"CLOSED", "OPEN"}
    [] m = "HALF_OPEN" -> {"HALF_OPEN", "CLOSED", "OPEN"}
    [] m = "OPEN"      -> {"OPEN"}

Init ==
  /\ mode = "CLOSED"
  /\ running = {}

Admit(c) ==
  /\ c \notin running
  /\ running' = running \cup {c}
  /\ mode' = IF mode = "OPEN" THEN "HALF_OPEN" ELSE mode

Return(c) ==
  /\ c \in running
  /\ running' = running \ {c}
  /\ mode' \in After(mode)

Next == \E c \in Callers : Admit(c) \/ Return(c)

Spec == Init /\ [][Next]_vars
=============================================================================
