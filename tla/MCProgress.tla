----------------------------- MODULE MCProgress ------------------------------
(* The circuit breaker and the cached searches: in both, what went wrong    *)
(* must right itself with nothing but time and further calls.  They share   *)
(* no state, so one model explores them one at a time, chosen at the start. *)
(* Two overlapping callers and thresholds above 1, so that counts matter;   *)
(* two queries, two thresholds of scores and one change of the index, so    *)
(* that a cached answer can be out of date.                                 *)
EXTENDS CircuitBreaker, MCRetrieval

VARIABLE subject

progressVars == <<subject, vars, retrievalVars>>

\* The component that takes no step has one initial state.
ProgressInit ==
    /\ subject \in {"breaker", "searches"}
    /\ Init /\ (subject = "breaker" \/ healthy)
    /\ RetrievalInit

ProgressNext ==
    /\ UNCHANGED subject
    /\ \/ subject = "breaker" /\ Next /\ UNCHANGED retrievalVars
       \/ subject = "searches" /\ RetrievalNext /\ UNCHANGED vars

\* Of the component that takes steps, what its own specification asks.
ProgressSpec ==
    /\ ProgressInit /\ [][ProgressNext]_progressVars
    /\ subject = "breaker" => Fairness
    /\ subject = "searches" => RetrievalFairness
=============================================================================
