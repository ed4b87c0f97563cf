--------------------------- MODULE CircuitBreaker ---------------------------
(***************************************************************************)
(* The circuit breaker RetryService keeps per provider (class              *)
(* CircuitBreaker, notification/retry.service.ts).  execute() is split at  *)
(* its only await: Execute(c) is the part before fn() runs, Succeed(c) and *)
(* Fail(c) the parts after it, so calls of several callers overlap as they *)
(* may on one event loop.  The worker makes its calls one at a time; the   *)
(* class itself does not ask for that, and neither does this module.       *)
(***************************************************************************)
EXTENDS Naturals

CONSTANTS
  Callers,           \* who may be inside execute() at the same time
  FailureThreshold,  \* failureThreshold, 5 in the code
  SuccessThreshold,  \* successThreshold, 2 in the code
  Timeout            \* timeout, 30 s in the code, counted here in ticks

ASSUME BreakerAssumption ==
  /\ FailureThreshold \in Nat \ {0}
  /\ SuccessThreshold \in Nat \ {0}
  /\ Timeout \in Nat \ {0}

VARIABLES
  state,         \* CLOSED, OPEN or HALF_OPEN
  failureCount,  \* compared with the threshold only, so it saturates there
  successCount,
  everFailed,    \* lastFailureTime is not null
  sinceFailure,  \* ticks since lastFailureTime, saturating at Timeout
  inFlight,      \* the callers that await fn()
  healthy        \* the provider: does a call that returns now succeed?

vars == <<state, failureCount, successCount, everFailed, sinceFailure,
          inFlight, healthy>>
counters == <<state, failureCount, successCount, everFailed, sinceFailure>>

States == {"CLOSED", "OPEN", "HALF_OPEN"}

TypeOK ==
  /\ state \in States
  /\ failureCount \in 0..FailureThreshold
  /\ successCount \in 0..SuccessThreshold
  /\ everFailed \in BOOLEAN
  /\ sinceFailure \in 0..Timeout
  /\ inFlight \subseteq Callers
  /\ healthy \in BOOLEAN

Init ==
  /\ state = "CLOSED"
  /\ failureCount = 0
  /\ successCount = 0
  /\ everFailed = FALSE
  /\ sinceFailure = 0
  /\ inFlight = {}
  /\ healthy \in BOOLEAN

-----------------------------------------------------------------------------
(* A slip in shouldAttemptReset: the null test loses its negation. *)
ShouldAttemptResetInverted == ~everFailed /\ sinceFailure >= Timeout

ShouldAttemptReset == everFailed /\ sinceFailure >= Timeout

(* execute() up to the await: an OPEN circuit whose timeout has passed      *)
(* turns HALF_OPEN, an OPEN circuit refuses the call (no state changes, so  *)
(* the refusal is a stuttering step), any other circuit lets the call run.  *)
Execute(c) ==
  LET next == IF state = "OPEN" /\ ShouldAttemptReset THEN "HALF_OPEN" ELSE state
  IN  /\ c \notin inFlight
      /\ next # "OPEN"
      /\ state' = next
      /\ inFlight' = inFlight \cup {c}
      /\ UNCHANGED <<failureCount, successCount, everFailed, sinceFailure, healthy>>

(* A slip in onSuccess: closing whatever the state was.                     *)
OnSuccessAlwaysCloses ==
  /\ failureCount' = 0
  /\ state' = "CLOSED"
  /\ successCount' = 0

OnSuccess ==
  LET recovered == successCount + 1 >= SuccessThreshold
  IN  /\ failureCount' = 0
      /\ state' = IF state = "HALF_OPEN" /\ recovered THEN "CLOSED" ELSE state
      /\ successCount' = IF state # "HALF_OPEN" THEN successCount
                         ELSE IF recovered THEN 0 ELSE successCount + 1

Capped(n) == IF n > FailureThreshold THEN FailureThreshold ELSE n

(* Slips in onFailure: the count of probes survives a failed recovery, and  *)
(* a failure count that is set instead of incremented.                      *)
OnFailureKeepsSuccesses ==
  /\ failureCount' = Capped(failureCount + 1)
  /\ state' = IF state = "HALF_OPEN" \/ failureCount + 1 >= FailureThreshold
              THEN "OPEN" ELSE state
  /\ UNCHANGED successCount

OnFailureNeverCounts ==
  /\ failureCount' = 1
  /\ state' = IF state = "HALF_OPEN" \/ 1 >= FailureThreshold THEN "OPEN" ELSE state
  /\ successCount' = IF state = "HALF_OPEN" THEN 0 ELSE successCount

OnFailure ==
  /\ failureCount' = Capped(failureCount + 1)
  /\ state' = IF state = "HALF_OPEN" \/ failureCount + 1 >= FailureThreshold
              THEN "OPEN" ELSE state
  /\ successCount' = IF state = "HALF_OPEN" THEN 0 ELSE successCount

(* fn() resolves: onSuccess runs in whatever state the circuit is by now.   *)
Succeed(c) ==
  /\ c \in inFlight
  /\ healthy
  /\ inFlight' = inFlight \ {c}
  /\ OnSuccess
  /\ UNCHANGED <<everFailed, sinceFailure, healthy>>

(* fn() rejects: onFailure, with lastFailureTime = Date.now().              *)
Fail(c) ==
  /\ c \in inFlight
  /\ ~healthy
  /\ inFlight' = inFlight \ {c}
  /\ OnFailure
  /\ everFailed' = TRUE
  /\ sinceFailure' = 0
  /\ UNCHANGED healthy

-----------------------------------------------------------------------------
(* The environment: time passes, the provider fails and recovers.           *)
ClockTicks ==
  /\ everFailed
  /\ sinceFailure < Timeout
  /\ sinceFailure' = sinceFailure + 1
  /\ UNCHANGED <<state, failureCount, successCount, everFailed, inFlight, healthy>>

ProviderChanges ==
  /\ healthy' = ~healthy
  /\ UNCHANGED <<counters, inFlight>>

Next ==
  \/ \E c \in Callers : Execute(c) \/ Succeed(c) \/ Fail(c)
  \/ ClockTicks
  \/ ProviderChanges

Spec == Init /\ [][Next]_vars

(* Messages keep arriving (Execute), every provider call settles, time does *)
(* not stop.                                                                *)
Fairness ==
  /\ \A c \in Callers :
       WF_vars(Execute(c)) /\ WF_vars(Succeed(c) \/ Fail(c))
  /\ WF_vars(ClockTicks)

FairSpec == Spec /\ Fairness

-----------------------------------------------------------------------------
(* The counters agree with the state they drove the circuit to, although    *)
(* late calls of an earlier period come back in any state: a CLOSED circuit *)
(* is below its failure threshold, only a HALF_OPEN one holds probe         *)
(* successes and never enough of them to have closed, and an OPEN one has a *)
(* failure time to measure its timeout from (without it                     *)
(* shouldAttemptReset would answer false for ever).                         *)
CountersFitState ==
  /\ state = "CLOSED" => failureCount < FailureThreshold
  /\ state # "HALF_OPEN" => successCount = 0
  /\ successCount < SuccessThreshold
  /\ state # "CLOSED" => everFailed

(* The breaker is a circuit in the sense of BreakerAutomaton.               *)
Automaton == INSTANCE BreakerAutomaton WITH mode <- state, running <- inFlight
ImplementsAutomaton == Automaton!Spec

(* Once the provider stays up the circuit closes and stays closed: no       *)
(* reachable combination of counters keeps a recovered provider cut off.    *)
Recovers == <>[]healthy => <>[](state = "CLOSED")

(* While the provider stays down the circuit keeps tripping: calls do not   *)
(* go on being sent to it through a circuit that never opens again.         *)
Trips == <>[](~healthy) => []<>(state = "OPEN")
=============================================================================
