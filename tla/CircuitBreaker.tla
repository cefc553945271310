--------------------------- MODULE CircuitBreaker ---------------------------
(***************************************************************************)
(* The circuit breaker of the embedding API                                *)
(* (openviking/utils/circuit_breaker.py).  A breaker is a record of its    *)
(* state and its consecutive failures; the operators are the bodies of its *)
(* methods, which hold the breaker's lock throughout.  How long the        *)
(* breaker stays open is left open: a check finds the timeout elapsed or   *)
(* not.                                                                    *)
(***************************************************************************)
EXTENDS Integers

CONSTANT FailureThreshold   \* consecutive failures that trip the breaker

ASSUME ThresholdAssumption == FailureThreshold \in Nat \ {0}

(* Failures beyond the threshold make no difference and are not counted.    *)
Breakers == [state : {"CLOSED", "OPEN", "HALF_OPEN"}, failures : 0 .. FailureThreshold]

ClosedBreaker == [state |-> "CLOSED", failures |-> 0]

(* check: what a request may find, and the breaker it leaves behind.        *)
Check(b) ==
  IF b.state = "OPEN"
    THEN {[allowed |-> FALSE, breaker |-> b],
          [allowed |-> TRUE, breaker |-> [b EXCEPT !.state = "HALF_OPEN"]]}
    ELSE {[allowed |-> TRUE, breaker |-> b]}

(* Errors that trip the breaker at once; those of the row do not count.     *)
TripsAtOnce == {"permanent", "auth", "quota"}

RecordFailure(b, class) ==
  IF class = "input_too_large"
    THEN b
    ELSE LET n == IF b.failures < FailureThreshold THEN b.failures + 1 ELSE b.failures
             trips == b.state = "HALF_OPEN" \/ class \in TripsAtOnce \/ n = FailureThreshold
         IN  [state |-> IF trips THEN "OPEN" ELSE b.state, failures |-> n]

RecordSuccess(b) == ClosedBreaker
=============================================================================
