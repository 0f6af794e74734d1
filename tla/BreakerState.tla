---------------------------- MODULE BreakerState ----------------------------
(***************************************************************************)
(* The four private fields of core's CircuitBreaker and what each of its   *)
(* methods does to them.  The modules that call the breaker (CircuitBreaker*)
(* for the breaker alone, PostgresAdapter for the database layer around    *)
(* it) extend this one and say when the methods run.                       *)
(*                                                                         *)
(* Date.now() enters the code only through "Date.now() - lastFailureTime"  *)
(* and its comparison with resetTimeout, so the model keeps that           *)
(* difference: sinceFailure, in ticks, which stops at resetTimeout + 1     *)
(* because the code cannot tell any larger values apart.  An undefined     *)
(* lastFailureTime is read as 0, that is as "long ago".                    *)
(***************************************************************************)
EXTENDS Naturals

CONSTANTS
    failureThreshold,     \* failures before the circuit opens (5 by default)
    resetTimeout,         \* ticks before a probe is let through (60000 ms)
    halfOpenMaxAttempts,  \* successes that close a half-open circuit (3)
    MaxCount              \* where the failure counter saturates (2^53 in JS)

ASSUME BreakerAssumption ==
    /\ failureThreshold \in Nat \ {0}
    /\ resetTimeout \in Nat
    /\ halfOpenMaxAttempts \in Nat \ {0}
    /\ MaxCount \in Nat
    /\ MaxCount >= failureThreshold

VARIABLES
    state,              \* CircuitBreakerState
    failureCount,       \* failures since construction or the last reset()
    sinceFailure,       \* Date.now() - lastFailureTime, capped
    halfOpenSuccesses   \* successes seen in HALF_OPEN

breakerVars == <<state, failureCount, sinceFailure, halfOpenSuccesses>>

CircuitBreakerState == {"CLOSED", "OPEN", "HALF_OPEN"}

\* Beyond this many ticks every time difference looks the same to the code.
LongAgo == resetTimeout + 1

BreakerTypeOK ==
    /\ state \in CircuitBreakerState
    /\ failureCount \in 0..MaxCount
    /\ sinceFailure \in 0..LongAgo
    /\ halfOpenSuccesses \in 0..halfOpenMaxAttempts

BreakerInit ==
    /\ state = "CLOSED"
    /\ failureCount = 0
    /\ sinceFailure = LongAgo
    /\ halfOpenSuccesses = 0

-----------------------------------------------------------------------------
\* execute(), before the operation runs -------------------------------------

\* Mutation of MustReject: an open circuit never cools down.
MustReject_Forever == state = "OPEN"

\* The circuit is open and its time-out has not passed: execute() throws
\* without running the operation and without counting a failure.
MustReject == state = "OPEN" /\ ~(sinceFailure > resetTimeout)

\* Mutation of EnterExecute: the failures are forgotten on probing.
EnterExecute_ForgetsFailures ==
    /\ ~MustReject
    /\ IF state = "OPEN"
       THEN state' = "HALF_OPEN" /\ halfOpenSuccesses' = 0 /\ failureCount' = 0
       ELSE UNCHANGED <<state, halfOpenSuccesses, failureCount>>
    /\ UNCHANGED sinceFailure

\* The operation is started; an open circuit whose time-out has passed
\* becomes half-open first.
EnterExecute ==
    /\ ~MustReject
    /\ IF state = "OPEN"
       THEN /\ state' = "HALF_OPEN"
            /\ halfOpenSuccesses' = 0
       ELSE UNCHANGED <<state, halfOpenSuccesses>>
    /\ UNCHANGED <<failureCount, sinceFailure>>

\* execute(), after the operation settled: the state is read again ----------

\* Mutation of reset: the failure count survives.
reset_KeepsCount ==
    /\ state' = "CLOSED"
    /\ sinceFailure' = LongAgo
    /\ UNCHANGED failureCount

\* reset() clears everything but halfOpenSuccesses.
reset ==
    /\ state' = "CLOSED"
    /\ failureCount' = 0
    /\ sinceFailure' = LongAgo

\* Mutation of OnSuccess: a success in CLOSED clears the failure count.
OnSuccess_ClearsCount ==
    IF state # "HALF_OPEN"
    THEN /\ failureCount' = IF state = "CLOSED" THEN 0 ELSE failureCount
         /\ UNCHANGED <<state, sinceFailure, halfOpenSuccesses>>
    ELSE /\ halfOpenSuccesses' = halfOpenSuccesses + 1
         /\ IF halfOpenSuccesses' >= halfOpenMaxAttempts
            THEN reset
            ELSE UNCHANGED <<state, failureCount, sinceFailure>>

\* The operation resolved.
OnSuccess ==
    IF state # "HALF_OPEN"
    THEN UNCHANGED breakerVars
    ELSE /\ halfOpenSuccesses' = halfOpenSuccesses + 1
         /\ IF halfOpenSuccesses' >= halfOpenMaxAttempts
            THEN reset
            ELSE UNCHANGED <<state, failureCount, sinceFailure>>

\* Mutation of handleFailure: the circuit opens only from CLOSED.
handleFailure_ClosedOnly ==
    /\ failureCount' = IF failureCount < MaxCount
                       THEN failureCount + 1 ELSE failureCount
    /\ sinceFailure' = 0
    /\ state' = IF state = "CLOSED" /\ failureCount' >= failureThreshold
                THEN "OPEN" ELSE state
    /\ UNCHANGED halfOpenSuccesses

\* The operation rejected, whatever the state is by now.
handleFailure ==
    /\ failureCount' = IF failureCount < MaxCount
                       THEN failureCount + 1 ELSE failureCount
    /\ sinceFailure' = 0
    /\ state' = IF failureCount' >= failureThreshold THEN "OPEN" ELSE state
    /\ UNCHANGED halfOpenSuccesses

\* A tick of the wall clock.
Later(t) == IF t < LongAgo THEN t + 1 ELSE t

PassTime ==
    /\ sinceFailure' = Later(sinceFailure)
    /\ UNCHANGED <<state, failureCount, halfOpenSuccesses>>
=============================================================================
