--------------------------- MODULE CircuitBreaker ---------------------------
(***************************************************************************)
(* core/src/database/CircuitBreaker.ts with the concurrent callers that    *)
(* share it.  execute() is asynchronous: between the start of an operation *)
(* and its end any other call may start or end, trip the circuit, probe it *)
(* or close it, and a call reads the state again only when its operation   *)
(* has settled.  So a result counts in the state the circuit is in when it *)
(* arrives, not in the one in which the call was let through.              *)
(***************************************************************************)
EXTENDS BreakerState

CONSTANT Callers   \* the calls of execute() that may be in flight together

VARIABLES
    call,     \* what each caller of execute() sees
    up,       \* does the protected service work?
    openFor   \* history: ticks since the circuit last opened, capped

vars == <<breakerVars, call, up, openFor>>

CallState == {"idle", "running", "resolved", "failed", "rejected"}

TypeOK ==
    /\ BreakerTypeOK
    /\ call \in [Callers -> CallState]
    /\ up \in BOOLEAN
    /\ openFor \in 0..LongAgo

Init ==
    /\ BreakerInit
    /\ call = [c \in Callers |-> "idle"]
    /\ up \in BOOLEAN
    /\ openFor = 0

\* A caller has at most one call in flight; Callers is the concurrency.
MayCall(c) == call[c] # "running"

\* execute() throws "Circuit breaker is OPEN".
Reject(c) ==
    /\ MayCall(c)
    /\ MustReject
    /\ call' = [call EXCEPT ![c] = "rejected"]
    /\ UNCHANGED <<breakerVars, up, openFor>>

\* execute() starts the operation and awaits it.
Start(c) ==
    /\ MayCall(c)
    /\ EnterExecute
    /\ call' = [call EXCEPT ![c] = "running"]
    /\ UNCHANGED <<up, openFor>>

\* The operation resolves, execute() takes note and returns the result.
Resolve(c) ==
    /\ call[c] = "running"
    /\ up
    /\ OnSuccess
    /\ call' = [call EXCEPT ![c] = "resolved"]
    /\ UNCHANGED <<up, openFor>>

\* The operation rejects, execute() takes note and throws the error on.
Fail(c) ==
    /\ call[c] = "running"
    /\ ~up
    /\ handleFailure
    /\ call' = [call EXCEPT ![c] = "failed"]
    /\ openFor' = IF state # "OPEN" /\ state' = "OPEN" THEN 0 ELSE openFor
    /\ UNCHANGED up

\* The clock.
Tick ==
    /\ sinceFailure < LongAgo \/ openFor < LongAgo
    /\ PassTime
    /\ openFor' = Later(openFor)
    /\ UNCHANGED <<call, up>>

\* The service breaks down or comes back; operations in flight see it when
\* they end.
ServiceChange ==
    /\ up' = ~up
    /\ UNCHANGED <<breakerVars, call, openFor>>

Next ==
    \/ \E c \in Callers : Reject(c) \/ Start(c) \/ Resolve(c) \/ Fail(c)
    \/ Tick
    \/ ServiceChange

Spec == Init /\ [][Next]_vars

\* Operations settle, the clock runs, and the callers (poll loops and message
\* handlers, which never stop calling) call again after a call has ended.
Fairness ==
    /\ \A c \in Callers : WF_vars(Resolve(c) \/ Fail(c))
    /\ \A c \in Callers : WF_vars(Start(c) \/ Reject(c))
    /\ WF_vars(Tick)

FairSpec == Spec /\ Fairness

-----------------------------------------------------------------------------
\* The failure count decides the state: reset() is the only thing that lowers
\* it, a half-open circuit keeps the count that opened it, and so a circuit is
\* closed exactly while the count is below the threshold.  A reset forgotten
\* on closing, or a count cleared on probing, would break one direction.
ClosedIffBelowThreshold ==
    (state = "CLOSED") <=> (failureCount < failureThreshold)

\* A half-open circuit has not yet seen the successes that would close it, and
\* a count left over from an earlier trial (reset() does not clear it) never
\* helps to close a later one.
TrialUndecided ==
    state = "HALF_OPEN" => halfOpenSuccesses < halfOpenMaxAttempts

\* From the moment it opens, the circuit lets nothing through for longer than
\* resetTimeout, however many late failures of earlier calls move
\* lastFailureTime in the meantime, and it leaves OPEN only for HALF_OPEN.
StaysOpen ==
    [][ (state = "OPEN" /\ state' # "OPEN")
            => state' = "HALF_OPEN" /\ openFor > resetTimeout ]_vars

\* The inductive invariant behind all of them: a failure is never dated before
\* the opening it caused or prolonged.
LastFailureInOpenPeriod == state = "OPEN" => sinceFailure \leq openFor

IInv ==
    /\ TypeOK
    /\ ClosedIffBelowThreshold
    /\ TrialUndecided
    /\ LastFailureInOpenPeriod

\* The breaker implements its contract: openFor is the history variable and
\* the successes of the trial are halfOpenSuccesses.
Contract == INSTANCE BreakerContract WITH
    Cooldown <- resetTimeout,
    Quota    <- halfOpenMaxAttempts,
    mode     <- state,
    openFor  <- openFor,
    wins     <- halfOpenSuccesses,
    running  <- {c \in Callers : call[c] = "running"}

\* Every step of the breaker is a step of the contract or invisible to it.
ImplementsContract == Contract!Spec

\* When the service has come back for good, the circuit closes for good: no
\* late failure, stale count or refused probe keeps callers out for ever.
RecoversWithService == <>[]up => <>[](state = "CLOSED")
=============================================================================
