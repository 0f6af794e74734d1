------------------------ MODULE CircuitBreakerProofs ------------------------
(***************************************************************************)
(* Proofs about CircuitBreaker for any number of callers and any threshold,*)
(* time-out and quota.                                                     *)
(***************************************************************************)
EXTENDS CircuitBreaker, TLAPS

\* The history variable and lastFailureTime advance together: the clock keeps
\* their order.
LEMMA LaterMonotone ==
    ASSUME NEW s \in 0..LongAgo, NEW t \in 0..LongAgo
    PROVE  /\ Later(s) \in 0..LongAgo
           /\ s \leq t => Later(s) \leq Later(t)
  BY BreakerAssumption DEF Later, LongAgo

\* A new circuit is closed with no failure counted.
LEMMA InitIInv == Init => IInv
  BY BreakerAssumption
  DEF Init, BreakerInit, IInv, TypeOK, BreakerTypeOK, CircuitBreakerState,
      CallState, LongAgo, ClosedIffBelowThreshold, TrialUndecided,
      LastFailureInOpenPeriod

\* Every step keeps the inductive invariant.
LEMMA NextIInv == IInv /\ [Next]_vars => IInv'
<1> SUFFICES ASSUME IInv, [Next]_vars PROVE IInv'
  OBVIOUS
<1> USE BreakerAssumption
    DEF IInv, TypeOK, BreakerTypeOK, CircuitBreakerState, CallState, LongAgo,
        ClosedIffBelowThreshold, TrialUndecided, LastFailureInOpenPeriod
<1>1. ASSUME NEW c \in Callers, Reject(c) PROVE IInv'
  BY <1>1 DEF Reject, breakerVars
<1>2. ASSUME NEW c \in Callers, Start(c) PROVE IInv'
  <2>1. CASE state = "OPEN"
    BY <1>2, <2>1 DEF Start, EnterExecute, MustReject
  <2>2. CASE state # "OPEN"
    BY <1>2, <2>2 DEF Start, EnterExecute
  <2>3. QED BY <2>1, <2>2
<1>3. ASSUME NEW c \in Callers, Resolve(c) PROVE IInv'
  <2>1. CASE state = "HALF_OPEN"
    BY <1>3, <2>1 DEF Resolve, OnSuccess, reset
  <2>2. CASE state # "HALF_OPEN"
    BY <1>3, <2>2 DEF Resolve, OnSuccess, breakerVars
  <2>3. QED BY <2>1, <2>2
<1>4. ASSUME NEW c \in Callers, Fail(c) PROVE IInv'
  BY <1>4 DEF Fail, handleFailure
<1>5. ASSUME Tick PROVE IInv'
  BY <1>5, LaterMonotone DEF Tick, PassTime
<1>6. ASSUME ServiceChange PROVE IInv'
  BY <1>6 DEF ServiceChange, breakerVars
<1>7. ASSUME UNCHANGED vars PROVE IInv'
  BY <1>7 DEF vars, breakerVars
<1>8. QED BY <1>1, <1>2, <1>3, <1>4, <1>5, <1>6, <1>7 DEF Next

\* In every reachable state the circuit is closed exactly while fewer than
\* failureThreshold failures have been counted since the last reset().
THEOREM BreakerInvariant == Spec => []IInv
<1>1. QED BY InitIInv, NextIInv, PTL DEF Spec

\* The failure count alone tells whether the circuit lets calls through.
THEOREM ClosedExactlyBelowThreshold == Spec => []ClosedIffBelowThreshold
<1>1. IInv => ClosedIffBelowThreshold
  BY DEF IInv
<1>2. QED BY <1>1, BreakerInvariant, PTL

\* An open circuit stays open for longer than resetTimeout after it opened and
\* goes on to HALF_OPEN.
THEOREM OpenForAtLeastTheTimeout == Spec => StaysOpen
<1>1. IInv /\ [Next]_vars
        => [ (state = "OPEN" /\ state' # "OPEN")
                => state' = "HALF_OPEN" /\ openFor > resetTimeout ]_vars
  <2> SUFFICES ASSUME IInv, Next, state = "OPEN", state' # "OPEN"
               PROVE  state' = "HALF_OPEN" /\ openFor > resetTimeout
    OBVIOUS
  <2>1. PICK c \in Callers : Reject(c) \/ Start(c) \/ Resolve(c) \/ Fail(c)
    BY DEF Next, Tick, PassTime, ServiceChange, breakerVars
  <2>2. Start(c)
    BY <2>1, BreakerAssumption
    DEF Reject, Resolve, OnSuccess, Fail, handleFailure, breakerVars
  <2>3. QED
    BY <2>2, BreakerAssumption
    DEF Start, EnterExecute, MustReject, IInv, TypeOK, BreakerTypeOK, LongAgo,
        LastFailureInOpenPeriod
<1>2. QED BY <1>1, BreakerInvariant, PTL DEF Spec, StaysOpen

\* Every step of the breaker is a step of its contract or leaves the
\* contract's variables alone.
LEMMA StepRefinesContract ==
    IInv /\ [Next]_vars => [Contract!Next]_(Contract!contractVars)
<1> SUFFICES ASSUME IInv, [Next]_vars
             PROVE  [Contract!Next]_(Contract!contractVars)
  OBVIOUS
<1> USE BreakerAssumption
    DEF IInv, TypeOK, BreakerTypeOK, CircuitBreakerState, CallState, LongAgo,
        MayCall, Contract!contractVars
<1>1. ASSUME NEW c \in Callers, Reject(c)
      PROVE  UNCHANGED Contract!contractVars
  BY <1>1 DEF Reject, breakerVars
<1>2. ASSUME NEW c \in Callers, Start(c)
      PROVE  Contract!Pass(c) \/ Contract!Trial(c)
  <2>1. {d \in Callers : call'[d] = "running"}
            = {d \in Callers : call[d] = "running"} \cup {c}
    BY <1>2 DEF Start
  <2>2. CASE state = "OPEN"
    BY <1>2, <2>1, <2>2
    DEF Start, EnterExecute, MustReject, LastFailureInOpenPeriod,
        Contract!Trial
  <2>3. CASE state # "OPEN"
    BY <1>2, <2>1, <2>3 DEF Start, EnterExecute, Contract!Pass
  <2>4. QED BY <2>2, <2>3
<1>3. ASSUME NEW c \in Callers, Resolve(c) PROVE Contract!Win(c)
  <2>1. {d \in Callers : call'[d] = "running"}
            = {d \in Callers : call[d] = "running"} \ {c}
    BY <1>3 DEF Resolve
  <2>2. CASE state = "HALF_OPEN"
    BY <1>3, <2>1, <2>2
    DEF Resolve, OnSuccess, reset, TrialUndecided, Contract!Win
  <2>3. CASE state # "HALF_OPEN"
    BY <1>3, <2>1, <2>3 DEF Resolve, OnSuccess, breakerVars, Contract!Win
  <2>4. QED BY <2>2, <2>3
<1>4. ASSUME NEW c \in Callers, Fail(c) PROVE Contract!Lose(c)
  <2>1. {d \in Callers : call'[d] = "running"}
            = {d \in Callers : call[d] = "running"} \ {c}
    BY <1>4 DEF Fail
  <2>2. QED
    BY <1>4, <2>1
    DEF Fail, handleFailure, ClosedIffBelowThreshold, Contract!Lose
<1>5. ASSUME Tick
      PROVE  Contract!Tick \/ UNCHANGED Contract!contractVars
  BY <1>5 DEF Tick, PassTime, Later, Contract!Tick
<1>6. ASSUME ServiceChange PROVE UNCHANGED Contract!contractVars
  BY <1>6 DEF ServiceChange, breakerVars
<1>7. ASSUME UNCHANGED vars PROVE UNCHANGED Contract!contractVars
  BY <1>7 DEF vars, breakerVars
<1>8. QED
  BY <1>1, <1>2, <1>3, <1>4, <1>5, <1>6, <1>7 DEF Next, Contract!Next

\* The breaker implements its contract, for any number of concurrent callers.
THEOREM BreakerImplementsContract == Spec => ImplementsContract
<1>1. Init => Contract!Init
  BY DEF Init, BreakerInit, Contract!Init
<1>2. QED
  BY <1>1, BreakerInvariant, StepRefinesContract, PTL
  DEF Spec, ImplementsContract, Contract!Spec
=============================================================================
