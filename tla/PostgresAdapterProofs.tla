----------------------- MODULE PostgresAdapterProofs ------------------------
(***************************************************************************)
(* Safety of PostgresAdapter for any number of requests, kinds of method,  *)
(* attempts and settings of the breaker.                                   *)
(***************************************************************************)
EXTENDS PostgresAdapter, FiniteSetTheorems, TLAPS

\* A half-open circuit has not seen the successes that would close it.
Undecided == state = "HALF_OPEN" => halfOpenSuccesses < halfOpenMaxAttempts

\* When the inner execute() of a nested call has just settled and the circuit
\* is half-open, the inner one did not fail: a failure would have opened it.
DrainHeard == Draining /\ state = "HALF_OPEN" => heard # {}

ReqRecord == [pc: Places, kind: Kinds \cup {"none"},
              attempt: 0..maxRetries, outer: 0..maxRetries]
ReqType == req \in [Requests -> ReqRecord]

\* A request sleeps only if it has an attempt left.
MaySleep(x) ==
    /\ x.pc = "backoff" => x.attempt < maxRetries
    /\ x.pc = "pause" => x.outer < maxRetries
AttemptLeft == \A r \in Requests : MaySleep(req[r])

BreakerInv == BreakerTypeOK /\ ClosedIffBelowThreshold /\ Undecided

AInv ==
    /\ TypeOK
    /\ ClosedIffBelowThreshold
    /\ Undecided
    /\ DrainHeard
    /\ AttemptLeft

\* A new adapter: the circuit is closed and no request is in progress.
LEMMA InitAInv == Init => AInv
<1> SUFFICES ASSUME Init PROVE AInv
  OBVIOUS
<1>1. BreakerInv
  BY BreakerAssumption
  DEF Init, BreakerInit, BreakerInv, BreakerTypeOK, CircuitBreakerState, LongAgo,
      ClosedIffBelowThreshold, Undecided
<1>2. ReqType /\ ~Draining /\ AttemptLeft
  BY AdapterAssumption
  DEF Init, ReqType, ReqRecord, Places, Idle, Draining, AttemptLeft, MaySleep
<1>3. QED
  BY <1>1, <1>2
  DEF Init, AInv, BreakerInv, TypeOK, ReqType, ReqRecord, DrainHeard, Outcomes

\* The breaker's methods keep what is said of its fields.
LEMMA BreakerKeeps ==
    ASSUME BreakerInv,
           \/ EnterExecute \/ OnSuccess \/ handleFailure \/ PassTime
           \/ UNCHANGED breakerVars
    PROVE  BreakerInv'
<1> USE BreakerAssumption
    DEF BreakerInv, BreakerTypeOK, CircuitBreakerState, LongAgo,
        ClosedIffBelowThreshold, Undecided
<1>1. CASE EnterExecute
  BY <1>1 DEF EnterExecute, MustReject
<1>2. CASE OnSuccess
  <2>1. CASE state # "HALF_OPEN"
    BY <1>2, <2>1 DEF OnSuccess, breakerVars
  <2>2. CASE state = "HALF_OPEN"
    BY <1>2, <2>2 DEF OnSuccess, reset
  <2>3. QED
    BY <2>1, <2>2
<1>3. CASE handleFailure
  BY <1>3 DEF handleFailure
<1>4. CASE PassTime
  BY <1>4 DEF PassTime, Later
<1>5. CASE UNCHANGED breakerVars
  BY <1>5 DEF breakerVars
<1>6. QED
  BY <1>1, <1>2, <1>3, <1>4, <1>5

\* A failure never leaves the circuit half-open.
LEMMA FailureDecides ==
    ASSUME BreakerInv, handleFailure
    PROVE  state' # "HALF_OPEN"
  BY BreakerAssumption
  DEF BreakerInv, BreakerTypeOK, CircuitBreakerState, ClosedIffBelowThreshold,
      handleFailure

\* A step in which the record of one request changes to x keeps the invariant
\* if the breaker takes one of its steps and x and the histories are as they
\* should be.
LEMMA OneRequest ==
    ASSUME AInv, NEW r \in Requests, NEW x \in ReqRecord,
           req' = [req EXCEPT ![r] = x],
           MaySleep(x),
           \/ ~Draining /\ x.pc # "drain"
           \/ state' = "HALF_OPEN" => heard' # {},
           BreakerInv',
           up' \in BOOLEAN, heard' \subseteq Outcomes, lateAttempts' \in Nat
    PROVE  AInv'
<1>1. ReqType'
  BY DEF AInv, TypeOK, ReqType, ReqRecord
<1>2. DrainHeard'
  <2>1. CASE ~Draining /\ x.pc # "drain"
    BY <2>1 DEF AInv, TypeOK, Draining, DrainHeard
  <2>2. CASE state' = "HALF_OPEN" => heard' # {}
    BY <2>2 DEF DrainHeard
  <2>3. QED
    BY <2>1, <2>2
<1>3. AttemptLeft'
  BY DEF AInv, TypeOK, AttemptLeft, MaySleep
<1>4. QED
  BY <1>1, <1>2, <1>3 DEF AInv, TypeOK, ReqType, ReqRecord, BreakerInv

\* The types of the parts of the state, from the invariant.
LEMMA Parts ==
    ASSUME AInv
    PROVE  /\ BreakerInv
           /\ up \in BOOLEAN
           /\ heard \subseteq Outcomes
           /\ lateAttempts \in Nat
           /\ \A r \in Requests : req[r] \in ReqRecord
  BY DEF AInv, BreakerInv, TypeOK, ReqRecord

\* A request that is not in progress has a record of the right type.
LEMMA IdleRecord == Idle \in ReqRecord /\ Idle.pc = "idle"
  BY AdapterAssumption DEF Idle, ReqRecord, Places

\* The record of a request that has moved to another place.
LEMMA MovedRecord ==
    ASSUME NEW y \in ReqRecord, NEW place \in Places
    PROVE  LET x == [y EXCEPT !.pc = place]
           IN  /\ x \in ReqRecord /\ x.pc = place
               /\ x.attempt = y.attempt /\ x.outer = y.outer
               /\ x.kind = y.kind
  BY DEF ReqRecord

\* A method is called: nothing drains, before or after.
LEMMA CallKeeps ==
    ASSUME AInv, NEW r \in Requests, NEW k \in Kinds, Call(r, k)
    PROVE  AInv'
<1> DEFINE x == [pc |-> "attempt", kind |-> k, attempt |-> 1, outer |-> 1]
<1>1. x \in ReqRecord /\ x.pc = "attempt" /\ MaySleep(x)
  BY AdapterAssumption DEF ReqRecord, Places, MaySleep
<1>2. BreakerInv'
  BY Parts, BreakerKeeps DEF Call
<1>3. ~Draining /\ req' = [req EXCEPT ![r] = x]
  BY DEF Call
<1>4. up' \in BOOLEAN /\ heard' \subseteq Outcomes /\ lateAttempts' \in Nat
  BY Parts DEF Call, NoteProbe
<1> HIDE DEF x
<1>5. QED
  BY <1>1, <1>2, <1>3, <1>4, OneRequest

\* The statement of the innermost execute() ends, in one way or another, and
\* nothing of the request is left but what drains at once.
LEMMA AttemptEndsKeeps ==
    ASSUME AInv, NEW r \in Requests,
           \/ AttemptSucceeds(r) \/ AttemptSwallowed(r)
           \/ RetriesExhausted(r)
           \/ InsertSucceeds(r) \/ InsertExhausted(r)
    PROVE  AInv'
<1> DEFINE settled == [req[r] EXCEPT !.pc = "drain"]
<1>1. PICK x \in {settled, Idle} : req' = [req EXCEPT ![r] = x]
  BY DEF AttemptSucceeds, AttemptSwallowed, RetriesExhausted, InsertSucceeds,
         InsertExhausted
<1>2. x \in ReqRecord /\ x.pc \notin {"backoff", "pause"}
  <2>1. settled \in ReqRecord /\ settled.pc = "drain"
    BY Parts, MovedRecord DEF Places
  <2> HIDE DEF settled
  <2>2. QED
    BY <1>1, <2>1, IdleRecord
<1>3. BreakerInv'
  BY Parts, BreakerKeeps
  DEF AttemptSucceeds, AttemptSwallowed, RetriesExhausted, InsertSucceeds,
      InsertExhausted
<1>4. state' = "HALF_OPEN" => heard' # {}
  <2>1. CASE RetriesExhausted(r) \/ InsertExhausted(r)
    BY <2>1, Parts, FailureDecides DEF RetriesExhausted, InsertExhausted
  <2>2. CASE AttemptSucceeds(r) \/ AttemptSwallowed(r) \/ InsertSucceeds(r)
    BY <2>2 DEF AttemptSucceeds, AttemptSwallowed, InsertSucceeds
  <2>3. QED
    BY <2>1, <2>2
<1>5. up' \in BOOLEAN /\ heard' \subseteq Outcomes /\ lateAttempts' \in Nat
  BY Parts
  DEF AttemptSucceeds, AttemptSwallowed, RetriesExhausted, InsertSucceeds,
      InsertExhausted, NoteOpening, Outcomes
<1>6. MaySleep(x)
  BY <1>2 DEF MaySleep
<1> HIDE DEF settled
<1>7. QED
  BY <1>1, <1>2, <1>3, <1>4, <1>5, <1>6, OneRequest

\* createMemory's search ends: the insert follows, or a pause, or the end.
LEMMA SearchKeeps ==
    ASSUME AInv, NEW r \in Requests, SearchSucceeds(r) \/ SearchExhausted(r)
    PROVE  AInv'
<1>1. PICK place \in {"insert", "pause", "drain"} :
        /\ req' = [req EXCEPT ![r].pc = place]
        /\ place = "pause" => req[r].outer < maxRetries
  BY DEF SearchSucceeds, SearchExhausted
<1> DEFINE x == [req[r] EXCEPT !.pc = place]
<1>2. req' = [req EXCEPT ![r] = x] /\ place \in Places
  BY <1>1 DEF Places
<1>3. x \in ReqRecord /\ x.pc = place /\ x.outer = req[r].outer
  BY <1>2, Parts, MovedRecord
<1>4. MaySleep(x)
  BY <1>1, <1>3 DEF MaySleep
<1>5. BreakerInv'
  BY Parts, BreakerKeeps DEF SearchSucceeds, SearchExhausted
<1>6. state' = "HALF_OPEN" => heard' # {}
  BY Parts, FailureDecides DEF SearchSucceeds, SearchExhausted
<1>7. up' \in BOOLEAN /\ heard' \subseteq Outcomes /\ lateAttempts' \in Nat
  BY Parts
  DEF SearchSucceeds, SearchExhausted, NoteOpening, NoteLate, Outcomes
<1> HIDE DEF x
<1>8. QED
  BY <1>2, <1>3, <1>4, <1>5, <1>6, <1>7, OneRequest

\* A statement fails with attempts left: its withRetry sleeps.
LEMMA SleepKeeps ==
    ASSUME AInv, NEW r \in Requests, AttemptFails(r) \/ InsertFails(r)
    PROVE  AInv'
<1>1. PICK place \in {"backoff", "pause"} :
        /\ req' = [req EXCEPT ![r].pc = place]
        /\ place = "backoff" => req[r].attempt < maxRetries
        /\ place = "pause" => req[r].outer < maxRetries
  BY DEF AttemptFails, InsertFails
<1> DEFINE x == [req[r] EXCEPT !.pc = place]
<1>2. req' = [req EXCEPT ![r] = x] /\ place \in Places
  BY <1>1 DEF Places
<1>3. /\ x \in ReqRecord /\ x.pc = place
      /\ x.attempt = req[r].attempt /\ x.outer = req[r].outer
  BY <1>2, Parts, MovedRecord
<1>4. MaySleep(x) /\ x.pc # "drain"
  BY <1>1, <1>3 DEF MaySleep
<1>5. ~Draining /\ BreakerInv' /\ up' \in BOOLEAN /\ heard' \subseteq Outcomes
  BY Parts, BreakerKeeps DEF AttemptFails, InsertFails, history
<1>6. lateAttempts' \in Nat
  BY Parts DEF AttemptFails, InsertFails, history
<1> HIDE DEF x
<1>7. QED
  BY <1>2, <1>3, <1>4, <1>5, <1>6, OneRequest

\* A withRetry wakes with one more attempt taken: its own, or createMemory's.
LEMMA WakeKeeps ==
    ASSUME AInv, NEW r \in Requests, Retry(r) \/ Resume(r)
    PROVE  AInv'
<1>1. req[r] \in ReqRecord /\ MaySleep(req[r])
  BY Parts DEF AInv, AttemptLeft
<1>2. ~Draining /\ BreakerInv' /\ up' \in BOOLEAN /\ heard' \subseteq Outcomes
  BY Parts, BreakerKeeps DEF Retry, Resume, NoteProbe
<1>3. lateAttempts' \in Nat
  BY Parts DEF Retry, Resume, NoteLate
<1>4. CASE Retry(r)
  <2> DEFINE x == [req[r] EXCEPT !.pc = "attempt", !.attempt = @ + 1]
  <2>1. req[r].attempt + 1 \in 0..maxRetries
    BY <1>1, <1>4, AdapterAssumption DEF Retry, MaySleep, ReqRecord
  <2>2. x \in ReqRecord /\ x.pc = "attempt"
    BY <1>1, <2>1 DEF ReqRecord, Places
  <2>3. req' = [req EXCEPT ![r] = x]
    BY <1>4 DEF Retry
  <2> HIDE DEF x
  <2>4. QED
    BY <1>2, <1>3, <2>2, <2>3, OneRequest DEF MaySleep
<1>5. CASE Resume(r)
  <2> DEFINE x == [req[r] EXCEPT !.pc = "attempt", !.attempt = 1,
                                 !.outer = @ + 1]
  <2>1. req[r].outer + 1 \in 0..maxRetries /\ 1 \in 0..maxRetries
    BY <1>1, <1>5, AdapterAssumption DEF Resume, MaySleep, ReqRecord
  <2>2. x \in ReqRecord /\ x.pc = "attempt"
    BY <1>1, <2>1 DEF ReqRecord, Places
  <2>3. req' = [req EXCEPT ![r] = x]
    BY <1>5 DEF Resume
  <2> HIDE DEF x
  <2>4. QED
    BY <1>2, <1>3, <2>2, <2>3, OneRequest DEF MaySleep
<1>6. QED
  BY <1>4, <1>5

\* createMemory finds the circuit open again: it pauses once more or gives up.
LEMMA ResumeRejectedKeeps ==
    ASSUME AInv, NEW r \in Requests, ResumeRejected(r)
    PROVE  AInv'
<1>1. req[r] \in ReqRecord /\ MaySleep(req[r]) /\ req[r].pc = "pause"
  BY Parts DEF AInv, AttemptLeft, ResumeRejected
<1>2. /\ ~Draining /\ BreakerInv' /\ up' \in BOOLEAN
      /\ heard' \subseteq Outcomes /\ lateAttempts' \in Nat
  BY Parts, BreakerKeeps DEF ResumeRejected, history
<1>3. CASE req[r].outer + 1 < maxRetries
  <2> DEFINE x == [req[r] EXCEPT !.outer = @ + 1]
  <2>1. req[r].outer + 1 \in 0..maxRetries
    BY <1>1, <1>3, AdapterAssumption DEF MaySleep, ReqRecord
  <2>2. /\ x \in ReqRecord /\ x.pc = "pause"
        /\ x.outer = req[r].outer + 1
    BY <1>1, <2>1 DEF ReqRecord
  <2>3. req' = [req EXCEPT ![r] = x]
    BY <1>3 DEF ResumeRejected
  <2> HIDE DEF x
  <2>4. QED
    BY <1>2, <1>3, <2>2, <2>3, OneRequest DEF MaySleep
<1>4. CASE ~(req[r].outer + 1 < maxRetries)
  <2>1. req' = [req EXCEPT ![r] = Idle]
    BY <1>4 DEF ResumeRejected
  <2>2. QED
    BY <1>2, <2>1, IdleRecord, OneRequest DEF MaySleep
<1>5. QED
  BY <1>3, <1>4

\* The outer execute() of a nested call finds what the inner one left.
LEMMA OuterKeeps ==
    ASSUME AInv, NEW r \in Requests, OuterSettles(r)
    PROVE  AInv'
<1>1. req' = [req EXCEPT ![r] = Idle] /\ Draining
  BY DEF OuterSettles, Draining
<1>2. BreakerInv'
  BY Parts, BreakerKeeps DEF OuterSettles
<1>3. state' = "HALF_OPEN" => heard' # {}
  <2>1. CASE req[r].kind = "nested"
    BY <1>1, <2>1, Parts
    DEF OuterSettles, OnSuccess, reset, breakerVars, AInv, DrainHeard
  <2>2. CASE req[r].kind # "nested"
    BY <2>2, Parts, FailureDecides DEF OuterSettles
  <2>3. QED
    BY <2>1, <2>2
<1>4. up' \in BOOLEAN /\ heard' \subseteq Outcomes /\ lateAttempts' \in Nat
  BY Parts DEF OuterSettles, NoteOpening
<1>5. QED
  BY <1>1, <1>2, <1>3, <1>4, IdleRecord, OneRequest DEF MaySleep

\* The clock, the database and refused requests leave the requests alone.
LEMMA OtherKeeps ==
    ASSUME AInv, UNCHANGED <<req, history>>, up' \in BOOLEAN,
           (~Draining /\ PassTime) \/ UNCHANGED breakerVars
    PROVE  AInv'
<1>1. BreakerInv'
  BY Parts, BreakerKeeps
<1>2. state' = state
  BY DEF PassTime, breakerVars
<1>3. QED
  BY <1>1, <1>2
  DEF AInv, TypeOK, BreakerInv, DrainHeard, Draining, AttemptLeft, MaySleep,
      history

\* Every step keeps the invariant.
LEMMA NextAInv == AInv /\ [Next]_vars => AInv'
<1> SUFFICES ASSUME AInv, [Next]_vars PROVE AInv'
  OBVIOUS
<1>1. CASE \E r \in Requests : Reject(r) \/ \E k \in Kinds : Call(r, k)
  <2>1. CASE \E r \in Requests : Reject(r)
    BY <2>1, Parts, OtherKeeps DEF Reject, vars
  <2>2. CASE \E r \in Requests : \E k \in Kinds : Call(r, k)
    BY <2>2, CallKeeps
  <2>3. QED
    BY <1>1, <2>1, <2>2
<1>2. CASE \E r \in Requests : Settle(r)
  BY <1>2, AttemptEndsKeeps, SearchKeeps, SleepKeeps, WakeKeeps,
     ResumeRejectedKeeps, OuterKeeps
  DEF Settle
<1>3. CASE Tick
  BY <1>3, Parts, OtherKeeps DEF Tick
<1>4. CASE DatabaseChange
  BY <1>4, Parts, OtherKeeps DEF DatabaseChange
<1>5. CASE UNCHANGED vars
  BY <1>5, Parts, OtherKeeps DEF vars
<1>6. QED
  BY <1>1, <1>2, <1>3, <1>4, <1>5 DEF Next

\* withDatabase: also with retries, swallowed errors and a second entry of the
\* breaker by nested calls, the failure count decides the state.
THEOREM AdapterClosedBelowThreshold == Spec => []ClosedIffBelowThreshold
<1>1. AInv => ClosedIffBelowThreshold
  BY DEF AInv
<1>2. QED
  BY InitAInv, NextAInv, <1>1, PTL DEF Spec

\* A half-open circuit never closes on the outer success of a nested call
\* alone: something has come back from the database, if only an error.
THEOREM AdapterClosesOnOutcome == Spec => ClosesOnOutcome
<1>1. AInv /\ [Next]_vars =>
         [(state = "HALF_OPEN" /\ state' = "CLOSED") => heard' # {}]_vars
  <2> SUFFICES ASSUME AInv, Next, state = "HALF_OPEN", state' = "CLOSED"
               PROVE  heard' # {}
    OBVIOUS
  <2>1. CASE \E r \in Requests :
                \/ AttemptSucceeds(r) \/ AttemptSwallowed(r)
                \/ SearchSucceeds(r) \/ InsertSucceeds(r)
    BY <2>1
    DEF AttemptSucceeds, AttemptSwallowed, SearchSucceeds, InsertSucceeds
  <2>2. CASE \E r \in Requests : OuterSettles(r)
    BY <2>2 DEF OuterSettles, Draining, AInv, DrainHeard, handleFailure
  <2>3. CASE \E r \in Requests :
                RetriesExhausted(r) \/ SearchExhausted(r) \/ InsertExhausted(r)
    BY <2>3 DEF RetriesExhausted, SearchExhausted, InsertExhausted, handleFailure
  <2>4. CASE \E r \in Requests : Resume(r) \/ \E k \in Kinds : Call(r, k)
    BY <2>4 DEF Resume, Call, EnterExecute
  <2>5. CASE \/ Tick \/ DatabaseChange
             \/ \E r \in Requests :
                   \/ Reject(r) \/ AttemptFails(r) \/ InsertFails(r) \/ Retry(r)
                   \/ ResumeRejected(r)
    BY <2>5
    DEF Tick, DatabaseChange, Reject, AttemptFails, InsertFails, Retry,
        ResumeRejected, MustReject, PassTime, vars, breakerVars
  <2>6. QED
    BY <2>1, <2>2, <2>3, <2>4, <2>5 DEF Next, Settle
<1>2. QED
  BY InitAInv, NextAInv, <1>1, PTL DEF Spec, ClosesOnOutcome

-----------------------------------------------------------------------------
\* The statements that the requests in progress may still send without asking
\* the circuit, one element each: the number of the attempt it would be, and the
\* number after the last one for createMemory's insert.
InProgress(r) == req[r].pc \in {"attempt", "backoff"}
RetryNumbers == 2..(maxRetries + 1)
RetriesLeft == {t \in Requests \X RetryNumbers :
                    /\ InProgress(t[1]) /\ t[2] > req[t[1]].attempt
                    /\ t[2] > maxRetries => req[t[1]].kind = "createMemory"}

Attempted == \A r \in Requests : InProgress(r) => req[r].attempt \geq 1

\* The late attempts that were and those that may still be.  The bound alone is
\* not inductive: it says nothing of the retries that are still to come.
LoadToCome ==
    state = "OPEN" =>
        lateAttempts + Cardinality(RetriesLeft)
            \leq (Cardinality(Requests) - 1) * maxRetries

LoadInv == AInv /\ Attempted /\ LoadToCome

\* There are finitely many of them: at most maxRetries for each request.
LEMMA RetriesOf ==
    ASSUME NEW S \in SUBSET Requests
    PROVE  /\ IsFiniteSet(S) /\ Cardinality(S) \in Nat
           /\ IsFiniteSet(S \X RetryNumbers)
           /\ Cardinality(S \X RetryNumbers)
                = Cardinality(S) * maxRetries
<1>1. IsFiniteSet(S) /\ Cardinality(S) \in Nat
  BY FS_Subset, FS_CardinalityType, AdapterAssumption
<1>2. IsFiniteSet(RetryNumbers) /\ Cardinality(RetryNumbers) = maxRetries
  BY FS_Interval, AdapterAssumption DEF RetryNumbers
<1>3. QED
  BY <1>1, <1>2, FS_Product

LEMMA RetriesLeftFinite ==
    IsFiniteSet(RetriesLeft) /\ Cardinality(RetriesLeft) \in Nat
<1>1. IsFiniteSet(Requests \X RetryNumbers)
  BY RetriesOf
<1>2. RetriesLeft \in SUBSET (Requests \X RetryNumbers)
  BY DEF RetriesLeft
<1>3. QED
  BY <1>1, <1>2, FS_Subset, FS_CardinalityType

\* A step in which no request gains a retry and no late attempt is counted.
LEMMA NoNewRetries ==
    ASSUME LoadInv, state = "OPEN",
           RetriesLeft' \subseteq RetriesLeft, lateAttempts' = lateAttempts
    PROVE  LoadToCome'
<1>1. /\ IsFiniteSet(RetriesLeft')
      /\ Cardinality(RetriesLeft') \in Nat
      /\ Cardinality(RetriesLeft') \leq Cardinality(RetriesLeft)
  BY RetriesLeftFinite, FS_Subset, FS_CardinalityType
<1>2. /\ Cardinality(RetriesLeft) \in Nat /\ lateAttempts \in Nat
      /\ Cardinality(Requests) \in Nat /\ maxRetries \in Nat
  BY RetriesLeftFinite, RetriesOf, AdapterAssumption, Parts DEF LoadInv
<1>3. lateAttempts + Cardinality(RetriesLeft)
          \leq (Cardinality(Requests) - 1) * maxRetries
  BY DEF LoadInv, LoadToCome
<1>4. (Cardinality(Requests) - 1) * maxRetries \in Int
  BY <1>2
<1> DEFINE bound == (Cardinality(Requests) - 1) * maxRetries
<1> HIDE DEF bound
<1>5. lateAttempts' + Cardinality(RetriesLeft') \leq bound
  BY <1>1, <1>2, <1>3, <1>4 DEF bound
<1>6. QED
  BY <1>5 DEF LoadToCome, bound

\* One request changes its record: which statements are left afterwards.
LEMMA RetriesAfter ==
    ASSUME AInv, NEW r \in Requests, NEW x, req' = [req EXCEPT ![r] = x]
    PROVE  /\ x.pc \notin {"attempt", "backoff"}
                => RetriesLeft' \subseteq RetriesLeft
                   /\ RetriesLeft' \subseteq (Requests \ {r}) \X RetryNumbers
           /\ /\ InProgress(r) /\ x.attempt = req[r].attempt
              /\ x.kind = req[r].kind
              /\ x.pc \in {"attempt", "backoff"}
              => RetriesLeft' = RetriesLeft
           /\ /\ InProgress(r) /\ x.pc = "attempt" /\ x.kind = req[r].kind
              /\ x.attempt = req[r].attempt + 1
              => RetriesLeft' \subseteq RetriesLeft \ {<<r, x.attempt>>}
<1>1. \A q \in Requests : req'[q] = IF q = r THEN x ELSE req[q]
  BY DEF AInv, TypeOK
<1>2. \A q \in Requests : req[q].attempt \in Nat
  BY AdapterAssumption DEF AInv, TypeOK
<1>3. ASSUME x.pc \notin {"attempt", "backoff"}
      PROVE  /\ RetriesLeft' \subseteq RetriesLeft
             /\ RetriesLeft' \subseteq (Requests \ {r}) \X RetryNumbers
  BY <1>1, <1>3 DEF RetriesLeft, InProgress, RetryNumbers
<1>4. ASSUME InProgress(r), x.attempt = req[r].attempt, x.kind = req[r].kind,
             x.pc \in {"attempt", "backoff"}
      PROVE  RetriesLeft' = RetriesLeft
  BY <1>1, <1>4 DEF RetriesLeft, InProgress, RetryNumbers
<1>5. ASSUME InProgress(r), x.pc = "attempt", x.kind = req[r].kind,
             x.attempt = req[r].attempt + 1
      PROVE  RetriesLeft' \subseteq RetriesLeft \ {<<r, x.attempt>>}
  <2>1. \A t \in Requests \X RetryNumbers :
           t \in RetriesLeft' => (t \in RetriesLeft /\ t # <<r, x.attempt>>)
    BY <1>1, <1>2, <1>5 DEF RetriesLeft, InProgress, RetryNumbers
  <2>2. QED
    BY <2>1 DEF RetriesLeft, RetryNumbers
<1>6. QED
  BY <1>3, <1>4, <1>5

\* A statement is sent while the circuit is open, and it is one of those that
\* were left.
LEMMA LateCounts ==
    ASSUME LoadInv, state = "OPEN", NEW t \in RetriesLeft,
           RetriesLeft' \subseteq RetriesLeft \ {t},
           lateAttempts' = lateAttempts + 1
    PROVE  LoadToCome'
<1>1. /\ Cardinality(RetriesLeft \ {t}) = Cardinality(RetriesLeft) - 1
      /\ IsFiniteSet(RetriesLeft \ {t})
  BY RetriesLeftFinite, FS_RemoveElement
<1>2. /\ IsFiniteSet(RetriesLeft') /\ Cardinality(RetriesLeft') \in Nat
      /\ Cardinality(RetriesLeft') \leq Cardinality(RetriesLeft) - 1
  BY <1>1, FS_Subset, FS_CardinalityType
<1>3. lateAttempts \in Nat /\ Cardinality(RetriesLeft) \in Nat
  BY Parts, RetriesLeftFinite DEF LoadInv
<1>4. /\ Cardinality(Requests) \in Nat /\ maxRetries \in Nat
      /\ (Cardinality(Requests) - 1) * maxRetries \in Int
  <2>1. Cardinality(Requests) \in Nat /\ maxRetries \in Nat
    BY RetriesOf, AdapterAssumption
  <2>2. QED
    BY <2>1
<1>5. lateAttempts + Cardinality(RetriesLeft)
          \leq (Cardinality(Requests) - 1) * maxRetries
  BY DEF LoadInv, LoadToCome
<1> DEFINE bound == (Cardinality(Requests) - 1) * maxRetries
<1> HIDE DEF bound
<1>6. lateAttempts' + Cardinality(RetriesLeft') \leq bound
  BY <1>2, <1>3, <1>4, <1>5 DEF bound
<1>7. QED
  BY <1>6 DEF LoadToCome, bound

\* withRetry wakes up while the circuit is open: one statement less is left.
LEMMA RetryCounts ==
    ASSUME LoadInv, NEW r \in Requests, Retry(r)
    PROVE  LoadToCome'
<1> DEFINE x == [req[r] EXCEPT !.pc = "attempt", !.attempt = @ + 1]
<1> SUFFICES ASSUME state = "OPEN" PROVE LoadToCome'
  BY DEF LoadToCome, Retry, breakerVars
<1>1. req[r] \in ReqRecord /\ InProgress(r) /\ req[r].attempt < maxRetries
  BY Parts DEF LoadInv, Retry, AInv, AttemptLeft, MaySleep, InProgress
<1>2. req[r].attempt + 1 \in 2..maxRetries
  BY <1>1, AdapterAssumption DEF LoadInv, Attempted, ReqRecord
<1>3. /\ x.pc = "attempt" /\ x.attempt = req[r].attempt + 1
      /\ x.kind = req[r].kind
  BY <1>1 DEF ReqRecord
<1>4. RetriesLeft' \subseteq RetriesLeft \ {<<r, req[r].attempt + 1>>}
  <2>1. req' = [req EXCEPT ![r] = x] /\ AInv
    BY DEF Retry, LoadInv
  <2> HIDE DEF x
  <2>2. QED
    BY <1>1, <1>3, <2>1, RetriesAfter
<1>5. <<r, req[r].attempt + 1>> \in RetriesLeft
  BY <1>1, <1>2, AdapterAssumption
  DEF RetriesLeft, RetryNumbers, InProgress, ReqRecord
<1>6. lateAttempts' = lateAttempts + 1
  BY DEF Retry, NoteLate
<1>7. QED
  BY <1>4, <1>5, <1>6, LateCounts

\* The insert follows the search although the circuit is open.
LEMMA SearchCounts ==
    ASSUME LoadInv, NEW r \in Requests, SearchSucceeds(r)
    PROVE  LoadToCome'
<1> DEFINE x == [req[r] EXCEPT !.pc = "insert"]
<1> SUFFICES ASSUME state' = "OPEN" PROVE LoadToCome'
  BY DEF LoadToCome
<1>1. state = "OPEN"
  BY DEF SearchSucceeds, OnSuccess, reset, breakerVars
<1>2. req[r] \in ReqRecord /\ InProgress(r) /\ req[r].kind = "createMemory"
  BY Parts DEF LoadInv, SearchSucceeds, InProgress
<1>3. x.pc = "insert"
  BY <1>2 DEF ReqRecord
<1>4. /\ RetriesLeft' \subseteq RetriesLeft
      /\ RetriesLeft' \subseteq (Requests \ {r}) \X RetryNumbers
  <2>1. req' = [req EXCEPT ![r] = x] /\ AInv
    BY DEF SearchSucceeds, LoadInv
  <2> HIDE DEF x
  <2>2. QED
    BY <1>3, <2>1, RetriesAfter
<1>5. <<r, maxRetries + 1>> \in RetriesLeft
  BY <1>2, AdapterAssumption
  DEF RetriesLeft, RetryNumbers, InProgress, ReqRecord
<1>6. RetriesLeft' \subseteq RetriesLeft \ {<<r, maxRetries + 1>>}
  BY <1>4
<1>7. lateAttempts' = lateAttempts + 1
  BY <1>1 DEF SearchSucceeds, NoteLate
<1>8. QED
  BY <1>1, <1>5, <1>6, <1>7, LateCounts

\* The circuit opens: the request whose failure opened it has no retry left.
LEMMA OpeningCounts ==
    ASSUME LoadInv, NEW r \in Requests, state # "OPEN", lateAttempts' = 0,
           RetriesLeft' \subseteq (Requests \ {r}) \X RetryNumbers
    PROVE  LoadToCome'
<1>1. Cardinality(Requests \ {r}) = Cardinality(Requests) - 1
  BY FS_RemoveElement, AdapterAssumption
<1>2. /\ IsFiniteSet((Requests \ {r}) \X RetryNumbers)
      /\ Cardinality((Requests \ {r}) \X RetryNumbers)
            = (Cardinality(Requests) - 1) * maxRetries
  BY <1>1, RetriesOf
<1>3. /\ IsFiniteSet(RetriesLeft')
      /\ Cardinality(RetriesLeft')
            \leq (Cardinality(Requests) - 1) * maxRetries
  BY <1>2, FS_Subset
<1>4. Cardinality(RetriesLeft') \in Nat
  BY <1>3, FS_CardinalityType
<1>5. QED
  BY <1>3, <1>4 DEF LoadToCome

\* A step after which the request has no statement left: it has ended, or
\* createMemory will ask the circuit before it sends another one.
LEMMA EndCounts ==
    ASSUME LoadInv, NEW r \in Requests, NEW x,
           req' = [req EXCEPT ![r] = x], x.pc \notin {"attempt", "backoff"},
           \/ NoteOpening
           \/ lateAttempts' = lateAttempts /\ (state' = "OPEN" => state = "OPEN")
    PROVE  Attempted' /\ LoadToCome'
<1>1. /\ RetriesLeft' \subseteq RetriesLeft
      /\ RetriesLeft' \subseteq (Requests \ {r}) \X RetryNumbers
  BY RetriesAfter DEF LoadInv
<1>2. Attempted'
  BY DEF LoadInv, AInv, TypeOK, Attempted, InProgress
<1>3. CASE state = "OPEN"
  BY <1>1, <1>2, <1>3, NoNewRetries DEF NoteOpening
<1>4. CASE state # "OPEN" /\ state' = "OPEN"
  BY <1>1, <1>2, <1>4, OpeningCounts DEF NoteOpening
<1>5. CASE state' # "OPEN"
  BY <1>2, <1>5 DEF LoadToCome
<1>6. QED
  BY <1>3, <1>4, <1>5

\* The steps of that kind.
LEMMA EndingCounts ==
    ASSUME LoadInv, NEW r \in Requests,
           \/ AttemptSucceeds(r) \/ AttemptSwallowed(r) \/ RetriesExhausted(r)
           \/ SearchExhausted(r) \/ InsertSucceeds(r) \/ InsertFails(r)
           \/ InsertExhausted(r) \/ ResumeRejected(r) \/ OuterSettles(r)
    PROVE  Attempted' /\ LoadToCome'
<1>1. req[r] \in ReqRecord
  BY Parts DEF LoadInv
<1>2. OnSuccess => (state' = "OPEN" => state = "OPEN")
  BY DEF OnSuccess, reset, breakerVars
<1>3. \/ NoteOpening
      \/ lateAttempts' = lateAttempts /\ (state' = "OPEN" => state = "OPEN")
  <2>1. CASE \/ AttemptSucceeds(r) \/ AttemptSwallowed(r) \/ InsertSucceeds(r)
    BY <1>2, <2>1 DEF AttemptSucceeds, AttemptSwallowed, InsertSucceeds
  <2>2. CASE InsertFails(r) \/ ResumeRejected(r)
    BY <2>2 DEF InsertFails, ResumeRejected, MustReject, breakerVars, history
  <2>3. CASE \/ RetriesExhausted(r) \/ SearchExhausted(r)
             \/ InsertExhausted(r) \/ OuterSettles(r)
    BY <2>3 DEF RetriesExhausted, SearchExhausted, InsertExhausted, OuterSettles
  <2>4. QED
    BY <2>1, <2>2, <2>3
<1>4. PICK x : /\ req' = [req EXCEPT ![r] = x]
               /\ x.pc \notin {"attempt", "backoff"}
  <2>1. CASE req' = [req EXCEPT ![r] = Idle]
    BY <2>1, IdleRecord
  <2>2. CASE \E place \in {"pause", "drain"} : req' = [req EXCEPT ![r].pc = place]
    <3>1. PICK place \in {"pause", "drain"} :
              req' = [req EXCEPT ![r] = [req[r] EXCEPT !.pc = place]]
      BY <2>2
    <3>2. [req[r] EXCEPT !.pc = place].pc = place
      BY <1>1 DEF ReqRecord
    <3>3. QED
      BY <3>1, <3>2
  <2>3. CASE req' = [req EXCEPT ![r].outer = @ + 1] /\ req[r].pc = "pause"
    <3>1. [req[r] EXCEPT !.outer = @ + 1].pc = "pause"
      BY <1>1, <2>3 DEF ReqRecord
    <3>2. QED
      BY <2>3, <3>1
  <2>4. QED
    BY <2>1, <2>2, <2>3
    DEF AttemptSucceeds, AttemptSwallowed, RetriesExhausted, SearchExhausted,
        InsertSucceeds, InsertFails, InsertExhausted, ResumeRejected,
        OuterSettles
<1>5. QED
  BY <1>3, <1>4, EndCounts

\* Steps that leave the requests alone, but for one that goes to sleep.
LEMMA SameRetriesCount ==
    ASSUME LoadInv, RetriesLeft' = RetriesLeft, state' = state,
           lateAttempts' = lateAttempts
    PROVE  LoadToCome'
  BY NoNewRetries DEF LoadToCome

\* Every step keeps the retries that are still to come within the bound.
LEMMA NextLoadInv == LoadInv /\ [Next]_vars => LoadInv'
<1> SUFFICES ASSUME LoadInv, [Next]_vars PROVE Attempted' /\ LoadToCome'
  BY NextAInv DEF LoadInv
<1>1. ASSUME NEW r \in Requests, Resume(r) \/ \E k \in Kinds : Call(r, k)
      PROVE  Attempted' /\ LoadToCome'
  <2>1. PICK x : /\ req' = [req EXCEPT ![r] = x] /\ x.attempt = 1
    <3>1. CASE \E k \in Kinds : Call(r, k)
      <4>1. PICK k \in Kinds : Call(r, k)
        BY <3>1
      <4> DEFINE x == [pc |-> "attempt", kind |-> k, attempt |-> 1,
                       outer |-> 1]
      <4>2. req' = [req EXCEPT ![r] = x] /\ x.attempt = 1
        BY <4>1 DEF Call
      <4> HIDE DEF x
      <4>3. QED
        BY <4>2
    <3>2. CASE Resume(r)
      <4>1. [req[r] EXCEPT !.pc = "attempt", !.attempt = 1,
                           !.outer = @ + 1].attempt = 1
        BY Parts DEF LoadInv, ReqRecord
      <4>2. QED
        BY <3>2, <4>1 DEF Resume
    <3>3. QED
      BY <1>1, <3>1, <3>2
  <2>2. Attempted'
    BY <2>1 DEF LoadInv, AInv, TypeOK, Attempted, InProgress
  <2>3. state' # "OPEN"
    BY <1>1 DEF Resume, Call, EnterExecute
  <2>4. QED
    BY <2>2, <2>3 DEF LoadToCome
<1>2. ASSUME NEW r \in Requests, Settle(r), ~Resume(r)
      PROVE  Attempted' /\ LoadToCome'
  <2>1. CASE AttemptFails(r)
    <3> DEFINE x == [req[r] EXCEPT !.pc = "backoff"]
    <3>1. /\ req' = [req EXCEPT ![r] = x]
          /\ req[r].pc = "attempt" /\ req[r] \in ReqRecord
          /\ state' = state /\ lateAttempts' = lateAttempts
      BY <2>1, Parts DEF AttemptFails, breakerVars, history, LoadInv
    <3>2. /\ x.pc = "backoff" /\ x.attempt = req[r].attempt
          /\ x.kind = req[r].kind
      BY <3>1 DEF ReqRecord
    <3>3. InProgress(r)
      BY <3>1 DEF InProgress
    <3> HIDE DEF x
    <3>4. RetriesLeft' = RetriesLeft
      BY <3>1, <3>2, <3>3, RetriesAfter DEF LoadInv
    <3>5. Attempted'
      BY <3>1, <3>2, <3>3 DEF LoadInv, AInv, TypeOK, Attempted, InProgress
    <3>6. QED
      BY <3>1, <3>4, <3>5, SameRetriesCount
  <2>2. CASE Retry(r)
    <3> DEFINE x == [req[r] EXCEPT !.pc = "attempt", !.attempt = @ + 1]
    <3>1. /\ req' = [req EXCEPT ![r] = x]
          /\ InProgress(r) /\ req[r] \in ReqRecord
      BY <2>2, Parts DEF Retry, LoadInv, InProgress
    <3>2. x.attempt = req[r].attempt + 1 /\ req[r].attempt \in Nat
      BY <3>1, AdapterAssumption DEF ReqRecord
    <3> HIDE DEF x
    <3>3. Attempted'
      BY <3>1, <3>2 DEF LoadInv, AInv, TypeOK, Attempted, InProgress
    <3>4. QED
      BY <2>2, <3>3, RetryCounts
  <2>3. CASE SearchSucceeds(r)
    <3> DEFINE x == [req[r] EXCEPT !.pc = "insert"]
    <3>1. req' = [req EXCEPT ![r] = x] /\ req[r] \in ReqRecord
      BY <2>3, Parts DEF SearchSucceeds, LoadInv
    <3>2. x.pc = "insert"
      BY <3>1 DEF ReqRecord
    <3> HIDE DEF x
    <3>3. Attempted'
      BY <3>1, <3>2 DEF LoadInv, AInv, TypeOK, Attempted, InProgress
    <3>4. QED
      BY <2>3, <3>3, SearchCounts
  <2>4. QED
    BY <1>2, <2>1, <2>2, <2>3, EndingCounts DEF Settle
<1>3. ASSUME UNCHANGED req, state' = state, lateAttempts' = lateAttempts
      PROVE  Attempted' /\ LoadToCome'
  <2>1. RetriesLeft' = RetriesLeft /\ Attempted'
    BY <1>3 DEF RetriesLeft, RetryNumbers, InProgress, LoadInv, Attempted
  <2>2. QED
    BY <1>3, <2>1, SameRetriesCount
<1>4. QED
  <2>1. CASE Next
    <3>1. CASE \/ Tick \/ DatabaseChange \/ \E r \in Requests : Reject(r)
      BY <1>3, <3>1
      DEF Tick, DatabaseChange, Reject, PassTime, vars, breakerVars, history
    <3>2. QED
      BY <1>1, <1>2, <2>1, <3>1 DEF Next, Settle
  <2>2. CASE UNCHANGED vars
    BY <1>3, <2>2 DEF vars, breakerVars, history
  <2>3. QED
    BY <2>1, <2>2

\* withRetry does not look at the circuit again, so an open circuit does not
\* keep all load off the database; but whatever the interleaving, the database
\* sees at most maxRetries statements of each request other than the one that
\* opened it: createMemory's 3 x 3 attempts add one insert, not nine attempts.
THEOREM AdapterBoundedLoad == Spec => []BoundedLoadWhileOpen
<1>1. Init => LoadInv
  <2>1. Init => state # "OPEN"
    BY DEF Init, BreakerInit
  <2>2. Init => Attempted
    BY DEF Init, Idle, Attempted, InProgress
  <2>3. QED
    BY <2>1, <2>2, InitAInv DEF LoadInv, LoadToCome
<1>2. LoadInv => BoundedLoadWhileOpen
  <2> SUFFICES ASSUME LoadInv, state = "OPEN"
               PROVE  lateAttempts
                        \leq (Cardinality(Requests) - 1) * maxRetries
    BY DEF BoundedLoadWhileOpen
  <2>1. /\ lateAttempts \in Nat /\ Cardinality(RetriesLeft) \in Nat
        /\ Cardinality(Requests) \in Nat /\ maxRetries \in Nat
    BY Parts, RetriesLeftFinite, RetriesOf, AdapterAssumption DEF LoadInv
  <2>2. lateAttempts + Cardinality(RetriesLeft)
            \leq (Cardinality(Requests) - 1) * maxRetries
    BY DEF LoadInv, LoadToCome
  <2>3. (Cardinality(Requests) - 1) * maxRetries \in Int
    BY <2>1
  <2>4. QED
    BY <2>1, <2>2, <2>3
<1>3. QED
  BY NextLoadInv, <1>1, <1>2, PTL DEF Spec
=============================================================================
