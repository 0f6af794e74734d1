-------------------------- MODULE PostgresAdapter ---------------------------
(***************************************************************************)
(* How adapter-postgres uses the circuit breaker: every public method is   *)
(* withDatabase(operation) = the breaker around withRetry around the       *)
(* operation.  The methods differ in what they do with a database error:   *)
(*   "throws"    getRoom, createMemory, ...: the error leaves the          *)
(*               operation, is retried, and counts as a failure in the end;*)
(*   "swallows"  createAccount, addParticipant, removeParticipant,         *)
(*               createRelationship, setCache, deleteCache: the operation  *)
(*               catches it and resolves to false, which nobody retries    *)
(*               and the breaker takes for a success;                      *)
(*   "nested"    getCache: the operation calls this.query(), which goes    *)
(*               through withDatabase a second time, and catches what that *)
(*               throws;                                                   *)
(*   "createMemory"  with an embedding: the operation first searches       *)
(*               similar memories, through withDatabase a second time and  *)
(*               without catching, then inserts.  So the search has its    *)
(*               own attempts within each attempt of the whole.            *)
(* A database that works refuses statements too (an id that exists, a row  *)
(* that is referred to), and the code treats the error like any other.     *)
(* The inner execute() of a nested call runs in the same synchronous       *)
(* stretch as the outer one, and the outer one's continuation in the same  *)
(* drain of the microtask queue as the inner one's: nothing else runs in   *)
(* between (Draining).                                                     *)
(***************************************************************************)
EXTENDS BreakerState, FiniteSets

CONSTANTS
    Requests,    \* the requests that may be in flight together
    Kinds,       \* the kinds of method the callers use
    maxRetries   \* attempts of withRetry (3)

ASSUME AdapterAssumption ==
    /\ IsFiniteSet(Requests)
    /\ Kinds \subseteq {"throws", "swallows", "nested", "createMemory"}
    /\ maxRetries \in Nat \ {0}

VARIABLES
    req,           \* each request: its kind, where it is, which attempt of
                   \* the innermost withRetry and which of createMemory's own
    up,            \* does the database answer?
    heard,         \* history: what came back since the circuit went half-open
    lateAttempts   \* history: attempts started since the circuit opened

history == <<heard, lateAttempts>>
vars == <<breakerVars, req, up, history>>

\* "attempt": a statement is with the database; "backoff": withRetry sleeps;
\* "insert", "pause": the same for createMemory itself, whose "attempt" and
\* "backoff" are those of its search; "drain": the inner execute() has settled
\* for good and the outer one resumes next.
Places == {"idle", "attempt", "backoff", "insert", "pause", "drain"}
Idle == [pc |-> "idle", kind |-> "none", attempt |-> 0, outer |-> 0]

\* An answer of the database, an error of it that the method swallowed.
Outcomes == {"answer", "swallowed"}

TypeOK ==
    /\ BreakerTypeOK
    /\ req \in [Requests -> [pc: Places,
                             kind: Kinds \cup {"none"},
                             attempt: 0..maxRetries,
                             outer: 0..maxRetries]]
    /\ up \in BOOLEAN
    /\ heard \subseteq Outcomes
    /\ lateAttempts \in Nat

Init ==
    /\ BreakerInit
    /\ req = [r \in Requests |-> Idle]
    /\ up \in BOOLEAN
    /\ heard = {}
    /\ lateAttempts = 0

Draining == \E r \in Requests : req[r].pc = "drain"

\* The circuit (re)opens in this step: the count of late attempts starts over.
NoteOpening == lateAttempts' =
    IF state # "OPEN" /\ state' = "OPEN" THEN 0 ELSE lateAttempts

\* A statement is sent by a call that does not look at the circuit.
NoteLate == lateAttempts' =
    IF state = "OPEN" THEN lateAttempts + 1 ELSE lateAttempts

\* execute() lets a call through: what comes back from now on counts.
NoteProbe == heard' = IF state = "OPEN" THEN {} ELSE heard

-----------------------------------------------------------------------------
\* withCircuitBreaker throws without calling withRetry.
Reject(r) ==
    /\ ~Draining
    /\ req[r] = Idle
    /\ MustReject
    /\ UNCHANGED vars

\* A method of kind k is called and its first statement is sent.
Call(r, k) ==
    /\ ~Draining
    /\ req[r] = Idle
    /\ EnterExecute
    /\ req' = [req EXCEPT ![r] = [pc |-> "attempt", kind |-> k,
                                 attempt |-> 1, outer |-> 1]]
    /\ NoteProbe
    /\ UNCHANGED <<up, lateAttempts>>

\* The database answers an attempt: the innermost execute() succeeds.
AttemptSucceeds(r) ==
    /\ ~Draining
    /\ req[r].pc = "attempt" /\ req[r].kind # "createMemory"
    /\ up
    /\ OnSuccess
    /\ req' = [req EXCEPT ![r] =
                 IF req[r].kind = "nested" THEN [@ EXCEPT !.pc = "drain"]
                                           ELSE Idle]
    /\ heard' = heard \cup {"answer"}
    /\ UNCHANGED <<up, lateAttempts>>

\* createMemory's search is answered: its execute() succeeds, and the insert
\* follows at once, whatever the circuit is.
SearchSucceeds(r) ==
    /\ ~Draining
    /\ req[r].pc = "attempt" /\ req[r].kind = "createMemory"
    /\ up
    /\ OnSuccess
    /\ req' = [req EXCEPT ![r].pc = "insert"]
    /\ heard' = heard \cup {"answer"}
    /\ NoteLate
    /\ UNCHANGED up

\* The attempt fails and the method itself turns the error into a result.
AttemptSwallowed(r) ==
    /\ ~Draining
    /\ req[r].pc = "attempt" /\ req[r].kind = "swallows"
    /\ OnSuccess
    /\ req' = [req EXCEPT ![r] = Idle]
    /\ heard' = heard \cup {"swallowed"}
    /\ UNCHANGED <<up, lateAttempts>>

\* Mutation of AttemptFails: one retry too many.
AttemptFails_OneTooMany(r) ==
    /\ ~Draining
    /\ req[r].pc = "attempt" /\ req[r].kind # "swallows"
    /\ req[r].attempt \leq maxRetries
    /\ req' = [req EXCEPT ![r].pc = "backoff"]
    /\ UNCHANGED <<breakerVars, up, history>>

\* The attempt fails and the innermost withRetry has attempts left: it goes to
\* sleep.
AttemptFails(r) ==
    /\ ~Draining
    /\ req[r].pc = "attempt" /\ req[r].kind # "swallows"
    /\ req[r].attempt < maxRetries
    /\ req' = [req EXCEPT ![r].pc = "backoff"]
    /\ UNCHANGED <<breakerVars, up, history>>

\* The last attempt fails: withRetry throws, the innermost execute() counts a
\* failure; a nested call swallows it and its outer execute() goes on.
RetriesExhausted(r) ==
    /\ ~Draining
    /\ req[r].pc = "attempt" /\ req[r].kind \in {"throws", "nested"}
    /\ req[r].attempt = maxRetries
    /\ handleFailure
    /\ req' = [req EXCEPT ![r] =
                 IF req[r].kind = "nested" THEN [@ EXCEPT !.pc = "drain"]
                                           ELSE Idle]
    /\ NoteOpening
    /\ UNCHANGED <<up, heard>>

\* The last attempt of createMemory's search fails and counts; the error leaves
\* the operation, and createMemory's own withRetry sleeps or throws it again.
SearchExhausted(r) ==
    /\ ~Draining
    /\ req[r].pc = "attempt" /\ req[r].kind = "createMemory"
    /\ req[r].attempt = maxRetries
    /\ handleFailure
    /\ req' = [req EXCEPT ![r].pc =
                 IF req[r].outer < maxRetries THEN "pause" ELSE "drain"]
    /\ NoteOpening
    /\ UNCHANGED <<up, heard>>

\* The back-off is over; withRetry does not look at the circuit again.
Retry(r) ==
    /\ ~Draining
    /\ req[r].pc = "backoff"
    /\ req' = [req EXCEPT ![r].pc = "attempt", ![r].attempt = @ + 1]
    /\ NoteLate
    /\ UNCHANGED <<breakerVars, up, heard>>

\* createMemory's insert: it is done, it is refused with attempts of the whole
\* left, or it is refused for the last time.
InsertSucceeds(r) ==
    /\ ~Draining
    /\ req[r].pc = "insert"
    /\ up
    /\ OnSuccess
    /\ req' = [req EXCEPT ![r] = Idle]
    /\ heard' = heard \cup {"answer"}
    /\ UNCHANGED <<up, lateAttempts>>

InsertFails(r) ==
    /\ ~Draining
    /\ req[r].pc = "insert"
    /\ req[r].outer < maxRetries
    /\ req' = [req EXCEPT ![r].pc = "pause"]
    /\ UNCHANGED <<breakerVars, up, history>>

InsertExhausted(r) ==
    /\ ~Draining
    /\ req[r].pc = "insert"
    /\ req[r].outer = maxRetries
    /\ handleFailure
    /\ req' = [req EXCEPT ![r] = Idle]
    /\ NoteOpening
    /\ UNCHANGED <<up, heard>>

\* createMemory's pause is over and it begins again: the search asks the
\* circuit, and may be the probe that makes it half-open.
Resume(r) ==
    /\ ~Draining
    /\ req[r].pc = "pause"
    /\ EnterExecute
    /\ req' = [req EXCEPT ![r].pc = "attempt", ![r].attempt = 1,
                         ![r].outer = @ + 1]
    /\ NoteProbe
    /\ UNCHANGED <<up, lateAttempts>>

\* The search is turned away.  Its execute() does not count that, but it is a
\* failed attempt of createMemory, and the last one counts like any failure.
ResumeRejected(r) ==
    /\ ~Draining
    /\ req[r].pc = "pause"
    /\ MustReject
    /\ IF req[r].outer + 1 < maxRetries
       THEN /\ req' = [req EXCEPT ![r].outer = @ + 1]
            /\ UNCHANGED breakerVars
       ELSE /\ req' = [req EXCEPT ![r] = Idle]
            /\ handleFailure
    /\ UNCHANGED <<up, history>>

\* The outer execute(): the operation of a nested call never rejects, that of
\* createMemory has just thrown for the last time.
OuterSettles(r) ==
    /\ req[r].pc = "drain"
    /\ IF req[r].kind = "nested" THEN OnSuccess ELSE handleFailure
    /\ req' = [req EXCEPT ![r] = Idle]
    /\ NoteOpening
    /\ UNCHANGED <<up, heard>>

Tick ==
    /\ ~Draining
    /\ sinceFailure < LongAgo
    /\ PassTime
    /\ UNCHANGED <<req, up, history>>

\* The database goes down or comes back.
DatabaseChange ==
    /\ ~Draining
    /\ up' = ~up
    /\ UNCHANGED <<breakerVars, req, history>>

Settle(r) ==
    \/ AttemptSucceeds(r) \/ AttemptSwallowed(r) \/ AttemptFails(r)
    \/ RetriesExhausted(r) \/ Retry(r) \/ OuterSettles(r)
    \/ SearchSucceeds(r) \/ SearchExhausted(r)
    \/ InsertSucceeds(r) \/ InsertFails(r) \/ InsertExhausted(r)
    \/ Resume(r) \/ ResumeRejected(r)

Next ==
    \/ \E r \in Requests :
          \/ Reject(r)
          \/ \E k \in Kinds : Call(r, k)
          \/ Settle(r)
    \/ Tick
    \/ DatabaseChange

Spec == Init /\ [][Next]_vars

\* Statements end (pg's time-outs), sleeps end, the clock runs, and the agent
\* keeps calling: also, time and again, a method that throws.
FairSpec ==
    /\ Spec
    /\ WF_vars(Tick)
    /\ \A r \in Requests :
          /\ WF_vars(Settle(r))
          /\ WF_vars(\E k \in Kinds : Call(r, k))
          /\ SF_vars(Call(r, "throws"))

-----------------------------------------------------------------------------
\* The breaker's own invariant survives the second entry of nested calls.
ClosedIffBelowThreshold ==
    (state = "CLOSED") <=> (failureCount < failureThreshold)

\* While the circuit is open the database still sees the statements of
\* requests let through before: at most the retries of one withRetry and the
\* insert behind the search, and none of the request whose failure opened the
\* circuit.  createMemory's own retries add nothing to that: each has to pass
\* the circuit again.
BoundedLoadWhileOpen ==
    state = "OPEN" =>
        lateAttempts \leq (Cardinality(Requests) - 1) * maxRetries

\* A circuit that closes has heard from the database since it went half-open,
\* if only by an error that a method swallowed: the second success of a nested
\* call, whose inner query has failed, never closes it.
ClosesOnOutcome ==
    [][ (state = "HALF_OPEN" /\ state' = "CLOSED") => heard' # {} ]_vars

\* While the database stays down, the circuit is open again and again: the
\* methods that swallow errors cannot keep it closed for good.
ShedsLoadWhenDown == <>[](~up) => []<>(state = "OPEN")

\* A statement is refused, and the method does not swallow that.
Refused ==
    \E r \in Requests :
        \/ AttemptFails(r) \/ RetriesExhausted(r) \/ SearchExhausted(r)
        \/ InsertFails(r) \/ InsertExhausted(r)

\* When the database has come back for good and refuses no statement any more,
\* the circuit closes for good.  The second premise is needed: nothing clears
\* the failures of a closed circuit, so those that a working database makes
\* add up until they open it.
RecoversWithService ==
    (<>[]up /\ <>[][~Refused]_vars) => <>[](state = "CLOSED")
=============================================================================
