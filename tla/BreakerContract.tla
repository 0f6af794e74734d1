-------------------------- MODULE BreakerContract ---------------------------
(***************************************************************************)
(* What a circuit breaker promises the code behind it and the code in      *)
(* front of it, without counters of failures or time stamps:               *)
(*   - while it is open nothing gets through, and it stays open for at     *)
(*     least Cooldown ticks;                                               *)
(*   - it never goes from open to closed without a half-open trial;        *)
(*   - the trial is decided by the outcomes seen during that trial: one    *)
(*     failure opens it again, Quota successes close it.                   *)
(* CircuitBreaker implements it (CircuitBreaker!Contract).                 *)
(***************************************************************************)
EXTENDS Naturals

CONSTANTS Callers, Cooldown, Quota

VARIABLES
    mode,      \* "CLOSED", "OPEN" or "HALF_OPEN"
    openFor,   \* ticks since mode last became "OPEN", capped
    wins,      \* successes since mode last became "HALF_OPEN"
    running    \* the callers whose operation has been let through

contractVars == <<mode, openFor, wins, running>>

Init ==
    /\ mode = "CLOSED"
    /\ openFor = 0
    /\ wins = 0
    /\ running = {}

\* A caller gets through a circuit that is not open.
Pass(c) ==
    /\ c \notin running
    /\ mode # "OPEN"
    /\ running' = running \cup {c}
    /\ UNCHANGED <<mode, openFor, wins>>

\* A caller gets through an open circuit once it has cooled down, and with
\* that starts a trial.
Trial(c) ==
    /\ c \notin running
    /\ mode = "OPEN"
    /\ openFor > Cooldown
    /\ running' = running \cup {c}
    /\ mode' = "HALF_OPEN"
    /\ wins' = 0
    /\ UNCHANGED openFor

\* An operation succeeds; only a trial takes notice.
Win(c) ==
    /\ c \in running
    /\ running' = running \ {c}
    /\ IF mode = "HALF_OPEN"
       THEN /\ wins' = wins + 1
            /\ mode' = IF wins' = Quota THEN "CLOSED" ELSE "HALF_OPEN"
       ELSE UNCHANGED <<mode, wins>>
    /\ UNCHANGED openFor

\* An operation fails: a trial is lost, a closed circuit may or may not open.
Lose(c) ==
    /\ c \in running
    /\ running' = running \ {c}
    /\ mode' \in {mode, "OPEN"}
    /\ mode = "HALF_OPEN" => mode' = "OPEN"
    /\ openFor' = IF mode # "OPEN" /\ mode' = "OPEN" THEN 0 ELSE openFor
    /\ UNCHANGED wins

Tick ==
    /\ openFor' = openFor + 1
    /\ openFor \leq Cooldown
    /\ UNCHANGED <<mode, wins, running>>

Next ==
    \/ \E c \in Callers : Pass(c) \/ Trial(c) \/ Win(c) \/ Lose(c)
    \/ Tick

Spec == Init /\ [][Next]_contractVars
=============================================================================
