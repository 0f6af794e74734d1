---------------------------- MODULE TwitterQueue ----------------------------
(***************************************************************************)
(* client-twitter's RequestQueue, through which ClientBase sends its calls *)
(* to Twitter one after the other, with the two ways it is used:           *)
(*   "send"    requestQueue.add(() => sendTweet(...)), no time-out;        *)
(*   "search"  fetchSearchTweets: the call races a timer, and the timer is *)
(*             started before the request is queued.                       *)
(* The worker (processQueue) runs while there are requests; add() starts   *)
(* it when it is off, in the same synchronous stretch.  The function that  *)
(* add() puts in the queue never rejects, so the worker's retry branch     *)
(* (unshift and exponentialBackoff) is not reachable and not modelled.     *)
(***************************************************************************)
EXTENDS Naturals, Sequences, FiniteSets

CONSTANTS
    Requests,   \* the requests of a behaviour
    Searches,   \* those that come from fetchSearchTweets
    None        \* the worker's "no request"

ASSUME QueueAssumption == Searches \subseteq Requests /\ None \notin Requests

VARIABLES
    queue,       \* RequestQueue.queue
    processing,  \* RequestQueue.processing
    current,     \* the request the worker awaits, or None while it pauses
    timer,       \* each search's timer: "off", "set" or "expired"
    outstanding, \* Twitter calls made and not answered yet
    outcome,     \* what the caller of add() sees of each request
    added,       \* history: requests in the order of add()
    started      \* history: requests in the order of their Twitter call

history == <<added, started>>
queueVars == <<queue, processing, current, timer, outstanding, outcome, history>>

QueueTypeOK ==
    /\ queue \in Seq(Requests)
    /\ processing \in BOOLEAN
    /\ current \in Requests \cup {None}
    /\ timer \in [Requests -> {"off", "set", "expired"}]
    /\ outstanding \subseteq Requests
    /\ outcome \in [Requests -> {"new", "pending", "result", "error", "empty"}]
    /\ added \in Seq(Requests)
    /\ started \in Seq(Requests)

QueueInit ==
    /\ queue = << >>
    /\ processing = FALSE
    /\ current = None
    /\ timer = [r \in Requests |-> "off"]
    /\ outstanding = {}
    /\ outcome = [r \in Requests |-> "new"]
    /\ added = << >>
    /\ started = << >>

\* The worker calls request r.  A search whose timer has expired in the queue
\* calls Twitter as well, but Promise.race already has a winner: the search is
\* over at once, with no tweets, and the call is left to itself.
Start(r, t) ==
    /\ started' = Append(started, r)
    /\ outstanding' = outstanding \cup {r}
    /\ IF t[r] = "expired"
       THEN current' = None /\ outcome' = [outcome EXCEPT ![r] = "empty"]
       ELSE current' = r /\ outcome' = [outcome EXCEPT ![r] = "pending"]

\* Mutations of Add: the newest request goes first; a second worker is started
\* while one is on; the worker is not started.
Add_First(r) ==
    /\ outcome[r] = "new"
    /\ added' = Append(added, r)
    /\ timer' = [timer EXCEPT ![r] = IF r \in Searches THEN "set" ELSE "off"]
    /\ processing' = TRUE
    /\ IF processing
       THEN /\ queue' = <<r>> \o queue
            /\ outcome' = [outcome EXCEPT ![r] = "pending"]
            /\ UNCHANGED <<current, outstanding, started>>
       ELSE /\ Start(r, timer')
            /\ UNCHANGED queue

Add_SecondWorker(r) ==
    /\ outcome[r] = "new"
    /\ added' = Append(added, r)
    /\ timer' = [timer EXCEPT ![r] = IF r \in Searches THEN "set" ELSE "off"]
    /\ processing' = TRUE
    /\ Start(r, timer')
    /\ UNCHANGED queue

Add_WithoutWorker(r) ==
    /\ outcome[r] = "new"
    /\ added' = Append(added, r)
    /\ timer' = [timer EXCEPT ![r] = IF r \in Searches THEN "set" ELSE "off"]
    /\ queue' = Append(queue, r)
    /\ outcome' = [outcome EXCEPT ![r] = "pending"]
    /\ UNCHANGED <<processing, current, outstanding, started>>

\* add(), from a search with its timer already running, or from a send.
Add(r) ==
    /\ outcome[r] = "new"
    /\ added' = Append(added, r)
    /\ timer' = [timer EXCEPT ![r] = IF r \in Searches THEN "set" ELSE "off"]
    /\ processing' = TRUE
    /\ IF processing
       THEN /\ queue' = Append(queue, r)
            /\ outcome' = [outcome EXCEPT ![r] = "pending"]
            /\ UNCHANGED <<current, outstanding, started>>
       ELSE /\ Start(r, timer')
            /\ UNCHANGED queue

\* Mutation of Continue: the worker goes off after each request.
Continue_OneOnly ==
    /\ processing /\ current = None
    /\ processing' = FALSE
    /\ IF queue = << >>
       THEN UNCHANGED <<queue, current, outstanding, outcome, started>>
       ELSE /\ queue' = Tail(queue)
            /\ Start(Head(queue), timer)
    /\ UNCHANGED <<timer, added>>

\* The random pause after a request is over.
Continue ==
    /\ processing /\ current = None
    /\ IF queue = << >>
       THEN /\ processing' = FALSE
            /\ UNCHANGED <<queue, current, outstanding, outcome, started>>
       ELSE /\ queue' = Tail(queue)
            /\ Start(Head(queue), timer)
            /\ UNCHANGED processing
    /\ UNCHANGED <<timer, added>>

\* Twitter answers, or the call fails.  For the worker's current request that
\* settles the promise; a failed search becomes an empty result
\* (fetchSearchTweets catches it).  An abandoned call's answer goes nowhere.
Answer(r) ==
    /\ r \in outstanding
    /\ outstanding' = outstanding \ {r}
    /\ IF current = r
       THEN /\ current' = None
            /\ \E ok \in BOOLEAN :
                  outcome' = [outcome EXCEPT ![r] =
                      IF ok THEN "result"
                      ELSE IF r \in Searches THEN "empty" ELSE "error"]
       ELSE UNCHANGED <<current, outcome>>
    /\ UNCHANGED <<queue, processing, timer, history>>

\* A search's timer expires; if the worker is at that search, it wins the race.
Expire(r) ==
    /\ timer[r] = "set"
    /\ timer' = [timer EXCEPT ![r] = "expired"]
    /\ IF current = r
       THEN /\ current' = None
            /\ outcome' = [outcome EXCEPT ![r] = "empty"]
       ELSE UNCHANGED <<current, outcome>>
    /\ UNCHANGED <<queue, processing, outstanding, history>>

QueueNext ==
    \/ \E r \in Requests : Add(r) \/ Answer(r) \/ Expire(r)
    \/ Continue

QueueSpec == QueueInit /\ [][QueueNext]_queueVars

\* The pause ends, and Twitter answers or the connection breaks.  A call that
\* hangs for ever would hold up every later one: a send has no time-out.
QueueFairSpec ==
    /\ QueueSpec
    /\ WF_queueVars(Continue)
    /\ \A r \in Requests : WF_queueVars(Answer(r))

-----------------------------------------------------------------------------
\* Requests reach Twitter in the order in which they were added, each once,
\* and none is overtaken or lost while the worker goes on and off.
InOrder == added = started \o queue

\* Requests wait only while the worker is on: there is never a queue that
\* nobody works on.
NoOrphanedQueue == queue # << >> => processing

\* Two sends are never under way at once, so the tweets of a reply thread come
\* out in order; searches given up may still be under way.
SendsOneByOne ==
    \A r \in outstanding \ Searches : current = r

\* The queue is one work queue: requests come to work one at a time, in order,
\* also when a search is given up before or during its turn, and the worker goes
\* off only with an empty queue.
Work == INSTANCE WorkQueue WITH
    Items  <- Requests,
    up     <- TRUE,
    line   <- queue,
    atWork <- current,
    on     <- processing

ImplementsWorkQueue == Work!Spec

\* Every request that was added is settled in the end.
EveryRequestSettles ==
    \A r \in Requests :
        outcome[r] = "pending" ~> outcome[r] \in {"result", "error", "empty"}
=============================================================================
