--------------------------- MODULE AgentLifecycle ---------------------------
(***************************************************************************)
(* The agents of one process: startAgents() starts them one by one, then   *)
(* the HTTP server listens and POST /agents/:id/set replaces them, any     *)
(* number of requests at a time.  startAgent() initialises a runtime,      *)
(* which stores the character's knowledge (a document per item, then its   *)
(* fragments one by one, each after an embedding call), starts its clients *)
(* and registers it.  Every await is a step boundary; the knowledge is in  *)
(* a database that all agents share and that survives the process.         *)
(*                                                                         *)
(* The database is PostgreSQL: an INSERT of an id that is there already    *)
(* fails.  With SQLite a look-up and the insert after it run without an    *)
(* interruption, which is one of the interleavings here.  A rejection that *)
(* nobody handles ends the process (Node 23, no handler installed).  Each  *)
(* start also makes calls that it does not await: the adapter's test of    *)
(* its connection and the runtime's creation of its room, account and      *)
(* participant.                                                            *)
(***************************************************************************)
EXTENDS Naturals, Sequences, FiniteSets

CONSTANTS
    Agents,       \* agent ids (a character's id)
    Runtimes,     \* AgentRuntime objects that may exist together
    None,
    Items,        \* pieces of knowledge
    knowledgeOf,  \* the pieces in each agent's character, in order
    chunks,       \* how many fragments splitChunks makes of each
    Unstoppable,  \* agents with a client object that has no stop()
    BootOrder,    \* the characters startAgents() starts, in order
    MaxCrashes,   \* crashes from outside in a behaviour (bound)
    Faulty        \* may database calls, embeddings and clients fail?

ASSUME LifecycleAssumption ==
    /\ None \notin Agents \cup Runtimes
    /\ knowledgeOf \in [Agents -> Seq(Items)]
    /\ chunks \in [Items -> Nat]
    /\ Unstoppable \subseteq Agents
    /\ BootOrder \in Seq(Agents)
    /\ MaxCrashes \in Nat
    /\ Faulty \in BOOLEAN

\* A fragment: its item and its number in it.
Fragments == UNION {{i} \X (1..chunks[i]) : i \in Items}

VARIABLES
    docs,       \* database: each item's document, by the agent that owns it
    fragments,  \* database: each fragment, by the agent that owns it
    rt,         \* the runtimes and where their startAgent() awaits
    agents,     \* DirectClient.agents
    server,     \* does the HTTP server listen?
    boot,       \* how many characters startAgents() has taken
    unawaited,  \* are calls that starts do not await under way?
    crashes,
    disturbed   \* history: items whose storing was cut off, or which
                \* runtimes of two agents stored at the same time

database == <<docs, fragments>>
vars == <<database, rt, agents, server, boot, unawaited, crashes, disturbed>>

\* pc: "check" awaits processCharacterKnowledge's look-up, "lookDoc" and
\* "insertDoc" createMemory of the document, "look" and "insert" that of
\* fragment chunk; "clients" awaits initializeClients.
Places == {"free", "check", "lookDoc", "insertDoc", "look", "insert",
           "clients", "live"}

Runtime == [pc: Places, agent: Agents \cup {None}, via: {"boot", "http"},
            item: Nat, chunk: Nat]

Free == [pc |-> "free", agent |-> None, via |-> "boot", item |-> 0, chunk |-> 0]

AgentIsSet(x) == x.pc # "free" => x.agent \in Agents

ItemIsSet(x) ==
    x.pc \notin {"free", "clients", "live"} =>
        x.item \in 1..Len(knowledgeOf[x.agent])

TypeOK ==
    /\ docs \in [Items -> Agents \cup {None}]
    /\ fragments \in [Fragments -> Agents \cup {None}]
    /\ rt \in [Runtimes -> Runtime]
    /\ \A r \in Runtimes : AgentIsSet(rt[r]) /\ ItemIsSet(rt[r])
    /\ agents \in [Agents -> Runtimes \cup {None}]
    /\ server \in BOOLEAN
    /\ boot \in 0..Len(BootOrder)
    /\ unawaited \in BOOLEAN
    /\ crashes \in 0..MaxCrashes
    /\ disturbed \subseteq Items

Init ==
    /\ docs = [i \in Items |-> None]
    /\ fragments = [f \in Fragments |-> None]
    /\ rt = [r \in Runtimes |-> Free]
    /\ agents = [a \in Agents |-> None]
    /\ server = FALSE
    /\ boot = 0
    /\ unawaited = FALSE
    /\ crashes = 0
    /\ disturbed = {}

\* The item that a runtime on the way is at.
ItemOf(x) == knowledgeOf[x.agent][x.item]

\* Runtimes that store fragments of item i.
Storing(i) ==
    {r \in Runtimes : rt[r].pc \in {"look", "insert"} /\ ItemOf(rt[r]) = i}

\* Runtime x goes on with its item number k, or with its clients after the last.
AtItem(x, k) ==
    IF k \leq Len(knowledgeOf[x.agent])
    THEN [x EXCEPT !.pc = "check", !.item = k]
    ELSE [x EXCEPT !.pc = "clients"]

\* Mutation of AtChunk: the last fragment is left out.
AtChunk_LastLeftOut(x, n) ==
    IF n < chunks[ItemOf(x)]
    THEN [x EXCEPT !.pc = "look", !.chunk = n]
    ELSE AtItem(x, x.item + 1)

\* Runtime x goes on with fragment n of its item, or with the next item.
AtChunk(x, n) ==
    IF n \leq chunks[ItemOf(x)]
    THEN [x EXCEPT !.pc = "look", !.chunk = n]
    ELSE AtItem(x, x.item + 1)

\* startAgent(a) up to the first await that the model tells apart.
Begin(a, how) ==
    AtItem([pc |-> "check", agent |-> a, via |-> how,
            item |-> 1, chunk |-> 0], 1)

\* The process ends; startAgents() runs again when it is restarted.
ProcessEnds ==
    /\ rt' = [r \in Runtimes |-> Free]
    /\ agents' = [a \in Agents |-> None]
    /\ server' = FALSE
    /\ boot' = 0
    /\ unawaited' = FALSE
    /\ disturbed' = disturbed \cup {i \in Items : Storing(i) # {}}
    /\ UNCHANGED database
-----------------------------------------------------------------------------
\* startAgents() takes the next character once the last one is up.
StartNext(r) ==
    /\ ~server
    /\ \A q \in Runtimes : rt[q].pc \in {"free", "live"}
    /\ rt[r].pc = "free"
    /\ boot < Len(BootOrder)
    /\ boot' = boot + 1
    /\ rt' = [rt EXCEPT ![r] = Begin(BootOrder[boot'], "boot")]
    /\ unawaited' = TRUE
    /\ UNCHANGED <<database, agents, server, crashes, disturbed>>

\* All characters are up, or one could not be started: the server listens.
Listen ==
    /\ ~server
    /\ \A q \in Runtimes : rt[q].pc \in {"free", "live"}
    /\ boot = Len(BootOrder)
    /\ server' = TRUE
    /\ UNCHANGED <<database, rt, agents, boot, unawaited, crashes, disturbed>>

\* processCharacterKnowledge: an item with a document of this agent is done.
CheckDocument(r) ==
    /\ rt[r].pc = "check"
    /\ rt' = [rt EXCEPT ![r] =
                 IF docs[ItemOf(@)] = @.agent THEN AtItem(@, @.item + 1)
                                              ELSE [@ EXCEPT !.pc = "lookDoc"]]
    /\ UNCHANGED <<database, agents, server, boot, unawaited,
                   crashes, disturbed>>

\* Mutation of LookDocument: fragments first.
LookDocument_Skipped(r) ==
    /\ rt[r].pc = "lookDoc"
    /\ rt' = [rt EXCEPT ![r] = AtChunk(@, 1)]
    /\ UNCHANGED <<database, agents, server, boot, unawaited,
                   crashes, disturbed>>

\* createMemory of the document: one of any agent counts as existing.
LookDocument(r) ==
    /\ rt[r].pc = "lookDoc"
    /\ LET i == ItemOf(rt[r]) IN
          /\ rt' = [rt EXCEPT ![r] =
                       IF docs[i] = None THEN [@ EXCEPT !.pc = "insertDoc"]
                                         ELSE AtChunk(@, 1)]
          /\ disturbed' =
                IF \E q \in Storing(i) : rt[q].agent # rt[r].agent
                THEN disturbed \cup {i} ELSE disturbed
    /\ UNCHANGED <<database, agents, server, boot, unawaited, crashes>>

\* Mutation of InsertDocument: INSERT OR REPLACE.
InsertDocument_Replaces(r) ==
    /\ rt[r].pc = "insertDoc"
    /\ docs' = [docs EXCEPT ![ItemOf(rt[r])] = rt[r].agent]
    /\ rt' = [rt EXCEPT ![r] = AtChunk(@, 1)]
    /\ UNCHANGED <<fragments, agents, server, boot, unawaited,
                   crashes, disturbed>>

InsertDocument(r) ==
    /\ rt[r].pc = "insertDoc"
    /\ docs[ItemOf(rt[r])] = None
    /\ docs' = [docs EXCEPT ![ItemOf(rt[r])] = rt[r].agent]
    /\ rt' = [rt EXCEPT ![r] = AtChunk(@, 1)]
    /\ UNCHANGED <<fragments, agents, server, boot, unawaited,
                   crashes, disturbed>>

FragmentOf(x) == <<ItemOf(x), x.chunk>>

\* Mutation of LookFragment: the loop does not go on after a fragment that
\* exists already.
LookFragment_Again(r) ==
    /\ rt[r].pc = "look"
    /\ rt' = [rt EXCEPT ![r] =
                 IF fragments[FragmentOf(@)] = None
                 THEN [@ EXCEPT !.pc = "insert"]
                 ELSE @]
    /\ UNCHANGED <<database, agents, server, boot, unawaited,
                   crashes, disturbed>>

\* The fragment is embedded; createMemory: one of any agent counts as existing.
LookFragment(r) ==
    /\ rt[r].pc = "look"
    /\ rt' = [rt EXCEPT ![r] =
                 IF fragments[FragmentOf(@)] = None
                 THEN [@ EXCEPT !.pc = "insert"]
                 ELSE AtChunk(@, @.chunk + 1)]
    /\ UNCHANGED <<database, agents, server, boot, unawaited,
                   crashes, disturbed>>

InsertFragment(r) ==
    /\ rt[r].pc = "insert"
    /\ fragments[FragmentOf(rt[r])] = None
    /\ fragments' = [fragments EXCEPT ![FragmentOf(rt[r])] = rt[r].agent]
    /\ rt' = [rt EXCEPT ![r] = AtChunk(@, @.chunk + 1)]
    /\ UNCHANGED <<docs, agents, server, boot, unawaited, crashes, disturbed>>

\* The clients are up: registerAgent, which overwrites what was registered.
Register(r) ==
    /\ rt[r].pc = "clients"
    /\ rt' = [rt EXCEPT ![r].pc = "live"]
    /\ agents' = [agents EXCEPT ![rt[r].agent] = r]
    /\ UNCHANGED <<database, server, boot, unawaited, crashes, disturbed>>

\* The row that createMemory looked for has been inserted since.
Conflict(r) ==
    \/ rt[r].pc = "insertDoc" /\ docs[ItemOf(rt[r])] # None
    \/ rt[r].pc = "insert" /\ fragments[FragmentOf(rt[r])] # None

\* An await of startAgent() rejects.
Rejects(r) == Conflict(r) \/ (Faulty /\ rt[r].pc \notin {"free", "live"})

\* Mutation of BootFails: startAgents() does not catch the error.
BootFails_Uncaught(r) ==
    /\ Rejects(r)
    /\ rt[r].via = "boot"
    /\ ProcessEnds
    /\ UNCHANGED crashes

\* During startAgents(): the characters not started yet are given up.
BootFails(r) ==
    /\ Rejects(r)
    /\ rt[r].via = "boot"
    /\ rt' = [rt EXCEPT ![r] = Free]
    /\ boot' = Len(BootOrder)
    /\ disturbed' = disturbed \cup {i \in Items : r \in Storing(i)}
    /\ UNCHANGED <<database, agents, server, unawaited, crashes>>

\* During a request: express does not await the handler, nobody catches.
RequestFails(r) ==
    /\ Rejects(r)
    /\ rt[r].via = "http"
    /\ ProcessEnds
    /\ UNCHANGED crashes

\* The runtimes after Runtime.stop() of the one registered for a: it is garbage
\* once its clients have stopped.
Stopped(a) ==
    IF agents[a] = None THEN rt ELSE [rt EXCEPT ![agents[a]] = Free]

\* Mutation of SetAgent: the old runtime stays registered while the new one
\* comes up.
SetAgent_Unregistered(a, b, r) ==
    /\ server
    /\ agents[a] # None => a \notin Unstoppable
    /\ Stopped(a)[r].pc = "free"
    /\ rt' = [Stopped(a) EXCEPT ![r] = Begin(b, "http")]
    /\ unawaited' = TRUE
    /\ UNCHANGED <<database, agents, server, boot, crashes, disturbed>>

\* POST /agents/a/set with a valid character of id b: a's runtime is stopped
\* and a new one, r, is started.
SetAgent(a, b, r) ==
    /\ server
    /\ agents[a] # None => a \notin Unstoppable
    /\ Stopped(a)[r].pc = "free"
    /\ agents' = [agents EXCEPT ![a] = None]
    /\ rt' = [Stopped(a) EXCEPT ![r] = Begin(b, "http")]
    /\ unawaited' = TRUE
    /\ UNCHANGED <<database, server, boot, crashes, disturbed>>

\* The same with an invalid character: a is stopped, the answer is 400.
SetInvalid(a) ==
    /\ server
    /\ agents[a] # None /\ a \notin Unstoppable
    /\ agents' = [agents EXCEPT ![a] = None]
    /\ rt' = Stopped(a)
    /\ UNCHANGED <<database, server, boot, unawaited, crashes, disturbed>>

\* The same when one of a's client objects has no stop(): the call throws in
\* Runtime.stop(), whose rejection nobody handles.
StopThrows(a) ==
    /\ server
    /\ agents[a] # None /\ a \in Unstoppable
    /\ ProcessEnds
    /\ UNCHANGED crashes

\* The calls that starts did not await have come through.
UnawaitedSettle ==
    /\ unawaited
    /\ unawaited' = FALSE
    /\ UNCHANGED <<database, rt, agents, server, boot, crashes, disturbed>>

\* One of them rejects, and nobody handles it: not even startAgents(), which
\* catches what the start itself throws.
UnawaitedRejects ==
    /\ Faulty
    /\ unawaited
    /\ ProcessEnds
    /\ UNCHANGED crashes

\* The process is killed.
Crash ==
    /\ crashes < MaxCrashes
    /\ crashes' = crashes + 1
    /\ ProcessEnds

StartFails(r) == BootFails(r) \/ RequestFails(r)

StartStep(r) ==
    \/ CheckDocument(r) \/ LookDocument(r) \/ InsertDocument(r)
    \/ LookFragment(r) \/ InsertFragment(r)
    \/ Register(r)

Next ==
    \/ \E r \in Runtimes : StartNext(r) \/ StartStep(r) \/ StartFails(r)
    \/ \E a, b \in Agents, r \in Runtimes : SetAgent(a, b, r)
    \/ \E a \in Agents : SetInvalid(a) \/ StopThrows(a)
    \/ Listen
    \/ UnawaitedSettle \/ UnawaitedRejects
    \/ Crash

Spec == Init /\ [][Next]_vars

\* Every await of a start ends, and the process is started again.  No fault is
\* ever forced: a start need fail only where the database refuses its insert.
FairSpec ==
    /\ Spec
    /\ WF_vars(Listen)
    /\ WF_vars(\E r \in Runtimes : StartNext(r))
    /\ \A r \in Runtimes :
          WF_vars(StartStep(r) \/ (Conflict(r) /\ StartFails(r)))

-----------------------------------------------------------------------------
\* A fragment is stored after its document and after the fragments before it,
\* whichever runtimes store them, in whatever order their calls come through
\* and wherever they are cut off.
StoredInOrder ==
    \A f \in Fragments : fragments[f] # None =>
        /\ docs[f[1]] # None
        /\ \A n \in 1..f[2] : fragments[<<f[1], n>>] # None

\* Item i is stored for agent a, complete, where knowledge.get(a) looks for it.
StoredFor(a, i) ==
    docs[i] = a /\ \A n \in 1..chunks[i] : fragments[<<i, n>>] = a

KnownTo(a) == {knowledgeOf[a][k] : k \in 1..Len(knowledgeOf[a])}

Knowing(i) == {a \in Agents : i \in KnownTo(a)}

\* Each item of a registered agent's knowledge is stored, document and all
\* fragments, for one agent that knows it, so that this agent's knowledge.get
\* finds it: for the registered agent itself if it is the only one to know it.
\* An agent that shares the item with the one it is stored for is registered
\* without finding it.  Items whose storing was disturbed or is still going on
\* are the exceptions.
RegisteredKnows ==
    \A a \in Agents : agents[a] # None =>
        \A i \in KnownTo(a) \ disturbed :
            (\E c \in Knowing(i) : StoredFor(c, i)) \/ Storing(i) # {}

\* The fragments of an item belong to the agent that its document belongs to,
\* so that knowledge.get, which sees the fragments of its own agent and reads
\* only its documents, finds a document for each fragment it matches.
FragmentsResolve ==
    \A f \in Fragments : f[1] \notin disturbed =>
        fragments[f] \in {None, docs[f[1]]}

\* What is registered under an id is a runtime of that agent that is up.
RegisteredIsLive ==
    \A a \in Agents : agents[a] # None =>
        rt[agents[a]].pc = "live" /\ rt[agents[a]].agent = a

\* The server comes to listen, whichever awaited calls of the starts fail and
\* however often it does, unless calls that nobody awaits go on to reject: each
\* of those ends the process, startAgents() with it.
ServerComesUp == <>[][~UnawaitedRejects]_vars => []<>server

\* A start ends: the runtime gets up, fails, or goes down with the process.
StartsEnd ==
    \A r \in Runtimes :
        (rt[r].pc = "check") ~> (rt[r].pc \in {"free", "live"})
=============================================================================
