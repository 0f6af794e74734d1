---------------------------- MODULE CastClients ----------------------------
(***************************************************************************)
(* The Farcaster and Lens clients of an agent:                             *)
(* client-farcaster/src/{index,interactions,memory,actions,client,post}.ts *)
(* and the same files of client-lens, which differ in how a reply goes     *)
(* out.  A client object runs two loops that re-arm their timer when a     *)
(* round is over; stop() clears the timers and knows nothing of a round    *)
(* under way.  An agent that is replaced gets a new client object while    *)
(* the memories in the database stay; requests to replace it may overlap,  *)
(* and the map of agents, which is how an object is found again to be      *)
(* stopped, holds the one that was registered last.                        *)
(*                                                                         *)
(* Casts (and publications) are numbers in the order in which they         *)
(* appear.  A step is what a loop does between two awaits that matter.     *)
(***************************************************************************)
EXTENDS Integers, Sequences, FiniteSets

CONSTANTS
    Objects,     \* the client objects that may be made, numbered as they are
                 \* asked for
    NoObject,
    Casts,       \* what others have written on the platform
    Mentions,    \* those of them that mention the agent or reply to it
    Own,         \* mentions the agent has written itself
    Parent,      \* the cast a cast replies to, or NoCast
    NoCast,
    PageSize,    \* how many notifications a platform returns, the newest ones
    MaxChunks,   \* bound on the parts of a reply
    MaxFaults,   \* bound on failing calls
    MaxCrashes   \* bound on crashes of the process

ASSUME CastsAreOrdered ==
    Casts \subseteq Nat /\ IsFiniteSet(Casts) /\ Mentions \subseteq Casts /\ Own \subseteq Mentions
ASSUME ThreadsGoBack ==
    /\ NoCast \notin Casts
    /\ Parent \in [Casts -> Casts \cup {NoCast}]
    /\ \A c \in Casts : Parent[c] \in Casts => Parent[c] < c
ASSUME ObjectsAreOrdered == Objects \subseteq Nat /\ NoObject \notin Objects
ASSUME BoundsAreNumbers ==
    /\ PageSize \in [{"farcaster", "lens"} -> Nat]
    /\ MaxChunks \in Nat \ {0} /\ MaxFaults \in Nat /\ MaxCrashes \in Nat

VARIABLES
    platform,  \* "farcaster" or "lens"
    life,      \* what became of each client object
    registered,  \* the object of the runtime in the map of agents, or NoObject
    poll,      \* the interaction loop of each object
    post,      \* the posting loop of each object
    shown,     \* the casts on the platform
    memories,  \* the casts of which the database has a memory
    answers,   \* for each mention, the objects that have answered it, in order
    decided,   \* the mentions that were answered or turned down on purpose
    astray,    \* objects that were stopped in the middle of a poll, or that
               \* another took the place of in the map without their being stopped
    faults, crashes

vars == <<platform, life, registered, poll, post, shown, memories, answers, decided,
          astray, faults, crashes>>

\* Where an interaction loop stands.  "off": never started, or its timer was
\* cleared; "dead": a poll has thrown and the loop has returned.
Places == {"off", "armed", "fetch", "look", "thread", "insert", "decide", "send", "dead"}
Running == {"fetch", "look", "thread", "insert", "decide", "send"}
AtHand == {"thread", "insert", "decide", "send"}

Idle(place) == [at |-> place, todo |-> {}, cast |-> NoCast, node |-> NoCast, sent |-> 0, chunk |-> 0]

\* A round of the loop: the mentions that are left, the one at hand, the cast of
\* its thread, and the parts of the reply that went out and that were tried.
Round == [at : Places, todo : SUBSET Mentions, cast : Mentions \cup {NoCast},
          node : Casts \cup {NoCast}, sent : 0..MaxChunks, chunk : 0..MaxChunks]

TypeOK ==
    /\ platform \in {"farcaster", "lens"}
    /\ life \in [Objects -> {"new", "coming", "started", "stopped", "gone"}]
    /\ registered \in Objects \cup {NoObject}
    /\ poll \in [Objects -> Round]
    /\ post \in [Objects -> {"off", "armed", "busy"}]
    /\ shown \subseteq Casts /\ memories \subseteq Casts
    /\ answers \in [Mentions -> Seq(Objects)]
    /\ decided \subseteq Mentions
    /\ astray \subseteq Objects
    /\ faults \in 0..MaxFaults /\ crashes \in 0..MaxCrashes

Init ==
    /\ platform \in {"farcaster", "lens"}
    /\ life = [o \in Objects |-> "new"]
    /\ registered = NoObject
    /\ poll = [o \in Objects |-> Idle("off")]
    /\ post = [o \in Objects |-> "off"]
    /\ shown = {} /\ memories = {} /\ decided = {} /\ astray = {}
    /\ answers = [m \in Mentions |-> <<>>]
    /\ faults = 0 /\ crashes = 0

agent == <<life, registered>>
world == <<platform, shown>>
counters == <<faults, crashes>>
outcome == <<memories, answers, decided>>

\* Somebody writes the next cast; a reply comes after what it replies to.
Appear ==
    /\ \E c \in Casts \ shown : /\ \A d \in Casts \ shown : c <= d
                                /\ shown' = shown \cup {c}
    /\ UNCHANGED <<platform, agent, poll, post, outcome, astray, counters>>

-----------------------------------------------------------------------------
(* The life of a client object.                                            *)

\* startAgents(), or a request to replace the agent, which has stopped and
\* unregistered the runtime that it has found in the map (Stop).  No other
\* request is held off while the new one is on its way.
Request(o) ==
    /\ life[o] = "new" /\ \A p \in Objects : p < o => life[p] # "new"
    /\ registered = NoObject
    /\ life' = [life EXCEPT ![o] = "coming"]
    /\ UNCHANGED <<world, registered, poll, post, outcome, astray, counters>>

\* start() of both managers, each of which runs its first round at once, and
\* the registration of the runtime, in the place of what has been registered
\* since the request.
Start(o) ==
    /\ life[o] = "coming"
    /\ life' = [life EXCEPT ![o] = "started"]
    /\ registered' = o
    /\ astray' = astray \cup ({registered} \ {NoObject})
    /\ poll' = [poll EXCEPT ![o] = Idle("fetch")]
    /\ post' = [post EXCEPT ![o] = "busy"]
    /\ UNCHANGED <<world, outcome, counters>>

\* stop(): a timer that is armed is cleared, a round under way goes on.  A
\* request stops what it finds in the map, and takes it out of there.
Cleared(place) == IF place = "armed" THEN "off" ELSE place
Stop(o) ==
    /\ registered = o
    /\ registered' = NoObject
    /\ life' = [life EXCEPT ![o] = "stopped"]
    /\ poll' = [poll EXCEPT ![o].at = Cleared(@)]
    /\ post' = [post EXCEPT ![o] = Cleared(@)]
    /\ astray' = IF poll[o].at \in Running THEN astray \cup {o} ELSE astray
    /\ UNCHANGED <<world, outcome, counters>>

\* The process ends; what is in the database stays.
Crash ==
    /\ crashes < MaxCrashes /\ crashes' = crashes + 1
    /\ life' = [o \in Objects |-> IF life[o] = "new" THEN "new" ELSE "gone"]
    /\ registered' = NoObject
    /\ poll' = [o \in Objects |-> Idle("off")]
    /\ post' = [o \in Objects |-> "off"]
    /\ UNCHANGED <<world, outcome, astray, faults>>

-----------------------------------------------------------------------------
(* The interaction loop: handleInteractions.                               *)

TimerFires(o) ==
    /\ poll[o].at = "armed"
    /\ poll' = [poll EXCEPT ![o] = Idle("fetch")]
    /\ UNCHANGED <<world, agent, post, outcome, astray, counters>>

\* What getMentions returns: a single page, nobody asks for the next.
Page == {m \in shown \cap Mentions :
            Cardinality({n \in shown \cap Mentions : n > m}) < PageSize[platform]}

Fetch(o) ==
    /\ poll[o].at = "fetch"
    /\ poll' = [poll EXCEPT ![o] = [Idle("look") EXCEPT !.todo = Page]]
    /\ UNCHANGED <<world, agent, post, outcome, astray, counters>>

\* Look without the test for a memory.
Look_NoMemory(o) ==
    /\ poll[o].at = "look"
    /\ \E m \in poll[o].todo :
          /\ \A d \in poll[o].todo : d <= m
          /\ poll' = [poll EXCEPT ![o].at = "thread", ![o].cast = m, ![o].node = m]
    /\ UNCHANGED <<world, agent, post, outcome, astray, counters>>

\* The next mention of the list, the newest first: a mention of which there is
\* a memory is passed over.
Look(o) ==
    /\ poll[o].at = "look"
    /\ \E m \in poll[o].todo :
          /\ \A d \in poll[o].todo : d <= m
          /\ \/ m \in memories /\ poll' = [poll EXCEPT ![o].todo = @ \ {m}]
             \/ /\ m \notin memories
                /\ poll' = [poll EXCEPT ![o].at = "thread", ![o].cast = m, ![o].node = m]
    /\ UNCHANGED <<world, agent, post, outcome, astray, counters>>

\* The list is done: the timer is set, whether or not stop() was called.
Rearm(o) ==
    /\ poll[o].at = "look" /\ poll[o].todo = {}
    /\ poll' = [poll EXCEPT ![o] = Idle("armed")]
    /\ UNCHANGED <<world, agent, post, outcome, astray, counters>>

\* Upward that leaves a mention when its thread is built.
Upward_Forgets(w) == IF Parent[w.node] = NoCast THEN [w EXCEPT !.at = "look", !.cast = NoCast, !.node = NoCast]
                     ELSE [w EXCEPT !.at = "thread", !.node = Parent[w.node]]

\* From a cast of the thread to the one it replies to, or on to the decision.
Upward(w) == IF Parent[w.node] = NoCast THEN [w EXCEPT !.at = "decide", !.node = NoCast]
             ELSE [w EXCEPT !.at = "thread", !.node = Parent[w.node]]

\* processThread: is there a memory of this cast?
ThreadLook(o) ==
    /\ poll[o].at = "thread"
    /\ poll' = [poll EXCEPT ![o] = IF @.node \in memories THEN Upward(@)
                                   ELSE [@ EXCEPT !.at = "insert"]]
    /\ UNCHANGED <<world, agent, post, outcome, astray, counters>>

\* ThreadInsert that does not wait for the memory, which is lost.
ThreadInsert_NotStored(o) ==
    /\ poll[o].at = "insert"
    /\ poll' = [poll EXCEPT ![o] = Upward(@)]
    /\ UNCHANGED <<world, agent, post, outcome, astray, counters>>

\* ... if not, it is stored.  createMemory does nothing if the memory has come
\* to be in the meantime.
ThreadInsert(o) ==
    /\ poll[o].at = "insert"
    /\ memories' = memories \cup {poll[o].node}
    /\ poll' = [poll EXCEPT ![o] = Upward(@)]
    /\ UNCHANGED <<world, agent, post, answers, decided, astray, counters>>

\* On to the next mention.
Onward(w) == [Idle("look") EXCEPT !.todo = w.todo \ {w.cast}]

\* handleCast, handlePublication: the agent's own casts are left alone, and so
\* are those that have no text or that the model would rather ignore.
Decline(o) ==
    /\ poll[o].at = "decide"
    /\ decided' = decided \cup {poll[o].cast}
    /\ poll' = [poll EXCEPT ![o] = Onward(@)]
    /\ UNCHANGED <<world, agent, post, memories, answers, astray, counters>>

Respond(o) ==
    /\ poll[o].at = "decide" /\ poll[o].cast \notin Own
    /\ poll' = [poll EXCEPT ![o].at = "send"]
    /\ UNCHANGED <<world, agent, post, outcome, astray, counters>>

\* A reply is out with its first part.
Answered(o, w) ==
    IF w.sent > 0 THEN UNCHANGED <<answers, decided>>
    ELSE /\ answers' = [answers EXCEPT ![w.cast] = Append(@, o)]
         /\ decided' = decided \cup {w.cast}

\* After a part comes the next one, or the next mention.
AfterPart(w, sent) == {Onward(w)} \cup
    {v \in {[w EXCEPT !.chunk = @ + 1, !.sent = sent]} : v.chunk < MaxChunks}

\* sendCast: the reply goes out part by part, each a reply to the one before.
\* Their memories are created when all are out; they have ids of their own.
SendChunk(o) ==
    /\ platform = "farcaster" /\ poll[o].at = "send"
    /\ Answered(o, poll[o])
    /\ \E w \in AfterPart(poll[o], poll[o].sent + 1) : poll' = [poll EXCEPT ![o] = w]
    /\ UNCHANGED <<world, agent, post, memories, astray, counters>>

\* publishCast without success and without an error: the part is left out.
SkipChunk(o) ==
    /\ platform = "farcaster" /\ poll[o].at = "send"
    /\ faults < MaxFaults /\ faults' = faults + 1
    /\ \E w \in AfterPart(poll[o], poll[o].sent) : poll' = [poll EXCEPT ![o] = w]
    /\ UNCHANGED <<world, agent, post, outcome, astray, crashes>>

\* sendPublication: a single publication.
SendPublication(o) ==
    /\ platform = "lens" /\ poll[o].at = "send"
    /\ Answered(o, poll[o])
    /\ poll' = [poll EXCEPT ![o] = Onward(@)]
    /\ UNCHANGED <<world, agent, post, memories, astray, counters>>

\* The callback catches what sending throws: the mention is done with.
SendFails(o) ==
    /\ poll[o].at = "send"
    /\ faults < MaxFaults /\ faults' = faults + 1
    /\ poll' = [poll EXCEPT ![o] = Onward(@)]
    /\ UNCHANGED <<world, agent, post, outcome, astray, crashes>>

\* Any other call that fails ends the poll, and the loop with it.
PollFails(o) ==
    /\ poll[o].at \in Running \ {"send"}
    /\ faults < MaxFaults /\ faults' = faults + 1
    /\ poll' = [poll EXCEPT ![o] = Idle("dead")]
    /\ UNCHANGED <<world, agent, post, outcome, astray, crashes>>

\* createMemory looks the id up and inserts it in two calls: the insert is
\* refused when another object has stored the cast in between.
InsertRefused(o) ==
    /\ poll[o].at = "insert" /\ poll[o].node \in memories
    /\ poll' = [poll EXCEPT ![o] = Idle("dead")]
    /\ UNCHANGED <<world, agent, post, outcome, astray, counters>>

-----------------------------------------------------------------------------
(* The posting loop: generateNewCast, generateNewPublication.              *)

PostTimer(o) ==
    /\ post[o] = "armed"
    /\ post' = [post EXCEPT ![o] = "busy"]
    /\ UNCHANGED <<world, agent, poll, outcome, astray, counters>>

\* PostDone that returns without setting the timer, as the other loop does.
PostDone_Returns(o) ==
    /\ post[o] = "busy"
    /\ post' = [post EXCEPT ![o] = "off"]
    /\ UNCHANGED <<world, agent, poll, outcome, astray, counters>>

\* The round is over, with a post and its memory, in a dry run, or with an
\* error, which generateNewCast catches: the timer is set in each case.
PostDone(o) ==
    /\ post[o] = "busy"
    /\ post' = [post EXCEPT ![o] = "armed"]
    /\ UNCHANGED <<world, agent, poll, outcome, astray, counters>>

-----------------------------------------------------------------------------
Poll(o) == \/ Fetch(o) \/ Look(o) \/ Rearm(o) \/ ThreadLook(o) \/ ThreadInsert(o)
           \/ Decline(o) \/ Respond(o) \/ SendChunk(o) \/ SkipChunk(o) \/ SendPublication(o)
           \/ SendFails(o)
Post(o) == PostTimer(o) \/ PostDone(o)

Next ==
    \/ Appear \/ Crash
    \/ \E o \in Objects : \/ Request(o) \/ Start(o) \/ Stop(o) \/ TimerFires(o) \/ Poll(o) \/ Post(o)
                          \/ PollFails(o) \/ InsertRefused(o)

Spec == Init /\ [][Next]_vars

\* Timers fire and calls end, in success or not; nothing makes a call fail.
Fairness == \A o \in Objects : WF_vars(TimerFires(o)) /\ WF_vars(Poll(o)) /\ WF_vars(Post(o))
FairSpec == Spec /\ Fairness

-----------------------------------------------------------------------------
(* Properties.                                                             *)

Active(o) == poll[o].at \in Running
Holds(o, m) == poll[o].at \in AtHand /\ poll[o].cast = m
HasAnswered(o, m) == \E k \in 1..Len(answers[m]) : answers[m][k] = o

\* A mention is answered a second time only if one of the two objects that
\* answered had gone astray: its loop lives on because it was stopped in the
\* middle of a poll, or because an overlapping request took its place in the
\* map.  Never is it answered twice by one object, never across a crash.
AnsweredTwiceOnlyByAstray ==
    \A m \in Mentions : \A j, k \in 1..Len(answers[m]) :
        j < k => /\ answers[m][j] # answers[m][k]
                 /\ {answers[m][j], answers[m][k]} \cap astray # {}

\* What the loop of one object may count on.
PollInv(w, stored) ==
    /\ w.at \in AtHand => w.cast \in Mentions
    /\ w.at \in {"thread", "insert"} => w.node \in Casts
    /\ w.at \in {"decide", "send"} => w.node = NoCast
    /\ w.at \in AtHand /\ w.node # w.cast => w.cast \in stored
    /\ w.sent <= w.chunk

\* An object that works and has not gone astray is the one in the map.
OneAtWork ==
    \A o \in Objects : poll[o].at \in Running \cup {"armed"} /\ o \notin astray
                         => registered = o

\* An object that is on its way has not begun to work.
NotYet == \A o \in Objects : life[o] \in {"new", "coming"} => poll[o].at = "off"

\* Nobody else has answered a mention at hand, unless one of the two is astray.
NotAnsweredYet ==
    \A o, p \in Objects, m \in Mentions :
        Holds(o, m) /\ HasAnswered(p, m)
          => \/ p = o /\ poll[o].at = "send" /\ poll[o].sent > 0
             \/ p # o /\ {o, p} \cap astray # {}

\* What AnsweredTwiceOnlyByAstray rests on: the four above, and that a
\* mention that was answered has its memory, so that no poll takes it up again.
IInv ==
    /\ TypeOK
    /\ OneAtWork /\ NotYet
    /\ \A o \in Objects : PollInv(poll[o], memories)
    /\ \A m \in Mentions : answers[m] # <<>> => m \in memories
    /\ NotAnsweredYet
    /\ AnsweredTwiceOnlyByAstray

\* A mention that has its memory, which keeps every later poll from looking at
\* it, was decided on or is at hand, unless it was stored as part of the thread
\* of a mention that was looked at before it, or a call failed, the process
\* crashed or an object has gone astray, so that two loops may have met.
SilentOnlyAfterTrouble ==
    \A m \in Mentions \cap memories :
        \/ m \in decided \/ \E o \in Objects : Holds(o, m)
        \/ \E c \in shown : Parent[c] = m
        \/ faults > 0 \/ crashes > 0 \/ astray # {}

\* So many have come after mention m that no page shows it any more.
Crowded(m) == m \in shown \ Page

\* Every mention shown is stored, or crowded out.
AllLookedAt == \A m \in shown \cap Mentions : m \in memories \/ Crowded(m)

\* Both loops go on: again and again every mention is stored, unless newer ones
\* have crowded it out of the page, or no interaction loop is left (one failing
\* call ends it); and again and again the posting loop of an object that is
\* started, and not stopped, begins a round, whatever fails.
LoopsGoOn ==
    /\ []<>(AllLookedAt \/ \A o \in Objects : poll[o].at \in {"off", "dead"})
    /\ \A o \in Objects : []<>(post[o] = "busy" \/ life[o] # "started")
=============================================================================
