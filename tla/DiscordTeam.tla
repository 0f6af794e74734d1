---------------------------- MODULE DiscordTeam ----------------------------
(***************************************************************************)
(* One agent of a Discord team in one channel:                             *)
(* client-discord/src/messages.ts, with ensureConnection and               *)
(* processActions of core/src/runtime.ts and the room actions of           *)
(* plugin-bootstrap.  discord.js hands over the messages in order, but     *)
(* handleMessage is async and nobody waits for it: the handlers of several *)
(* messages are under way at once and share the interest the agent takes   *)
(* in the channel.  The other agents of the team are authors like others.  *)
(*                                                                         *)
(* The character is part of a team, has interest keywords, answers without *)
(* being mentioned and does not ignore bots; the channel is in a guild.    *)
(***************************************************************************)
EXTENDS Integers, Sequences, FiniteSets

CONSTANTS
    Mates,        \* the other agents of the team
    Posts,        \* the messages others may write
    NoInterest,   \* undefined, where an entry of interestChannels may stand
    StrictRooms,  \* a second insert of a room fails (PostgreSQL), or is swallowed (SQLite)
    MaxKept,      \* MAX_MESSAGES
    RecentCount,  \* RECENT_MESSAGE_COUNT
    NamesGiven,   \* the actions the model may name with an answer
    MaxMessages,  \* bound on the messages
    MaxAtOnce,    \* bound on the handlers under way
    MaxFaults     \* bound on failing calls, and on answers without text

\* What the code reads of a message: its author, whether it mentions the agent or
\* a team mate, asks the whole team, has one of the agent's interest keywords,
\* or is a short "stop talking".
ASSUME PostsAreMessages ==
    /\ \A p \in Posts : /\ {p.ping, p.mate, p.team, p.topic, p.stop} \subseteq BOOLEAN
                        /\ DOMAIN p = {"from", "ping", "mate", "team", "topic", "stop"}
    /\ StrictRooms \in BOOLEAN
ASSUME NamesAreActions ==
    NamesGiven \subseteq {"FOLLOW_ROOM", "UNFOLLOW_ROOM", "MUTE_ROOM", "UNMUTE_ROOM", "OTHER"}
ASSUME BoundsAreNumbers ==
    {MaxKept, RecentCount} \subseteq Nat \ {0} /\ {MaxMessages, MaxAtOnce, MaxFaults} \subseteq Nat

VARIABLES
    role,         \* "leader" or "member" of the team
    log,          \* the messages of the channel, as they came
    handlers,     \* for each of them, where its handleMessage stands
    interest,     \* interestChannels[channel]
    room,         \* the database has a row for the room
    memories,     \* the messages stored as memories
    answered,     \* the messages that have an answer
    participant,  \* the agent's userState in the room
    up,           \* the process has not died of an error nobody caught
    faults

vars == <<role, log, handlers, interest, room, memories, answered, participant, up, faults>>

\* Where a handler stands: before the look at its own last memories, the media,
\* the insert of the room, the store, the question whether to ignore the message,
\* the participant's state, the leader's delay, the model's say, the answer and
\* its action; and how it has ended.
Working == {"recall", "media", "insert", "store", "ignore", "gate", "delay", "ask", "reply", "act"}
Ended == {"ignored", "muted", "done", "failed", "raced", "fatal"}
Unstored == {"recall", "media", "insert", "store"}

Ages == 0 .. 2  \* under three minutes, up to five, above

\* The actions whose names contain each other's, as the bootstrap plug-in
\* registers them, and any other.
Registered == <<"FOLLOW_ROOM", "UNFOLLOW_ROOM", "MUTE_ROOM", "UNMUTE_ROOM", "OTHER">>
Names == {Registered[i] : i \in DOMAIN Registered}
Includes(n, a) == n = a \/ <<n, a>> \in {<<"UNFOLLOW_ROOM", "FOLLOW_ROOM">>, <<"UNMUTE_ROOM", "MUTE_ROOM">>}

Entry(m, at, age) == [by |-> m, at |-> at, age |-> age, messages |-> <<>>, context |-> FALSE]
Handler(pc, interested) ==
    [pc |-> pc, interested |-> interested, sawRoom |-> FALSE, seen |-> NoInterest, action |-> "OTHER"]

Messages == 1 .. Len(log)
Kept(s, n) == IF Len(s) > n THEN SubSeq(s, Len(s) - n + 1, Len(s)) ELSE s
LastOf(s) == s[Len(s)]

\* The ids kept with a message are UUIDs made of Discord ids; the team's and the
\* agent's own are Discord ids.
StoredId(m) == [uuid |-> log[m].from]
IsTeamMember(id) == id \in Mates
Authors(s) == {StoredId(s[i]) : i \in DOMAIN s}
MatesIn(s) == \E id \in Authors(s) : IsTeamMember(id)
-----------------------------------------------------------------------------
Init ==
    /\ role \in {"leader", "member"}
    /\ log = <<>> /\ handlers = <<>>
    /\ interest = NoInterest
    /\ room = FALSE /\ participant = "none"
    /\ memories = {} /\ answered = {}
    /\ up = TRUE /\ faults = 0

\* The interest the agent still has, and whether looking at it throws: the last
\* message is read although there may be none.
CheckInterest ==
    LET e == interest
        quiet == e # NoInterest /\ e.messages = <<>>
        recent == Kept(e.messages, RecentCount)
        last == LastOf(e.messages)
        lost == \/ e.age = 2
                \/ /\ e.age = 0 /\ ~quiet
                   /\ \/ role = "leader" /\ ~log[last].topic /\ MatesIn(recent)
                      \/ Cardinality(Authors(recent)) > 1
    IN  IF e = NoInterest THEN [throws |-> FALSE, interested |-> FALSE, entry |-> e]
        ELSE IF e.age = 1
             THEN [throws |-> quiet, interested |-> ~quiet /\ log[last].topic, entry |-> e]
             ELSE [throws |-> FALSE, interested |-> ~lost, entry |-> IF lost THEN NoInterest ELSE e]

\* Mutant: a member stirred by a message to the team stays interested.
TeamHandling_StaysStirred(p, m, at, interested, entry) ==
    LET asked == IF p.team THEN Entry(m, at, 0) ELSE entry
        passed == p.mate /\ (interested \/ asked # NoInterest)
    IN  [entry |-> IF p.ping THEN Entry(m, at, 0) ELSE IF passed THEN NoInterest ELSE asked,
         goOn  |-> p.ping \/ (~passed /\ (p.team \/ interested) /\ p.from \notin Mates)]

\* The rest of the team handling, up to the first await of the try block: the
\* interest it leaves, and whether the message is gone on with.
TeamHandling(p, m, at, interested, entry) ==
    LET asked == IF p.team THEN Entry(m, at, IF role = "member" /\ ~p.ping THEN 2 ELSE 0) ELSE entry
        passed == p.mate /\ (interested \/ asked # NoInterest)
    IN  [entry |-> IF p.ping THEN Entry(m, at, 0) ELSE IF passed THEN NoInterest ELSE asked,
         goOn  |-> p.ping \/ (~passed /\ (p.team \/ interested) /\ p.from \notin Mates)]

Post(p) ==
    /\ up /\ Len(log) < MaxMessages
    /\ Cardinality({m \in Messages : handlers[m].pc \in Working}) < MaxAtOnce
    /\ log' = Append(log, p)

\* A message comes in and the look at the interest throws, outside any try block.
MessageThrows(p) ==
    /\ Post(p)
    /\ CheckInterest.throws
    /\ handlers' = Append(handlers, Handler("fatal", FALSE))
    /\ up' = FALSE
    /\ UNCHANGED <<role, interest, room, memories, answered, participant, faults>>

\* A message comes in and is handled up to the first await.
Message(p) ==
    LET m == Len(log) + 1
        check == CheckInterest
        entry == IF role = "member" /\ p.topic THEN Entry(m, "start", 0) ELSE check.entry
        team == TeamHandling(p, m, "start", check.interested, entry)
        recall == check.interested /\ ~p.ping
    IN  /\ Post(p)
        /\ ~check.throws
        /\ interest' = IF recall THEN entry ELSE team.entry
        /\ handlers' = Append(handlers, Handler(IF recall THEN "recall"
                                                ELSE IF team.goOn THEN "media" ELSE "ignored",
                                                check.interested))
        /\ UNCHANGED <<role, room, memories, answered, participant, up, faults>>

At(m, pc) == up /\ handlers[m].pc = pc
Go(m, pc) == handlers' = [handlers EXCEPT ![m].pc = pc]

\* The agent's last answer has been read: the leader compares the message with it,
\* when there is one; the others look for their keywords.
Recall(m) ==
    LET team == TeamHandling(log[m], m, "recalled", TRUE, interest)
    IN  /\ At(m, "recall")
        /\ \E relevant \in IF role = "leader" /\ answered # {} THEN BOOLEAN ELSE {log[m].topic} :
              /\ interest' = IF relevant THEN team.entry ELSE NoInterest
              /\ Go(m, IF relevant /\ team.goOn THEN "media" ELSE "ignored")
        /\ UNCHANGED <<role, log, room, memories, answered, participant, up, faults>>

\* It could not be read; this await is outside the try block.
RecallThrows(m) ==
    /\ At(m, "recall") /\ faults < MaxFaults
    /\ Go(m, "fatal")
    /\ up' = FALSE /\ faults' = faults + 1
    /\ UNCHANGED <<role, log, interest, room, memories, answered, participant>>

\* Attachments and links are read, and ensureConnection looks for the room.
Look(m) ==
    /\ At(m, "media")
    /\ handlers' = [handlers EXCEPT ![m].pc = "insert", ![m].sawRoom = room]
    /\ UNCHANGED <<role, log, interest, room, memories, answered, participant, up, faults>>

\* The room is inserted unless it was seen; a second insert may be refused.
Connect(m) ==
    /\ At(m, "insert")
    /\ Go(m, IF room /\ ~handlers[m].sawRoom /\ StrictRooms THEN "raced" ELSE "store")
    /\ room' = TRUE
    /\ UNCHANGED <<role, log, interest, memories, answered, participant, up, faults>>

\* Mutant: the messages kept are never trimmed.
Store_Untrimmed(m) ==
    /\ At(m, "store")
    /\ Go(m, "ignore")
    /\ memories' = memories \cup {m}
    /\ interest' = IF interest = NoInterest THEN interest
                   ELSE [interest EXCEPT !.messages = Append(@, m)]
    /\ UNCHANGED <<role, log, room, answered, participant, up, faults>>

\* Mutant: a message is kept only if it found the agent interested.
Store_IfInterested(m) ==
    /\ At(m, "store")
    /\ Go(m, "ignore")
    /\ memories' = memories \cup {m}
    /\ interest' = IF interest = NoInterest \/ ~handlers[m].interested THEN interest
                   ELSE [interest EXCEPT !.messages = Kept(Append(@, m), MaxKept)]
    /\ UNCHANGED <<role, log, room, answered, participant, up, faults>>

\* The memory is created; the message is kept with the interest there is now.
Store(m) ==
    /\ At(m, "store")
    /\ Go(m, "ignore")
    /\ memories' = memories \cup {m}
    /\ interest' = IF interest = NoInterest THEN interest
                   ELSE [interest EXCEPT !.messages = Kept(Append(@, m), MaxKept)]
    /\ UNCHANGED <<role, log, room, answered, participant, up, faults>>

\* Mutant: messages to the team are looked at like others.
Ignores_TeamToo(m) ==
    LET p == log[m]
    IN  IF role = "leader" /\ ~p.ping /\ p.topic THEN {TRUE}
        ELSE IF p.from \in Mates /\ ~p.ping THEN {~p.topic}
        ELSE IF interest # NoInterest
             THEN IF p.topic \/ p.ping THEN {FALSE}
                  ELSE IF Len(interest.messages) < 2 THEN {TRUE} ELSE BOOLEAN
             ELSE IF p.stop THEN {TRUE} ELSE BOOLEAN

\* What _shouldIgnore may say: the words and the likeness of messages are data.
Ignores(m) ==
    LET p == log[m]
    IN  IF p.team THEN {FALSE}
        ELSE IF role = "leader" /\ ~p.ping /\ p.topic THEN {TRUE}
        ELSE IF p.from \in Mates /\ ~p.ping THEN {~p.topic}
        ELSE IF interest # NoInterest
             THEN IF p.topic \/ p.ping THEN {FALSE}
                  ELSE IF Len(interest.messages) < 2 THEN {TRUE} ELSE BOOLEAN
             ELSE IF p.stop THEN {TRUE} ELSE BOOLEAN

Ignore(m) ==
    /\ At(m, "ignore")
    /\ \E ignore \in Ignores(m) : Go(m, IF ignore THEN "ignored" ELSE "gate")
    /\ UNCHANGED <<role, log, interest, room, memories, answered, participant, up, faults>>

\* A mention makes the interest there is now fresh.
Refreshed == IF interest = NoInterest THEN interest ELSE [interest EXCEPT !.age = 0]

\* The agent's state in the room has been read: muted, sure to answer, or
\* _shouldRespond, whose first await is the leader's delay or the model.  What
\* gets through in a muted room is what mentions the agent, if only by a role or
\* as everyone, while to give its name (p.ping) is not enough.
GateOf(m, mentioned) ==
    LET p == log[m]
        interested == handlers[m].interested
        muted == participant = "MUTED" /\ ~mentioned /\ ~interested
        sure == \/ participant = "FOLLOWED" \/ interested
                \/ (role = "member" /\ p.topic) \/ (role = "leader" /\ p.team)
        waits == ~sure /\ role = "leader" /\ ~p.topic
        pc == IF muted THEN "muted" ELSE IF waits THEN "delay"
              ELSE IF sure \/ p.ping THEN "reply" ELSE "ask"
    IN  /\ At(m, "gate")
        /\ handlers' = [handlers EXCEPT ![m].pc = pc,
                                        ![m].seen = IF pc \in {"delay", "ask"} THEN interest ELSE NoInterest]
        /\ interest' = IF pc = "reply" /\ ~sure THEN Refreshed ELSE interest
        /\ UNCHANGED <<role, log, room, memories, answered, participant, up, faults>>

Gate(m) == \E mentioned \in BOOLEAN : GateOf(m, mentioned)

\* The entry a handler holds on to, as it is now; of one that has been replaced,
\* what it was when the handler took hold of it.
Same(m) == /\ interest # NoInterest /\ handlers[m].seen # NoInterest
           /\ interest.by = handlers[m].seen.by /\ interest.at = handlers[m].seen.at
Seen(m) == IF Same(m) THEN interest ELSE handlers[m].seen

\* The leader's delay is over: it looks whether a team mate has answered.
Delay(m) ==
    LET beaten == Seen(m) # NoInterest /\ MatesIn(Kept(Seen(m).messages, RecentCount))
        pc == IF beaten THEN "ignored" ELSE IF log[m].ping THEN "reply" ELSE "ask"
    IN  /\ At(m, "delay")
        /\ handlers' = [handlers EXCEPT ![m].pc = pc, ![m].seen = IF pc = "ask" THEN @ ELSE NoInterest]
        /\ interest' = IF pc = "reply" THEN Refreshed ELSE interest
        /\ UNCHANGED <<role, log, room, memories, answered, participant, up, faults>>

\* The model has been asked; "STOP" stands for a change of context, too.
Says(m) == IF Seen(m) # NoInterest /\ Seen(m).context /\ Len(Seen(m).messages) < 2
           THEN {"STOP"} ELSE {"RESPOND", "IGNORE", "STOP"}

Ask(m) ==
    /\ At(m, "ask")
    /\ \E say \in Says(m) :
          /\ handlers' = [handlers EXCEPT ![m].pc = IF say = "RESPOND" THEN "reply" ELSE "ignored",
                                          ![m].seen = NoInterest]
          /\ interest' = IF say = "STOP" THEN NoInterest
                         ELSE IF say = "RESPOND" /\ Same(m) THEN [interest EXCEPT !.context = TRUE]
                         ELSE interest
    /\ UNCHANGED <<role, log, room, memories, answered, participant, up, faults>>

\* The answer, with the name of an action, is sent and its memory created.
Reply(m) ==
    /\ At(m, "reply")
    /\ \E name \in NamesGiven :
          handlers' = [handlers EXCEPT ![m].pc = "act", ![m].action = name]
    /\ answered' = answered \cup {m}
    /\ UNCHANGED <<role, log, interest, room, memories, participant, up, faults>>

\* The action processActions finds for a name: the first of those registered whose
\* name contains it or is contained in it.
Found(n) ==
    LET fits == {i \in DOMAIN Registered : Includes(n, Registered[i]) \/ Includes(Registered[i], n)}
    IN  Registered[CHOOSE i \in fits : \A j \in fits : i <= j]

StateAfter(a) ==
    CASE a = "FOLLOW_ROOM" -> "FOLLOWED"
      [] a = "MUTE_ROOM" -> "MUTED"
      [] a \in {"UNFOLLOW_ROOM", "UNMUTE_ROOM"} -> "none"
      [] OTHER -> participant

\* The action asks the model once more and sets the agent's state in the room.
Act(m) ==
    /\ At(m, "act")
    /\ \E confirmed \in BOOLEAN :
          participant' = IF confirmed THEN StateAfter(Found(handlers[m].action)) ELSE participant
    /\ handlers' = [handlers EXCEPT ![m].pc = "done", ![m].action = "OTHER"]
    /\ UNCHANGED <<role, log, interest, room, memories, answered, up, faults>>

\* A call inside the try block fails, the channel cannot be written to, or the
\* model's answer has no text.
Fail(m) ==
    /\ up /\ faults < MaxFaults
    /\ handlers[m].pc \in {"media", "insert", "store", "ignore", "gate", "ask", "reply"}
    /\ handlers' = [handlers EXCEPT ![m].pc = "failed", ![m].seen = NoInterest]
    /\ faults' = faults + 1
    /\ UNCHANGED <<role, log, interest, room, memories, answered, participant, up>>

\* Minutes go by.
Tick ==
    /\ up /\ interest # NoInterest /\ interest.age < 2
    /\ interest' = [interest EXCEPT !.age = @ + 1]
    /\ UNCHANGED <<role, log, handlers, room, memories, answered, participant, up, faults>>

Step(m) == Recall(m) \/ Look(m) \/ Connect(m) \/ Store(m) \/ Ignore(m) \/ Gate(m) \/ Delay(m)
           \/ Ask(m) \/ Reply(m) \/ Act(m)

Next ==
    \/ \E p \in Posts : Message(p) \/ MessageThrows(p)
    \/ \E m \in Messages : Step(m) \/ RecallThrows(m) \/ Fail(m)
    \/ Tick

Spec == Init /\ [][Next]_vars

\* Timers run out, and Discord, the database and the model answer or refuse, so a
\* handler under way goes on.
FairSpec == Spec /\ \A m \in 1 .. MaxMessages : WF_vars(m \in Messages /\ Step(m))
-----------------------------------------------------------------------------
\* The variables have their types, and an entry of interestChannels keeps
\* messages that were stored.
Entries == [by : Messages, at : {"start", "recalled"}, age : Ages, messages : Seq(Messages),
            context : BOOLEAN]
TypeOK ==
    /\ role \in {"leader", "member"} /\ participant \in {"none", "MUTED", "FOLLOWED"}
    /\ log \in Seq(Posts) /\ Len(log) <= MaxMessages
    /\ handlers \in Seq([pc : Working \cup Ended, interested : BOOLEAN, sawRoom : BOOLEAN,
                         seen : Entries \cup {NoInterest}, action : Names])
    /\ Len(handlers) = Len(log)
    /\ interest \in Entries \cup {NoInterest}
    /\ interest # NoInterest =>
          /\ Len(interest.messages) <= MaxKept
          /\ \A i \in DOMAIN interest.messages : interest.messages[i] \in memories
    /\ {room, up} \subseteq BOOLEAN /\ faults \in 0 .. MaxFaults
    /\ answered \subseteq memories /\ memories \subseteq Messages

\* A message gives the agent a claim to the conversation: it mentions the agent,
\* asks the leader's team, or has a member's keyword.
Claims(m) == log[m].ping \/ (role = "leader" /\ log[m].team) \/ (role = "member" /\ log[m].topic)

\* A member that was stirred by a message to the whole team drops out again: a
\* message that comes in finds the agent interested only after an earlier one
\* that claimed it (messages.ts:186, "Clear interest after this cycle unless
\* directly mentioned"), however the handlers in between overlap.
InterestIsEarned ==
    /\ \A m \in Messages : handlers[m].interested => \E c \in 1 .. m - 1 : Claims(c)
    /\ interest # NoInterest /\ interest.age < 2 => \E c \in Messages : Claims(c)

\* The messages whose interest is left without a message: they were taken up for
\* their keyword or sent to the team by a mate and not gone on with, they failed,
\* or they are still on their way to the store.
LeavesEmpty(m) ==
    \/ handlers[m].pc \in Unstored \cup {"failed", "raced"}
    \/ handlers[m].pc = "ignored" /\ m \notin memories /\ ~log[m].ping

\* The process dies of a message only if a memory cannot be read or the agent's
\* interest has gone unattended for three minutes since a message that was never
\* stored: a conversation that a mention opened and that was stored never ends it
\* (messages.ts:804 reads the last message kept with the interest).
DiesForAReason ==
    [][up /\ ~up' => \/ faults' > faults
                     \/ interest # NoInterest /\ interest.age = 1 /\ LeavesEmpty(interest.by)]_vars

\* The leader answers a message to the team that found it without interest, from
\* an author outside the team and naming no other agent, unless it is muted, a
\* call fails, two first messages race for the room, or the process dies.
LeaderAnswersTeam ==
    \A m \in 1 .. MaxMessages :
        (/\ m \in Messages /\ role = "leader" /\ log[m].team /\ ~log[m].mate
         /\ log[m].from \notin Mates /\ ~handlers[m].interested)
        ~> (m \in Messages /\ (m \in answered \/ handlers[m].pc \in {"muted", "failed", "raced"} \/ ~up))

\* The room actions do what their names say: UNMUTE_ROOM "Unmutes a room, allowing
\* the agent to consider responding to messages again."
UndoneWhenAsked ==
    [][\A m \in Messages :
         /\ handlers[m].pc = "act" /\ handlers[m].action \in {"UNMUTE_ROOM", "UNFOLLOW_ROOM"}
         /\ participant' # participant
         => participant' = "none"]_vars
=============================================================================
