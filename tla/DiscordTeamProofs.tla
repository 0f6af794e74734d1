------------------------- MODULE DiscordTeamProofs -------------------------
(***************************************************************************)
(* Safety of DiscordTeam for any messages, team mates, number of handlers  *)
(* at once, sizes of the lists kept and failing calls.                     *)
(***************************************************************************)
EXTENDS DiscordTeam, SequenceTheorems, TLAPS

\* A handler has a memory of its message exactly from its store on.
StoredInTurn ==
    \A m \in Messages :
        /\ handlers[m].pc \in Unstored => m \notin memories
        /\ handlers[m].pc \in Working \ Unstored => m \in memories

\* An interest without a message is that of a message that left none: what
\* isAgentInterested must not meet three minutes later.
Unattended ==
    up /\ interest # NoInterest /\ interest.messages = <<>> => LeavesEmpty(interest.by)

\* The inductive invariant.
IInv == TypeOK /\ StoredInTurn /\ InterestIsEarned /\ Unattended

\* The entries and handlers of a channel of n messages.
EntriesOf(n) == [by : 1 .. n, at : {"start", "recalled"}, age : Ages, messages : Seq(1 .. n),
                 context : BOOLEAN]
HandlersOf(n) == [pc : Working \cup Ended, interested : BOOLEAN, sawRoom : BOOLEAN,
                  seen : EntriesOf(n) \cup {NoInterest}, action : Names]

\* Entry e is one the agent may have, by the memories of mem, and was earned by
\* one of the first n messages.
Earned(e, n, mem) ==
    e # NoInterest =>
        /\ e \in EntriesOf(n)
        /\ Len(e.messages) <= MaxKept
        /\ \A i \in DOMAIN e.messages : e.messages[i] \in mem
        /\ e.age < 2 => \E c \in 1 .. n : Claims(c)
-----------------------------------------------------------------------------
\* More messages allow for more entries and handlers.
LEMMA RecordsGrow ==
    ASSUME NEW n \in Nat, NEW k \in Nat, n <= k
    PROVE  /\ EntriesOf(n) \subseteq EntriesOf(k)
           /\ HandlersOf(n) \subseteq HandlersOf(k)
<1>1. 1 .. n \subseteq 1 .. k
  OBVIOUS
<1>2. Seq(1 .. n) \subseteq Seq(1 .. k)
  BY <1>1, SeqMonotonic
<1>3. EntriesOf(n) \subseteq EntriesOf(k)
  BY <1>1, <1>2 DEF EntriesOf
<1>4. QED
  BY <1>3 DEF HandlersOf

\* The last messages of a list are some of it, no more than asked for, and none
\* only of an empty list.
LEMMA KeptIsPart ==
    ASSUME NEW S, NEW s \in Seq(S), NEW n \in Nat \ {0}
    PROVE  /\ Kept(s, n) \in Seq(S)
           /\ Len(Kept(s, n)) <= n
           /\ s # <<>> => Kept(s, n) # <<>>
           /\ \A i \in DOMAIN Kept(s, n) : \E j \in DOMAIN s : Kept(s, n)[i] = s[j]
<1> DEFINE k == Len(s) - n + 1
           t == SubSeq(s, k, Len(s))
<1>0. Len(s) \in Nat /\ DOMAIN s = 1 .. Len(s)
  OBVIOUS
<1>1. CASE Len(s) > n
  <2>1. Kept(s, n) = t /\ k \in 1 .. Len(s)
    BY <1>0, <1>1 DEF Kept
  <2>2. \A i \in k .. Len(s) : s[i] \in S
    BY <1>0, <2>1, ElementOfSeq
  <2>3. /\ t \in Seq(S)
        /\ Len(t) = n
        /\ \A i \in 1 .. n : t[i] = s[k + i - 1]
    <3> HIDE DEF t
    <3>1. /\ t \in Seq(S)
          /\ Len(t) = IF k <= Len(s) THEN Len(s) - k + 1 ELSE 0
          /\ \A i \in 1 .. Len(s) - k + 1 : t[i] = s[k + i - 1]
      BY <1>0, <2>1, <2>2, SubSeqProperties DEF t
    <3>2. QED
      BY <1>0, <2>1, <3>1
  <2>4. DOMAIN t = 1 .. n
    BY <2>3
  <2>5. \A i \in 1 .. n : k + i - 1 \in DOMAIN s
    BY <1>0, <2>1
  <2>6. t # <<>>
    BY <2>3, EmptySeq
  <2> HIDE DEF t, k
  <2>7. QED
    BY <2>1, <2>3, <2>4, <2>5, <2>6
<1>2. CASE ~(Len(s) > n)
  <2>1. Kept(s, n) = s
    BY <1>2 DEF Kept
  <2>2. QED
    BY <1>0, <1>2, <2>1
<1>3. QED
  BY <1>1, <1>2

\* A list with one more at its end.
LEMMA OneMore ==
    ASSUME NEW S, NEW s \in Seq(S), NEW e \in S
    PROVE  /\ Append(s, e) \in Seq(S) /\ Append(s, e) # <<>>
           /\ DOMAIN Append(s, e) = 1 .. Len(s) + 1 /\ Len(Append(s, e)) = Len(s) + 1
           /\ \A i \in 1 .. Len(s) : Append(s, e)[i] = s[i]
           /\ Append(s, e)[Len(s) + 1] = e
           /\ \A i \in DOMAIN Append(s, e) :
                 Append(s, e)[i] = e \/ \E j \in DOMAIN s : Append(s, e)[i] = s[j]
  BY AppendProperties

\* The type of the state, by message.
LEMMA Typed ==
    ASSUME TypeOK
    PROVE  /\ Len(log) \in Nat
           /\ Messages = 1 .. Len(log)
           /\ log \in Seq(Posts) /\ handlers \in Seq(HandlersOf(Len(log)))
           /\ Len(handlers) = Len(log)
           /\ DOMAIN log = 1 .. Len(log) /\ DOMAIN handlers = 1 .. Len(log)
           /\ \A m \in Messages : log[m] \in Posts /\ handlers[m] \in HandlersOf(Len(log))
<1>1. log \in Seq(Posts) /\ handlers \in Seq(HandlersOf(Len(log))) /\ Len(handlers) = Len(log)
  BY DEF TypeOK, HandlersOf, EntriesOf, Entries, Messages
<1>2. QED
  BY <1>1, ElementOfSeq DEF Messages

\* The interest of a good state was earned.
LEMMA InterestEarned ==
    ASSUME IInv
    PROVE  Earned(interest, Len(log), memories)
  BY DEF IInv, TypeOK, InterestIsEarned, Earned, Entries, EntriesOf, Messages

\* How the posts are read.
LEMMA PostFields ==
    ASSUME NEW p \in Posts
    PROVE  {p.ping, p.mate, p.team, p.topic, p.stop} \subseteq BOOLEAN
  BY PostsAreMessages

\* What becomes of message m in the team leaves LeavesEmpty true of the others.
LEMMA OthersStayEmpty ==
    ASSUME NEW m \in Messages, NEW k \in Messages, k # m, LeavesEmpty(k),
           handlers'[k] = handlers[k], UNCHANGED log,
           memories' \subseteq memories \cup {m}
    PROVE  LeavesEmpty(k)'
  BY DEF LeavesEmpty

\* A handler goes one step, with what it must show for the invariant: it stores its
\* message before it goes on to answer, and leaves an interest that was earned and
\* has a message, or whose message leaves it empty.
LEMMA HandlerMoves ==
    ASSUME IInv, NEW m \in Messages, NEW h \in HandlersOf(Len(log)),
           handlers' = [handlers EXCEPT ![m] = h],
           h.interested = handlers[m].interested,
           UNCHANGED <<role, log>>,
           participant' \in {"none", "MUTED", "FOLLOWED"},
           {room', up'} \subseteq BOOLEAN, faults' \in 0 .. MaxFaults,
           memories \subseteq memories', memories' \subseteq memories \cup {m},
           answered' \subseteq memories',
           h.pc \in Unstored => m \notin memories',
           h.pc \in Working \ Unstored => m \in memories',
           Earned(interest', Len(log), memories'),
           up' /\ interest' # NoInterest /\ interest'.messages = <<>> =>
               \/ interest'.by = m /\ LeavesEmpty(m)'
               \/ /\ interest'.by # m /\ up
                  /\ interest # NoInterest /\ interest.messages = <<>>
                  /\ interest.by = interest'.by
    PROVE  IInv'
<1> DEFINE n == Len(log)
<1>1. /\ n \in Nat /\ Messages = 1 .. n /\ Messages' = 1 .. n
      /\ log \in Seq(Posts) /\ handlers \in Seq(HandlersOf(n)) /\ Len(handlers) = n
      /\ log' = log /\ role' = role
  BY Typed DEF IInv, Messages
<1>2. /\ handlers' \in Seq(HandlersOf(n)) /\ Len(handlers') = n
      /\ \A k \in Messages : handlers'[k] = IF k = m THEN h ELSE handlers[k]
  BY <1>1, ExceptSeq
<1>3. /\ EntriesOf(n) = Entries /\ Entries' = Entries
      /\ HandlersOf(n) = [pc : Working \cup Ended, interested : BOOLEAN, sawRoom : BOOLEAN,
                          seen : Entries \cup {NoInterest}, action : Names]
  BY <1>1 DEF EntriesOf, HandlersOf, Entries
<1>4. TypeOK'
  <2>1. memories' \subseteq Messages'
    BY <1>1 DEF IInv, TypeOK
  <2>2. /\ interest' \in Entries' \cup {NoInterest}
        /\ interest' # NoInterest =>
              /\ Len(interest'.messages) <= MaxKept
              /\ \A i \in DOMAIN interest'.messages : interest'.messages[i] \in memories'
    BY <1>3 DEF Earned
  <2>3. /\ handlers' \in Seq([pc : Working \cup Ended, interested : BOOLEAN, sawRoom : BOOLEAN,
                              seen : Entries' \cup {NoInterest}, action : Names])
        /\ Len(handlers') = Len(log')
    BY <1>1, <1>2, <1>3
  <2>4. role' \in {"leader", "member"} /\ log' \in Seq(Posts) /\ Len(log') <= MaxMessages
    BY <1>1 DEF IInv, TypeOK
  <2>5. QED
    BY <2>1, <2>2, <2>3, <2>4 DEF TypeOK
<1>5. StoredInTurn'
  <2>1. \A k \in Messages : /\ handlers'[k].pc \in Unstored => k \notin memories'
                            /\ handlers'[k].pc \in Working \ Unstored => k \in memories'
    BY <1>2 DEF IInv, StoredInTurn
  <2>2. QED
    BY <1>1, <2>1 DEF StoredInTurn
<1>6. InterestIsEarned'
  <2>1. \A c \in Messages : Claims(c)' <=> Claims(c)
    BY <1>1 DEF Claims
  <2>2. \A k \in Messages : handlers'[k].interested => \E c \in 1 .. k - 1 : Claims(c)'
    <3>1. \A k \in Messages : handlers[k].interested => \E c \in 1 .. k - 1 : Claims(c)
      BY DEF IInv, InterestIsEarned
    <3>2. \A k \in Messages : handlers'[k].interested = handlers[k].interested
      BY <1>2
    <3>3. \A k \in Messages : 1 .. k - 1 \subseteq Messages
      BY <1>1
    <3>4. QED
      BY <2>1, <3>1, <3>2, <3>3
  <2>3. interest' # NoInterest /\ interest'.age < 2 => \E c \in Messages : Claims(c)'
    BY <1>1, <2>1 DEF Earned
  <2>4. QED
    BY <1>1, <2>2, <2>3 DEF InterestIsEarned
<1>7. Unattended'
  <2> SUFFICES ASSUME up', interest' # NoInterest, interest'.messages = <<>>
               PROVE  Unattended'
    BY DEF Unattended
  <2>1. PICK k : k = interest'.by
    OBVIOUS
  <2>2. LeavesEmpty(k)'
    <3>1. CASE k = m /\ LeavesEmpty(m)'
      BY <3>1
    <3>2. CASE k # m /\ up /\ interest # NoInterest /\ interest.messages = <<>> /\ interest.by = k
      <4>1. LeavesEmpty(k) /\ k \in Messages
        BY <3>2 DEF IInv, Unattended, TypeOK, Entries
      <4>2. QED
        BY <1>1, <1>2, <3>2, <4>1, OthersStayEmpty
    <3>3. QED
      BY <2>1, <3>1, <3>2
  <2>3. QED
    BY <1>1, <2>1, <2>2 DEF Unattended, LeavesEmpty
<1>8. QED
  BY <1>4, <1>5, <1>6, <1>7 DEF IInv

\* The interest a message leaves in the team: the one there was, none, one that has
\* run out, or one that the message earned; a message not gone on with is no mention.
LEMMA TeamLeaves ==
    ASSUME NEW p \in Posts, NEW m, NEW at, NEW interested, NEW entry,
           role \in {"leader", "member"}
    PROVE  /\ \/ TeamHandling(p, m, at, interested, entry).entry \in {entry, NoInterest, Entry(m, at, 2)}
              \/ /\ TeamHandling(p, m, at, interested, entry).entry = Entry(m, at, 0)
                 /\ p.ping \/ (role = "leader" /\ p.team)
           /\ ~TeamHandling(p, m, at, interested, entry).goOn => ~p.ping
           /\ p.ping => TeamHandling(p, m, at, interested, entry).entry = Entry(m, at, 0)
  BY PostFields DEF TeamHandling

\* A fresh entry for message m.
LEMMA EntryFields ==
    ASSUME NEW n \in Nat, NEW m \in 1 .. n, NEW at \in {"start", "recalled"}, NEW age \in Ages
    PROVE  /\ Entry(m, at, age) \in EntriesOf(n)
           /\ Entry(m, at, age).by = m /\ Entry(m, at, age).age = age
           /\ Entry(m, at, age).messages = <<>>
           /\ \A mem : (age < 2 => \E c \in 1 .. n : Claims(c)) => Earned(Entry(m, at, age), n, mem)
<1>1. <<>> \in Seq(1 .. n) /\ Len(<<>>) = 0 /\ DOMAIN <<>> = {}
  OBVIOUS
<1>2. Entry(m, at, age) \in EntriesOf(n)
  BY <1>1 DEF Entry, EntriesOf
<1>3. 0 <= MaxKept
  BY BoundsAreNumbers
<1>4. QED
  BY <1>1, <1>2, <1>3 DEF Entry, Earned
-----------------------------------------------------------------------------
\* A step that stores nothing and leaves the interest with its message and list:
\* it is let go, stays, has its context set, or is refreshed by a mention.
LEMMA QuietMove ==
    ASSUME IInv, NEW m \in Messages, NEW h \in HandlersOf(Len(log)),
           handlers' = [handlers EXCEPT ![m] = h],
           h.interested = handlers[m].interested,
           up, handlers[m].pc \in Working,
           UNCHANGED <<role, log, memories>>,
           participant' \in {"none", "MUTED", "FOLLOWED"},
           {room', up'} \subseteq BOOLEAN, faults' \in 0 .. MaxFaults, answered' \subseteq memories,
           IF handlers[m].pc \in Unstored
           THEN h.pc \in Unstored \cup {"failed", "raced"} \/ (~up' /\ h.pc \in Ended)
           ELSE h.pc \notin Unstored,
           \/ interest' \in {NoInterest, interest}
           \/ /\ interest # NoInterest /\ interest' \in EntriesOf(Len(log))
              /\ interest'.by = interest.by /\ interest'.messages = interest.messages
              /\ interest'.age < 2 => interest.age < 2 \/ Claims(m)
    PROVE  IInv'
<1>1. Earned(interest, Len(log), memories) /\ Messages = 1 .. Len(log)
  BY InterestEarned DEF Messages
<1>2. Earned(interest', Len(log), memories)
  BY <1>1 DEF Earned
<1>3. /\ h.pc \in Unstored => m \notin memories
      /\ h.pc \in Working \ Unstored => m \in memories
  BY DEF IInv, StoredInTurn, Working, Unstored, Ended
<1>4. ASSUME up', interest' # NoInterest, interest'.messages = <<>>
      PROVE  \/ interest'.by = m /\ LeavesEmpty(m)'
             \/ /\ interest'.by # m /\ up
                /\ interest # NoInterest /\ interest.messages = <<>>
                /\ interest.by = interest'.by
  <2>1. interest # NoInterest /\ interest.messages = <<>> /\ interest.by = interest'.by
    BY <1>4
  <2>2. LeavesEmpty(interest.by)
    BY <2>1 DEF IInv, Unattended
  <2>3. ASSUME interest.by = m PROVE LeavesEmpty(m)'
    <3>1. handlers[m].pc \in Unstored
      BY <2>2, <2>3 DEF LeavesEmpty, Working
    <3>2. h.pc \in Unstored \cup {"failed", "raced"}
      BY <1>4, <3>1
    <3>3. handlers'[m] = h
      BY Typed DEF IInv
    <3>4. QED
      BY <3>2, <3>3 DEF LeavesEmpty
  <2>4. QED
    BY <2>1, <2>3
<1>5. QED
  BY <1>2, <1>3, <1>4, HandlerMoves DEF IInv, TypeOK

\* What a handler may be after a step.
LEMMA HandlerFields ==
    ASSUME TypeOK, NEW m \in Messages, NEW pc \in Working \cup Ended,
           NEW seen \in {NoInterest, interest, handlers[m].seen}, NEW action \in Names,
           NEW sawRoom \in BOOLEAN
    PROVE  /\ [handlers[m] EXCEPT !.pc = pc, !.seen = seen, !.action = action, !.sawRoom = sawRoom]
                 \in HandlersOf(Len(log))
           /\ [handlers[m] EXCEPT !.pc = pc] \in HandlersOf(Len(log))
           /\ [handlers[m] EXCEPT !.pc = pc, !.seen = seen] \in HandlersOf(Len(log))
           /\ [handlers[m] EXCEPT !.pc = pc, !.action = action] \in HandlersOf(Len(log))
           /\ [handlers[m] EXCEPT !.pc = pc, !.sawRoom = sawRoom] \in HandlersOf(Len(log))
<1>1. handlers[m] \in HandlersOf(Len(log))
  BY Typed
<1>2. interest \in EntriesOf(Len(log)) \cup {NoInterest}
  BY DEF TypeOK, Entries, EntriesOf, Messages
<1>3. QED
  BY <1>1, <1>2 DEF HandlersOf

\* The actions registered.
LEMMA TheNames == Names = {"FOLLOW_ROOM", "UNFOLLOW_ROOM", "MUTE_ROOM", "UNMUTE_ROOM", "OTHER"}
<1>1. DOMAIN Registered = 1 .. 5
  BY DEF Registered
<1>2. /\ Registered[1] = "FOLLOW_ROOM" /\ Registered[2] = "UNFOLLOW_ROOM"
      /\ Registered[3] = "MUTE_ROOM" /\ Registered[4] = "UNMUTE_ROOM" /\ Registered[5] = "OTHER"
  BY DEF Registered
<1>3. QED
  BY <1>1, <1>2 DEF Names

\* ensureConnection looks for the room.
LEMMA LookKeeps == ASSUME IInv, NEW m \in Messages, Look(m) PROVE IInv'
<1> DEFINE h == [handlers[m] EXCEPT !.pc = "insert", !.sawRoom = room]
<1>1. room \in BOOLEAN /\ "insert" \in Working
  BY DEF IInv, TypeOK, Working
<1>2. h \in HandlersOf(Len(log))
  BY <1>1, HandlerFields, TheNames DEF IInv
<1>3. handlers' = [handlers EXCEPT ![m] = h] /\ h.pc = "insert" /\ h.interested = handlers[m].interested
  BY <1>2, Typed DEF IInv, Look, HandlersOf
<1>4. up /\ handlers[m].pc = "media" /\ UNCHANGED <<role, log, interest, room, memories, answered, participant, up, faults>>
  BY DEF Look, At
<1>5. QED
  BY <1>2, <1>3, <1>4, QuietMove DEF IInv, TypeOK, Working, Unstored

\* ensureConnection inserts the room.
LEMMA ConnectKeeps == ASSUME IInv, NEW m \in Messages, Connect(m) PROVE IInv'
<1>1. PICK pc \in {"raced", "store"} : Go(m, pc)
  BY DEF Connect
<1> DEFINE h == [handlers[m] EXCEPT !.pc = pc]
<1>2. h \in HandlersOf(Len(log))
  BY HandlerFields, TheNames DEF IInv, Working, Ended
<1>3. handlers' = [handlers EXCEPT ![m] = h] /\ h.pc = pc /\ h.interested = handlers[m].interested
  BY <1>1, <1>2, Typed DEF IInv, Go, HandlersOf
<1>4. /\ up /\ handlers[m].pc = "insert" /\ room' = TRUE
      /\ UNCHANGED <<role, log, interest, memories, answered, participant, up, faults>>
  BY DEF Connect, At
<1>5. QED
  BY <1>2, <1>3, <1>4, QuietMove DEF IInv, TypeOK, Working, Unstored

\* _shouldIgnore has spoken.
LEMMA IgnoreKeeps == ASSUME IInv, NEW m \in Messages, Ignore(m) PROVE IInv'
<1>1. PICK pc \in {"ignored", "gate"} : Go(m, pc)
  BY DEF Ignore
<1> DEFINE h == [handlers[m] EXCEPT !.pc = pc]
<1>2. h \in HandlersOf(Len(log))
  BY HandlerFields, TheNames DEF IInv, Working, Ended
<1>3. handlers' = [handlers EXCEPT ![m] = h] /\ h.pc = pc /\ h.interested = handlers[m].interested
  BY <1>1, <1>2, Typed DEF IInv, Go, HandlersOf
<1>4. /\ up /\ handlers[m].pc = "ignore"
      /\ UNCHANGED <<role, log, interest, room, memories, answered, participant, up, faults>>
  BY DEF Ignore, At
<1>5. QED
  BY <1>2, <1>3, <1>4, QuietMove DEF IInv, TypeOK, Working, Unstored

\* A mention makes the interest fresh.
LEMMA RefreshedEntry ==
    ASSUME TypeOK, interest # NoInterest
    PROVE  /\ Refreshed \in EntriesOf(Len(log))
           /\ Refreshed.by = interest.by /\ Refreshed.messages = interest.messages
<1>1. interest \in EntriesOf(Len(log))
  BY DEF TypeOK, Entries, EntriesOf, Messages
<1>2. Refreshed = [interest EXCEPT !.age = 0] /\ 0 \in Ages
  BY DEF Refreshed, Ages
<1>3. QED
  BY <1>1, <1>2 DEF EntriesOf

\* A step that may refresh the interest by a mention and holds on to an entry.
LEMMA RefreshMove ==
    ASSUME IInv, NEW m \in Messages, NEW pc \in {"muted", "delay", "ask", "reply", "ignored"},
           NEW seen \in {NoInterest, interest, handlers[m].seen},
           handlers' = [handlers EXCEPT ![m].pc = pc, ![m].seen = seen],
           up, handlers[m].pc \in {"gate", "delay"},
           UNCHANGED <<role, log, room, memories, answered, participant, up, faults>>,
           interest' = interest \/ (interest' = Refreshed /\ log[m].ping)
    PROVE  IInv'
<1> DEFINE h == [handlers[m] EXCEPT !.pc = pc, !.seen = seen]
<1>1. h \in HandlersOf(Len(log))
  BY HandlerFields, TheNames DEF IInv, Working, Ended
<1>2. DOMAIN handlers = 1 .. Len(log) /\ Messages = 1 .. Len(log)
  BY Typed DEF IInv
<1>3. handlers' = [handlers EXCEPT ![m] = h]
  BY <1>2
<1>4. h.pc = pc /\ h.interested = handlers[m].interested
  BY <1>1, Typed DEF IInv, HandlersOf
<1>5. \/ interest' \in {NoInterest, interest}
      \/ /\ interest # NoInterest /\ interest' \in EntriesOf(Len(log))
         /\ interest'.by = interest.by /\ interest'.messages = interest.messages
         /\ interest'.age < 2 => interest.age < 2 \/ Claims(m)
  <2>1. CASE interest # NoInterest
    BY <2>1, RefreshedEntry DEF IInv, Claims
  <2>2. CASE interest = NoInterest
    BY <2>2 DEF Refreshed
  <2>3. QED
    BY <2>1, <2>2
<1>6. /\ handlers[m].pc \in Working \ Unstored /\ pc \notin Unstored
      /\ answered \subseteq memories /\ faults \in 0 .. MaxFaults /\ {room, up} \subseteq BOOLEAN
      /\ participant \in {"none", "MUTED", "FOLLOWED"}
  BY DEF IInv, TypeOK, Working, Unstored
<1> HIDE DEF h
<1>7. QED
  BY <1>1, <1>3, <1>4, <1>5, <1>6, QuietMove

\* The participant's state has been read.
LEMMA GateKeeps ==
    ASSUME IInv, NEW m \in Messages, NEW mentioned \in BOOLEAN, GateOf(m, mentioned)
    PROVE  IInv'
<1> DEFINE p == log[m]
           muted == participant = "MUTED" /\ ~mentioned /\ ~handlers[m].interested
           sure == \/ participant = "FOLLOWED" \/ handlers[m].interested
                   \/ (role = "member" /\ p.topic) \/ (role = "leader" /\ p.team)
           waits == ~sure /\ role = "leader" /\ ~p.topic
           place == IF muted THEN "muted" ELSE IF waits THEN "delay"
                    ELSE IF sure \/ p.ping THEN "reply" ELSE "ask"
           held == IF place \in {"delay", "ask"} THEN interest ELSE NoInterest
<1>1. place \in {"muted", "delay", "ask", "reply"} /\ held \in {NoInterest, interest}
  OBVIOUS
<1>2. place = "reply" /\ ~sure => p.ping
  OBVIOUS
<1>3. /\ handlers' = [handlers EXCEPT ![m].pc = place, ![m].seen = held]
      /\ interest' = IF place = "reply" /\ ~sure THEN Refreshed ELSE interest
      /\ up /\ handlers[m].pc = "gate"
      /\ UNCHANGED <<role, log, room, memories, answered, participant, up, faults>>
  BY Zenon DEF GateOf, At
<1> HIDE DEF place, sure, held
<1>4. QED
  BY <1>1, <1>2, <1>3, RefreshMove

\* The leader's delay is over.
LEMMA DelayKeeps == ASSUME IInv, NEW m \in Messages, Delay(m) PROVE IInv'
<1> DEFINE beaten == Seen(m) # NoInterest /\ MatesIn(Kept(Seen(m).messages, RecentCount))
           place == IF beaten THEN "ignored" ELSE IF log[m].ping THEN "reply" ELSE "ask"
<1>1. /\ place \in {"ignored", "reply", "ask"}
      /\ place = "reply" => log[m].ping
  OBVIOUS
<1>2. /\ handlers' = [handlers EXCEPT ![m].pc = place, ![m].seen = IF place = "ask" THEN @ ELSE NoInterest]
      /\ interest' = IF place = "reply" THEN Refreshed ELSE interest
      /\ up /\ handlers[m].pc = "delay"
      /\ UNCHANGED <<role, log, room, memories, answered, participant, up, faults>>
  BY Zenon DEF Delay, At
<1> HIDE DEF place
<1>3. PICK seen :
        /\ seen \in {NoInterest, handlers[m].seen}
        /\ handlers' = [handlers EXCEPT ![m].pc = place, ![m].seen = seen]
  <2>1. DOMAIN handlers = 1 .. Len(log) /\ Messages = 1 .. Len(log) /\ handlers[m] \in HandlersOf(Len(log))
    BY Typed DEF IInv
  <2>2. handlers' = [handlers EXCEPT ![m].pc = place,
                                    ![m].seen = IF place = "ask" THEN handlers[m].seen ELSE NoInterest]
    BY <1>2, <2>1 DEF HandlersOf
  <2>3. QED
    BY <2>2
<1>4. QED
  BY <1>1, <1>2, <1>3, RefreshMove

\* The model has been asked whether to respond.
LEMMA AskKeeps == ASSUME IInv, NEW m \in Messages, Ask(m) PROVE IInv'
<1>1. PICK pc \in {"reply", "ignored"} :
        /\ handlers' = [handlers EXCEPT ![m].pc = pc, ![m].seen = NoInterest]
        /\ \/ interest' \in {NoInterest, interest}
           \/ Same(m) /\ interest' = [interest EXCEPT !.context = TRUE]
  BY DEF Ask
<1> DEFINE h == [handlers[m] EXCEPT !.pc = pc, !.seen = NoInterest]
<1>2. /\ up /\ handlers[m].pc = "ask"
      /\ UNCHANGED <<role, log, room, memories, answered, participant, up, faults>>
  BY DEF Ask, At
<1>3. h \in HandlersOf(Len(log))
  BY HandlerFields, TheNames DEF IInv, Working, Ended
<1>4. handlers' = [handlers EXCEPT ![m] = h]
  BY <1>1, Typed DEF IInv
<1>5. h.pc = pc /\ h.interested = handlers[m].interested
  BY <1>3, Typed DEF IInv, HandlersOf
<1>6. \/ interest' \in {NoInterest, interest}
      \/ /\ interest # NoInterest /\ interest' \in EntriesOf(Len(log))
         /\ interest'.by = interest.by /\ interest'.messages = interest.messages
         /\ interest'.age < 2 => interest.age < 2 \/ Claims(m)
  <2>1. CASE Same(m) /\ interest' = [interest EXCEPT !.context = TRUE]
    <3>1. interest # NoInterest
      BY <2>1 DEF Same
    <3>2. interest \in EntriesOf(Len(log))
      BY <3>1 DEF IInv, TypeOK, Entries, EntriesOf, Messages
    <3>3. QED
      BY <2>1, <3>1, <3>2 DEF EntriesOf
  <2>2. QED
    BY <1>1, <2>1
<1> HIDE DEF h
<1>7. QED
  BY <1>2, <1>3, <1>4, <1>5, <1>6, QuietMove DEF IInv, TypeOK, Working, Unstored

\* The answer is sent: of a message that has been stored.
LEMMA ReplyKeeps == ASSUME IInv, NEW m \in Messages, Reply(m) PROVE IInv'
<1>1. PICK name \in NamesGiven : handlers' = [handlers EXCEPT ![m].pc = "act", ![m].action = name]
  BY DEF Reply
<1> DEFINE h == [handlers[m] EXCEPT !.pc = "act", !.action = name]
<1>2. /\ up /\ handlers[m].pc = "reply" /\ answered' = answered \cup {m}
      /\ UNCHANGED <<role, log, interest, room, memories, participant, up, faults>>
  BY DEF Reply, At
<1>3. h \in HandlersOf(Len(log))
  BY HandlerFields, TheNames, NamesAreActions DEF IInv, Working
<1>4. handlers' = [handlers EXCEPT ![m] = h]
  BY <1>1, Typed DEF IInv
<1>5. h.pc = "act" /\ h.interested = handlers[m].interested
  BY <1>3, Typed DEF IInv, HandlersOf
<1>6. answered' \subseteq memories
  BY <1>2 DEF IInv, TypeOK, StoredInTurn, Working, Unstored
<1> HIDE DEF h
<1>7. QED
  BY <1>2, <1>3, <1>4, <1>5, <1>6, QuietMove DEF IInv, TypeOK, Working, Unstored

\* The action sets the agent's state in the room.
LEMMA ActKeeps == ASSUME IInv, NEW m \in Messages, Act(m) PROVE IInv'
<1> DEFINE h == [handlers[m] EXCEPT !.pc = "done", !.action = "OTHER"]
<1>1. /\ up /\ handlers[m].pc = "act"
      /\ handlers' = [handlers EXCEPT ![m].pc = "done", ![m].action = "OTHER"]
      /\ UNCHANGED <<role, log, interest, room, memories, answered, up, faults>>
  BY DEF Act, At
<1>2. participant' \in {"none", "MUTED", "FOLLOWED"}
  <2>1. \A a : StateAfter(a) \in {"none", "MUTED", "FOLLOWED", participant}
    BY DEF StateAfter
  <2>2. participant' = participant \/ participant' = StateAfter(Found(handlers[m].action))
    BY DEF Act
  <2>3. QED
    BY <2>1, <2>2 DEF IInv, TypeOK
<1>3. h \in HandlersOf(Len(log))
  BY HandlerFields, TheNames DEF IInv, Working, Ended
<1>4. handlers' = [handlers EXCEPT ![m] = h]
  BY <1>1, Typed DEF IInv
<1>5. h.pc = "done" /\ h.interested = handlers[m].interested
  BY <1>3, Typed DEF IInv, HandlersOf
<1> HIDE DEF h
<1>6. QED
  BY <1>1, <1>2, <1>3, <1>4, <1>5, QuietMove DEF IInv, TypeOK, Working, Unstored

\* A call inside the try block fails.
LEMMA FailKeeps == ASSUME IInv, NEW m \in Messages, Fail(m) PROVE IInv'
<1> DEFINE h == [handlers[m] EXCEPT !.pc = "failed", !.seen = NoInterest]
<1>1. /\ up /\ handlers[m].pc \in Working
      /\ handlers' = [handlers EXCEPT ![m].pc = "failed", ![m].seen = NoInterest]
      /\ UNCHANGED <<role, log, interest, room, memories, answered, participant, up>>
  BY DEF Fail, Working
<1>2. faults' \in 0 .. MaxFaults
  BY BoundsAreNumbers DEF Fail, IInv, TypeOK
<1>3. h \in HandlersOf(Len(log))
  BY HandlerFields, TheNames DEF IInv, Working, Ended
<1>4. handlers' = [handlers EXCEPT ![m] = h]
  BY <1>1, Typed DEF IInv
<1>5. h.pc = "failed" /\ h.interested = handlers[m].interested
  BY <1>3, Typed DEF IInv, HandlersOf
<1> HIDE DEF h
<1>6. QED
  BY <1>1, <1>2, <1>3, <1>4, <1>5, QuietMove DEF IInv, TypeOK, Working, Unstored

\* The last memories cannot be read, and the process ends.
LEMMA RecallThrowsKeeps == ASSUME IInv, NEW m \in Messages, RecallThrows(m) PROVE IInv'
<1> DEFINE h == [handlers[m] EXCEPT !.pc = "fatal"]
<1>1. /\ up /\ handlers[m].pc = "recall" /\ up' = FALSE
      /\ handlers' = [handlers EXCEPT ![m].pc = "fatal"]
      /\ UNCHANGED <<role, log, interest, room, memories, answered, participant>>
  BY DEF RecallThrows, At, Go
<1>2. faults' \in 0 .. MaxFaults
  BY BoundsAreNumbers DEF RecallThrows, IInv, TypeOK
<1>3. h \in HandlersOf(Len(log))
  BY HandlerFields, TheNames DEF IInv, Working, Ended
<1>4. handlers' = [handlers EXCEPT ![m] = h]
  BY <1>1, Typed DEF IInv
<1>5. h.pc = "fatal" /\ h.interested = handlers[m].interested
  BY <1>3, Typed DEF IInv, HandlersOf
<1> HIDE DEF h
<1>6. QED
  BY <1>1, <1>2, <1>3, <1>4, <1>5, QuietMove DEF IInv, TypeOK, Working, Unstored, Ended

\* The agent's last answer has been read: the message is gone on with, or leaves no
\* interest of its own.
LEMMA RecallKeeps == ASSUME IInv, NEW m \in Messages, Recall(m) PROVE IInv'
<1> DEFINE n == Len(log)
           team == TeamHandling(log[m], m, "recalled", TRUE, interest)
<1>1. /\ up /\ handlers[m].pc = "recall"
      /\ UNCHANGED <<role, log, room, memories, answered, participant, up, faults>>
  BY DEF Recall, At
<1>2. PICK pc \in {"media", "ignored"} :
        /\ handlers' = [handlers EXCEPT ![m].pc = pc]
        /\ \/ interest' = NoInterest
           \/ interest' = team.entry /\ (pc = "media" \/ ~team.goOn)
  <2>1. PICK relevant \in IF role = "leader" /\ answered # {} THEN BOOLEAN ELSE {log[m].topic} :
          /\ interest' = IF relevant THEN team.entry ELSE NoInterest
          /\ Go(m, IF relevant /\ team.goOn THEN "media" ELSE "ignored")
    BY Zenon DEF Recall
  <2> HIDE DEF team
  <2>2. QED
    BY <2>1 DEF Go
<1> DEFINE h == [handlers[m] EXCEPT !.pc = pc]
<1>3. /\ n \in Nat /\ Messages = 1 .. n /\ m \in 1 .. n /\ log[m] \in Posts
      /\ handlers \in Seq(HandlersOf(n)) /\ handlers[m] \in HandlersOf(n) /\ DOMAIN handlers = 1 .. n
  BY Typed DEF IInv
<1>4. h \in HandlersOf(n)
  BY HandlerFields, TheNames DEF IInv, Working, Ended
<1>5. handlers' = [handlers EXCEPT ![m] = h] /\ h.pc = pc /\ h.interested = handlers[m].interested
  BY <1>2, <1>3, <1>4 DEF HandlersOf
<1>6. m \notin memories
  BY <1>1 DEF IInv, StoredInTurn, Unstored
<1>7. handlers'[m].pc = pc
  BY <1>3, <1>5
<1>8. /\ \/ interest' \in {interest, NoInterest, Entry(m, "recalled", 2)}
         \/ interest' = Entry(m, "recalled", 0) /\ Claims(m)
      /\ interest' # NoInterest /\ pc = "ignored" => ~log[m].ping
  <2>1. role \in {"leader", "member"}
    BY DEF IInv, TypeOK
  <2>2. /\ \/ team.entry \in {interest, NoInterest, Entry(m, "recalled", 2)}
           \/ /\ team.entry = Entry(m, "recalled", 0)
              /\ log[m].ping \/ (role = "leader" /\ log[m].team)
        /\ ~team.goOn => ~log[m].ping
    <3>1. log[m] \in Posts
      BY <1>3
    <3>2. QED
      BY <2>1, <3>1, PostFields DEF TeamHandling
  <2> HIDE DEF team
  <2>3. QED
    BY <1>2, <2>2 DEF Claims
<1>9. Earned(interest', n, memories)
  <2>1. Earned(interest, n, memories) /\ Earned(NoInterest, n, memories)
    BY InterestEarned DEF Earned
  <2>2. Earned(Entry(m, "recalled", 2), n, memories)
    BY <1>3, EntryFields DEF Ages
  <2>3. Claims(m) => Earned(Entry(m, "recalled", 0), n, memories)
    BY <1>3, EntryFields DEF Ages
  <2>4. QED
    BY <1>8, <2>1, <2>2, <2>3
<1>10. ASSUME interest' # NoInterest, interest'.messages = <<>>
       PROVE  \/ interest'.by = m /\ LeavesEmpty(m)'
              \/ /\ interest'.by # m /\ up
                 /\ interest # NoInterest /\ interest.messages = <<>>
                 /\ interest.by = interest'.by
  <2>1. LeavesEmpty(m)'
    BY <1>1, <1>2, <1>6, <1>7, <1>8, <1>10 DEF LeavesEmpty, Unstored
  <2>2. CASE interest' = interest
    BY <1>1, <1>10, <2>1, <2>2
  <2>3. CASE interest' # interest
    <3>1. interest'.by = m
      BY <1>3, <1>8, <1>10, <2>3, EntryFields DEF Ages
    <3>2. QED
      BY <2>1, <3>1
  <2>4. QED
    BY <2>2, <2>3
<1>11. h.pc \in Unstored => m \notin memories
  BY <1>6
<1>12. h.pc \notin Working \ Unstored
  BY <1>5 DEF Working, Unstored
<1> HIDE DEF h, n
<1>13. QED
  BY <1>1, <1>3, <1>4, <1>5, <1>9, <1>10, <1>11, <1>12, HandlerMoves DEF IInv, TypeOK, n

\* The message is stored, and kept last with the interest there is.
LEMMA StoreKeeps == ASSUME IInv, NEW m \in Messages, Store(m) PROVE IInv'
<1> DEFINE n == Len(log)
           h == [handlers[m] EXCEPT !.pc = "ignore"]
<1>1. /\ up /\ handlers[m].pc = "store" /\ memories' = memories \cup {m}
      /\ handlers' = [handlers EXCEPT ![m].pc = "ignore"]
      /\ interest' = IF interest = NoInterest THEN interest
                     ELSE [interest EXCEPT !.messages = Kept(Append(interest.messages, m), MaxKept)]
      /\ UNCHANGED <<role, log, room, answered, participant, up, faults>>
  BY DEF Store, At, Go
<1>2. n \in Nat /\ Messages = 1 .. n /\ m \in 1 .. n
  BY Typed DEF IInv
<1>3. h \in HandlersOf(n)
  BY HandlerFields, TheNames DEF IInv, Working, Ended
<1>4. handlers' = [handlers EXCEPT ![m] = h] /\ h.pc = "ignore" /\ h.interested = handlers[m].interested
  BY <1>1, <1>3, Typed DEF IInv, HandlersOf
<1>5. /\ Earned(interest', n, memories')
      /\ interest' # NoInterest => interest'.messages # <<>>
  <2>1. CASE interest = NoInterest
    BY <1>1, <2>1 DEF Earned
  <2>2. CASE interest # NoInterest
    <3> DEFINE s == Append(interest.messages, m)
               k == Kept(s, MaxKept)
    <3>1. /\ interest \in EntriesOf(n) /\ interest.messages \in Seq(1 .. n)
          /\ \A i \in DOMAIN interest.messages : interest.messages[i] \in memories
          /\ interest.age < 2 => \E c \in 1 .. n : Claims(c)
      BY <2>2, InterestEarned DEF Earned, EntriesOf
    <3>2. s \in Seq(1 .. n) /\ s # <<>>
      BY <1>2, <3>1, OneMore
    <3>3. \A i \in DOMAIN s : s[i] \in memories'
      <4>1. \A i \in DOMAIN s : s[i] = m \/ \E j \in DOMAIN interest.messages : s[i] = interest.messages[j]
        BY <1>2, <3>1, OneMore
      <4> HIDE DEF s
      <4>2. QED
        BY <1>1, <3>1, <4>1
    <3>4. MaxKept \in Nat \ {0}
      BY BoundsAreNumbers
    <3> HIDE DEF s
    <3>5. /\ k \in Seq(1 .. n) /\ Len(k) <= MaxKept /\ k # <<>>
          /\ \A i \in DOMAIN k : \E j \in DOMAIN s : k[i] = s[j]
      BY <3>2, <3>4, KeptIsPart
    <3>6. interest' = [interest EXCEPT !.messages = k]
      BY <1>1, <2>2 DEF s
    <3> HIDE DEF k
    <3>7. interest' \in EntriesOf(n) /\ interest'.messages = k /\ interest'.age = interest.age
      BY <3>1, <3>5, <3>6 DEF EntriesOf
    <3>8. QED
      BY <3>1, <3>3, <3>5, <3>7 DEF Earned
  <2>3. QED
    BY <2>1, <2>2
<1>6. answered \subseteq memories'
  BY <1>1 DEF IInv, TypeOK
<1>7. h.pc \notin Unstored /\ m \in memories'
  BY <1>1, <1>4 DEF Unstored
<1> HIDE DEF h, n
<1>8. QED
  BY <1>1, <1>2, <1>3, <1>4, <1>5, <1>6, <1>7, HandlerMoves DEF IInv, TypeOK, n
-----------------------------------------------------------------------------
\* A message comes in: its handler has not stored it, is interested only if an
\* earlier message was a claim, and leaves the interest as it was, or ended, or
\* begun by this message, which then is a claim or leaves an interest that has run
\* out.
LEMMA Arrives ==
    ASSUME IInv, NEW p \in Posts, Post(p),
           NEW n \in Nat, n = Len(log), NEW h \in HandlersOf(n + 1),
           handlers' = Append(handlers, h),
           h.pc \in {"recall", "media", "ignored", "fatal"},
           h.pc = "fatal" => ~up',
           h.pc = "ignored" => ~p.ping,
           h.interested => \E c \in Messages : Claims(c),
           UNCHANGED <<role, room, memories, answered, participant, faults>>, up' \in BOOLEAN,
           \/ interest' \in {interest, NoInterest, Entry(n + 1, "start", 2)}
           \/ /\ interest' = Entry(n + 1, "start", 0)
              /\ p.ping \/ (role = "leader" /\ p.team) \/ (role = "member" /\ p.topic)
    PROVE  IInv'
<1>1. /\ n \in Nat /\ Messages = 1 .. n /\ log \in Seq(Posts) /\ DOMAIN log = 1 .. n
      /\ handlers \in Seq(HandlersOf(n)) /\ Len(handlers) = n
      /\ up /\ n < MaxMessages /\ log' = Append(log, p)
  BY Typed DEF IInv, Post
<1>2. EntriesOf(n) \subseteq EntriesOf(n + 1) /\ HandlersOf(n) \subseteq HandlersOf(n + 1)
  BY <1>1, RecordsGrow
<1>3. /\ log' \in Seq(Posts) /\ Len(log') = n + 1 /\ log'[n + 1] = p
      /\ \A k \in 1 .. n : log'[k] = log[k]
  BY <1>1, OneMore
<1>4. /\ handlers' \in Seq(HandlersOf(n + 1)) /\ Len(handlers') = n + 1 /\ handlers'[n + 1] = h
      /\ \A k \in 1 .. n : handlers'[k] = handlers[k]
  <2>1. handlers \in Seq(HandlersOf(n + 1))
    BY <1>1, <1>2, SeqMonotonic
  <2>2. QED
    BY <1>1, <2>1, OneMore
<1>5. /\ Messages' = 1 .. n + 1 /\ Entries' = EntriesOf(n + 1) /\ role' = role
      /\ memories' = memories /\ memories \subseteq 1 .. n
  BY <1>1, <1>3 DEF IInv, TypeOK, Messages, Entries, EntriesOf
<1>6. \A c \in 1 .. n : Claims(c)' <=> Claims(c)
  BY <1>3, <1>5 DEF Claims
<1>7. Claims(n + 1)' <=> p.ping \/ (role = "leader" /\ p.team) \/ (role = "member" /\ p.topic)
  BY <1>3, <1>5 DEF Claims
<1>8. /\ \A age \in {0, 2} : /\ Entry(n + 1, "start", age) \in EntriesOf(n + 1)
                              /\ Entry(n + 1, "start", age).by = n + 1
                              /\ Entry(n + 1, "start", age).age = age
                              /\ Entry(n + 1, "start", age).messages = <<>>
      /\ Len(<<>>) = 0 /\ DOMAIN <<>> = {} /\ 0 <= MaxKept
  <2>1. n + 1 \in 1 .. n + 1 /\ {0, 2} \subseteq Ages /\ n + 1 \in Nat
    BY <1>1 DEF Ages
  <2>2. Len(<<>>) = 0 /\ DOMAIN <<>> = {} /\ 0 <= MaxKept
    BY BoundsAreNumbers
  <2>3. QED
    BY <2>1, <2>2, EntryFields
<1>9. interest' \in {interest, NoInterest} \/ \E age \in {0, 2} : interest' = Entry(n + 1, "start", age)
  OBVIOUS
<1>10. TypeOK'
  <2>1. /\ interest' \in EntriesOf(n + 1) \cup {NoInterest}
        /\ interest' # NoInterest =>
              /\ Len(interest'.messages) <= MaxKept
              /\ \A i \in DOMAIN interest'.messages : interest'.messages[i] \in memories'
    <3>1. CASE interest' \in {interest, NoInterest}
      BY <1>2, <1>5, <3>1, InterestEarned DEF Earned
    <3>2. CASE \E age \in {0, 2} : interest' = Entry(n + 1, "start", age)
      BY <1>8, <3>2
    <3>3. QED
      BY <1>9, <3>1, <3>2
  <2>2. /\ role' \in {"leader", "member"} /\ participant' \in {"none", "MUTED", "FOLLOWED"}
        /\ {room', up'} \subseteq BOOLEAN /\ faults' \in 0 .. MaxFaults
        /\ answered' \subseteq memories' /\ memories' \subseteq Messages'
    BY <1>1, <1>5 DEF IInv, TypeOK
  <2>3. log' \in Seq(Posts) /\ Len(log') <= MaxMessages
    BY <1>1, <1>3, BoundsAreNumbers
  <2>4. /\ handlers' \in Seq([pc : Working \cup Ended, interested : BOOLEAN, sawRoom : BOOLEAN,
                              seen : Entries' \cup {NoInterest}, action : Names])
        /\ Len(handlers') = Len(log')
    BY <1>3, <1>4, <1>5 DEF HandlersOf
  <2>5. QED
    BY <1>5, <2>1, <2>2, <2>3, <2>4 DEF TypeOK
<1>11. StoredInTurn'
  <2>1. \A k \in 1 .. n : /\ handlers'[k].pc \in Unstored => k \notin memories'
                          /\ handlers'[k].pc \in Working \ Unstored => k \in memories'
    BY <1>1, <1>4, <1>5 DEF IInv, StoredInTurn
  <2>2. n + 1 \notin memories' /\ handlers'[n + 1].pc \notin Working \ Unstored
    BY <1>1, <1>4, <1>5 DEF Working, Unstored
  <2>3. QED
    BY <1>1, <1>5, <2>1, <2>2 DEF StoredInTurn
<1>12. InterestIsEarned'
  <2>1. \A k \in 1 .. n : handlers'[k].interested => \E c \in 1 .. k - 1 : Claims(c)'
    <3>1. \A k \in 1 .. n : handlers[k].interested => \E c \in 1 .. k - 1 : Claims(c)
      BY <1>1 DEF IInv, InterestIsEarned
    <3>2. \A k \in 1 .. n : 1 .. k - 1 \subseteq 1 .. n
      BY <1>1
    <3>3. QED
      BY <1>4, <1>6, <3>1, <3>2
  <2>2. handlers'[n + 1].interested => \E c \in 1 .. (n + 1) - 1 : Claims(c)'
    <3>1. 1 .. (n + 1) - 1 = 1 .. n
      BY <1>1
    <3>2. QED
      BY <1>1, <1>4, <1>6, <3>1
  <2>3. interest' # NoInterest /\ interest'.age < 2 => \E c \in 1 .. n + 1 : Claims(c)'
    <3>1. CASE interest' = interest
      BY <1>1, <1>6, <3>1, InterestEarned DEF Earned
    <3>2. CASE interest' = Entry(n + 1, "start", 2)
      BY <1>8, <3>2
    <3>3. CASE interest' = Entry(n + 1, "start", 0)
               /\ (p.ping \/ (role = "leader" /\ p.team) \/ (role = "member" /\ p.topic))
      BY <1>1, <1>7, <3>3
    <3>4. QED
      BY <3>1, <3>2, <3>3
  <2>4. QED
    BY <1>1, <1>5, <2>1, <2>2, <2>3 DEF InterestIsEarned
<1>13. Unattended'
  <2> SUFFICES ASSUME up', interest' # NoInterest, interest'.messages = <<>>
               PROVE  Unattended'
    BY DEF Unattended
  <2>1. PICK k : k = interest'.by
    OBVIOUS
  <2>2. LeavesEmpty(k)'
    <3>1. CASE interest' = interest
      <4>1. LeavesEmpty(k) /\ k \in 1 .. n
        BY <1>1, <2>1, <3>1 DEF IInv, Unattended, TypeOK, Entries
      <4>2. QED
        BY <1>3, <1>4, <1>5, <4>1 DEF LeavesEmpty
    <3>2. CASE \E age \in {0, 2} : interest' = Entry(n + 1, "start", age)
      <4>1. k = n + 1
        BY <1>8, <2>1, <3>2
      <4>2. k \notin memories'
        BY <1>1, <1>5, <4>1
      <4>3. handlers'[k].pc \in Unstored \/ (handlers'[k].pc = "ignored" /\ ~log'[k].ping)
        BY <1>3, <1>4, <4>1 DEF Unstored
      <4>4. QED
        BY <4>2, <4>3 DEF LeavesEmpty
    <3>3. QED
      BY <1>9, <3>1, <3>2
  <2>3. QED
    BY <2>1, <2>2 DEF Unattended, LeavesEmpty
<1>14. QED
  BY <1>10, <1>11, <1>12, <1>13 DEF IInv

\* What looking at the interest leaves and says.
LEMMA InterestChecked ==
    ASSUME IInv
    PROVE  /\ CheckInterest.entry \in {interest, NoInterest}
           /\ CheckInterest.interested \in BOOLEAN
           /\ CheckInterest.interested => \E c \in Messages : Claims(c)
           /\ CheckInterest.throws => /\ interest # NoInterest /\ interest.age = 1
                                      /\ interest.messages = <<>>
<1>1. interest # NoInterest => interest.age \in Ages
  BY DEF IInv, TypeOK, Entries
<1>2. interest # NoInterest /\ interest.age < 2 => \E c \in Messages : Claims(c)
  BY DEF IInv, InterestIsEarned
<1>3. CASE interest = NoInterest
  BY <1>3 DEF CheckInterest
<1>4. CASE interest # NoInterest /\ interest.age = 1
  <2>1. CheckInterest.entry = interest
    BY <1>4 DEF CheckInterest
  <2>2. CheckInterest.interested \in BOOLEAN
    BY <1>4 DEF CheckInterest
  <2>3. CheckInterest.throws => interest.messages = <<>>
    BY <1>4 DEF CheckInterest
  <2>4. QED
    BY <1>2, <1>4, <2>1, <2>2, <2>3
<1>5. CASE interest # NoInterest /\ interest.age # 1
  <2>1. CheckInterest.entry \in {interest, NoInterest}
    BY <1>5 DEF CheckInterest
  <2>2. CheckInterest.interested \in BOOLEAN
    BY <1>5 DEF CheckInterest
  <2>3. ~CheckInterest.throws
    BY <1>5 DEF CheckInterest
  <2>4. CheckInterest.interested => interest.age # 2
    BY <1>5 DEF CheckInterest
  <2>5. QED
    BY <1>1, <1>2, <1>5, <2>1, <2>2, <2>3, <2>4 DEF Ages
<1>6. QED
  BY <1>3, <1>4, <1>5

\* A fresh handler.
LEMMA HandlerIs ==
    ASSUME NEW n \in Nat, NEW pc \in Working \cup Ended, NEW interested \in BOOLEAN
    PROVE  /\ Handler(pc, interested) \in HandlersOf(n)
           /\ Handler(pc, interested).pc = pc
           /\ Handler(pc, interested).interested = interested
  BY TheNames DEF Handler, HandlersOf

\* A message comes in and is handled up to the first await.
LEMMA MessageKeeps == ASSUME IInv, NEW p \in Posts, Message(p) PROVE IInv'
<1>1. PICK n \in Nat : n = Len(log)
  BY Typed DEF IInv
<1> DEFINE interested == CheckInterest.interested
           fresh == role = "member" /\ p.topic
           entry == IF fresh THEN Entry(n + 1, "start", 0) ELSE CheckInterest.entry
           team == TeamHandling(p, n + 1, "start", interested, entry)
           recall == interested /\ ~p.ping
           pc == IF recall THEN "recall" ELSE IF team.goOn THEN "media" ELSE "ignored"
           h == Handler(pc, interested)
<1>2. /\ Post(p)
      /\ interest' = IF recall THEN entry ELSE team.entry
      /\ handlers' = Append(handlers, h)
      /\ UNCHANGED <<role, room, memories, answered, participant, up, faults>>
  BY <1>1, Zenon DEF Message
<1>3. up \in BOOLEAN /\ role \in {"leader", "member"}
  BY DEF IInv, TypeOK
<1>4. /\ interested \in BOOLEAN
      /\ interested => \E c \in Messages : Claims(c)
      /\ CheckInterest.entry \in {interest, NoInterest}
  BY InterestChecked
<1>5. /\ \/ team.entry \in {entry, NoInterest, Entry(n + 1, "start", 2)}
         \/ /\ team.entry = Entry(n + 1, "start", 0)
            /\ p.ping \/ (role = "leader" /\ p.team)
      /\ ~team.goOn => ~p.ping
  <2> HIDE DEF entry, interested
  <2>1. QED
    BY <1>3, TeamLeaves
<1>6. /\ pc \in {"recall", "media", "ignored"}
      /\ pc = "ignored" => ~p.ping
  <2> HIDE DEF team, interested
  <2>1. QED
    BY <1>5
<1>7. \/ entry \in {interest, NoInterest}
      \/ entry = Entry(n + 1, "start", 0) /\ fresh
  BY <1>4
<1>8. \/ interest' \in {interest, NoInterest, Entry(n + 1, "start", 2)}
      \/ /\ interest' = Entry(n + 1, "start", 0)
         /\ p.ping \/ (role = "leader" /\ p.team) \/ fresh
  <2>1. interest' \in {entry, team.entry}
    <3> HIDE DEF entry, team, recall
    <3>1. QED
      BY <1>2
  <2> HIDE DEF entry, team, fresh
  <2>2. QED
    BY <1>5, <1>7, <2>1
<1> HIDE DEF interested, team, entry, pc
<1>9. h \in HandlersOf(n + 1) /\ h.pc = pc /\ h.interested = interested
  BY <1>1, <1>4, <1>6, HandlerIs DEF Working, Ended
<1> HIDE DEF h
<1>10. QED
  BY <1>1, <1>2, <1>3, <1>4, <1>6, <1>8, <1>9, Arrives

\* A message comes in and the process ends.
LEMMA MessageThrowsKeeps == ASSUME IInv, NEW p \in Posts, MessageThrows(p) PROVE IInv'
<1>1. PICK n \in Nat : n = Len(log)
  BY Typed DEF IInv
<1> DEFINE h == Handler("fatal", FALSE)
<1>2. /\ Post(p) /\ handlers' = Append(handlers, h) /\ up' = FALSE
      /\ UNCHANGED <<role, interest, room, memories, answered, participant, faults>>
  BY DEF MessageThrows
<1>3. h \in HandlersOf(n + 1) /\ h.pc = "fatal" /\ h.interested = FALSE
  BY TheNames DEF Handler, HandlersOf, Ended
<1> HIDE DEF h
<1>4. QED
  BY <1>1, <1>2, <1>3, Arrives

\* Time makes an interest older, and no other.
LEMMA TickKeeps == ASSUME IInv, Tick PROVE IInv'
<1>1. /\ interest # NoInterest /\ interest.age < 2
      /\ interest' = [interest EXCEPT !.age = interest.age + 1]
      /\ UNCHANGED <<role, log, handlers, room, memories, answered, participant, up, faults>>
  BY DEF Tick
<1>2. interest \in Entries
  BY <1>1 DEF IInv, TypeOK
<1>3. /\ interest' \in Entries /\ interest'.by = interest.by
      /\ interest'.messages = interest.messages /\ interest'.age = interest.age + 1
  <2>1. interest.age \in Ages /\ interest.age + 1 \in Ages
    BY <1>1, <1>2 DEF Entries, Ages
  <2>2. QED
    BY <1>1, <1>2, <2>1 DEF Entries
<1>4. Messages' = Messages /\ Entries' = Entries
  BY <1>1 DEF Messages, Entries
<1>5. TypeOK'
  <2>1. /\ interest' \in Entries' \cup {NoInterest}
        /\ interest' # NoInterest =>
              /\ Len(interest'.messages) <= MaxKept
              /\ \A i \in DOMAIN interest'.messages : interest'.messages[i] \in memories'
    BY <1>1, <1>3, <1>4 DEF IInv, TypeOK
  <2>2. QED
    BY <1>1, <1>4, <2>1 DEF IInv, TypeOK
<1>6. StoredInTurn'
  BY <1>1, <1>4 DEF IInv, StoredInTurn
<1>7. InterestIsEarned'
  <2>1. \A c : Claims(c)' <=> Claims(c)
    BY <1>1 DEF Claims
  <2>2. \E c \in Messages : Claims(c)
    BY <1>1 DEF IInv, InterestIsEarned
  <2>3. \A m \in Messages : handlers[m].interested => \E c \in 1 .. m - 1 : Claims(c)
    BY DEF IInv, InterestIsEarned
  <2>4. QED
    BY <1>1, <1>4, <2>1, <2>2, <2>3 DEF InterestIsEarned
<1>8. Unattended'
  <2>1. PICK k : k = interest.by
    OBVIOUS
  <2>2. LeavesEmpty(k) => LeavesEmpty(k)'
    BY <1>1 DEF LeavesEmpty
  <2>3. up /\ interest.messages = <<>> => LeavesEmpty(k)
    BY <1>1, <2>1 DEF IInv, Unattended
  <2>4. up' = up /\ interest'.by = k /\ interest'.messages = interest.messages
    BY <1>1, <1>3, <2>1
  <2>5. QED
    BY <2>2, <2>3, <2>4 DEF Unattended, LeavesEmpty
<1>9. QED
  BY <1>5, <1>6, <1>7, <1>8 DEF IInv
-----------------------------------------------------------------------------
\* A channel without messages.
LEMMA InitIInv == Init => IInv
<1> SUFFICES ASSUME Init PROVE IInv
  OBVIOUS
<1>1. Len(<<>>) = 0 /\ Messages = {}
  BY DEF Init, Messages
<1>2. TypeOK
  <2>1. \A S : <<>> \in Seq(S)
    OBVIOUS
  <2>2. log = <<>> /\ handlers = <<>> /\ Len(log) = 0 /\ Len(handlers) = 0
    BY <1>1 DEF Init
  <2>3. log \in Seq(Posts)
    BY <2>1, <2>2
  <2>4. handlers \in Seq([pc : Working \cup Ended, interested : BOOLEAN, sawRoom : BOOLEAN,
                         seen : Entries \cup {NoInterest}, action : Names])
    BY <2>1, <2>2
  <2>5. Len(log) <= MaxMessages /\ faults \in 0 .. MaxFaults
    BY <2>2, BoundsAreNumbers DEF Init
  <2>6. QED
    BY <2>2, <2>3, <2>4, <2>5 DEF Init, TypeOK
<1>3. QED
  BY <1>1, <1>2 DEF Init, IInv, StoredInTurn, InterestIsEarned, Unattended

\* Every step keeps the invariant.
LEMMA NextIInv == IInv /\ [Next]_vars => IInv'
<1> SUFFICES ASSUME IInv, [Next]_vars PROVE IInv'
  OBVIOUS
<1>1. ASSUME NEW p \in Posts, Message(p) \/ MessageThrows(p) PROVE IInv'
  BY <1>1, MessageKeeps, MessageThrowsKeeps
<1>2. ASSUME NEW m \in Messages, Step(m) PROVE IInv'
  BY <1>2, RecallKeeps, LookKeeps, ConnectKeeps, StoreKeeps, IgnoreKeeps, GateKeeps, DelayKeeps,
     AskKeeps, ReplyKeeps, ActKeeps DEF Step, Gate
<1>3. ASSUME NEW m \in Messages, RecallThrows(m) \/ Fail(m) PROVE IInv'
  BY <1>3, RecallThrowsKeeps, FailKeeps
<1>4. CASE UNCHANGED vars
  BY <1>4 DEF vars, IInv, TypeOK, StoredInTurn, InterestIsEarned, Unattended, Messages, Entries,
     Claims, LeavesEmpty
<1>5. QED
  BY <1>1, <1>2, <1>3, <1>4, TickKeeps DEF Next

\* client-discord: the inductive invariant, for any messages and any overlap of
\* their handlers.
THEOREM ChannelInvariant == Spec => []IInv
  BY InitIInv, NextIInv, PTL DEF Spec

\* client-discord: types, and a list of the interest no longer than MAX_MESSAGES, of
\* messages that are memories.
THEOREM ChannelTypes == Spec => []TypeOK
<1>1. IInv => TypeOK
  BY DEF IInv
<1>2. QED
  BY <1>1, ChannelInvariant, PTL

\* isAgentInterested: a message finds the agent interested only after an earlier one
\* that claimed it.
THEOREM OnlyClaimsInterest == Spec => []InterestIsEarned
<1>1. IInv => InterestIsEarned
  BY DEF IInv
<1>2. QED
  BY <1>1, ChannelInvariant, PTL

\* handleMessage: the errors outside its try block end the process only if a memory
\* cannot be read, or over an interest that its own message left without one.
THEOREM EndsForAReason == Spec => DiesForAReason
<1>1. IInv /\ [Next]_vars =>
         [up /\ ~up' => \/ faults' > faults
                        \/ interest # NoInterest /\ interest.age = 1 /\ LeavesEmpty(interest.by)]_vars
  <2> SUFFICES ASSUME IInv, Next, up, ~up'
               PROVE  \/ faults' > faults
                      \/ interest # NoInterest /\ interest.age = 1 /\ LeavesEmpty(interest.by)
    BY DEF vars
  <2>1. CASE \E p \in Posts : MessageThrows(p)
    <3>1. CheckInterest.throws
      BY <2>1 DEF MessageThrows
    <3>2. QED
      BY <3>1, InterestChecked DEF IInv, Unattended
  <2>2. CASE \E m \in Messages : RecallThrows(m)
    <3>1. faults' = faults + 1 /\ faults \in Int
      BY <2>2 DEF RecallThrows, IInv, TypeOK
    <3>2. QED
      BY <3>1
  <2>3. CASE \E p \in Posts : Message(p)
    BY <2>3 DEF Message
  <2>4. CASE \E m \in Messages : Step(m) \/ Fail(m)
    BY <2>4 DEF Step, Recall, Look, Connect, Store, Ignore, Gate, GateOf, Delay, Ask, Reply, Act, Fail
  <2>5. CASE Tick
    BY <2>5 DEF Tick
  <2>6. QED
    BY <2>1, <2>2, <2>3, <2>4, <2>5 DEF Next
<1>2. QED
  BY <1>1, ChannelInvariant, PTL DEF Spec, DiesForAReason
=============================================================================
