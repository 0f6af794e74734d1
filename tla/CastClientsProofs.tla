------------------------- MODULE CastClientsProofs --------------------------
(***************************************************************************)
(* Proofs about CastClients for any number of client objects, casts,       *)
(* failing calls and crashes, on either platform.                          *)
(***************************************************************************)
EXTENDS CastClients, TLAPS


\* Everything but the loops, which most steps leave as it is.
SharedOK ==
    /\ platform \in {"farcaster", "lens"}
    /\ life \in [Objects -> {"new", "coming", "started", "stopped", "gone"}]
    /\ registered \in Objects \cup {NoObject}
    /\ post \in [Objects -> {"off", "armed", "busy"}]
    /\ shown \subseteq Casts /\ memories \subseteq Casts
    /\ answers \in [Mentions -> Seq(Objects)]
    /\ decided \subseteq Mentions
    /\ astray \subseteq Objects
    /\ faults \in 0..MaxFaults /\ crashes \in 0..MaxCrashes

LEMMA SortedTypeOK == TypeOK <=> SharedOK /\ poll \in [Objects -> Round]
  BY DEF TypeOK, SharedOK

\* A loop that waits, is off or is at its start has nothing at hand.
LEMMA IdleRound ==
    ASSUME NEW place \in Places \ AtHand, NEW stored
    PROVE  /\ Idle(place) \in Round /\ Idle(place).at = place
           /\ PollInv(Idle(place), stored)
  BY BoundsAreNumbers DEF Idle, Round, PollInv, Places, AtHand

\* A loop keeps what it may count on while memories are added.
LEMMA MoreMemories ==
    ASSUME NEW w, NEW stored, NEW more, PollInv(w, stored), stored \subseteq more
    PROVE  PollInv(w, more)
  BY DEF PollInv

\* The initial states satisfy the invariant.
LEMMA InitIInv == Init => IInv
<1> SUFFICES ASSUME Init PROVE IInv
  OBVIOUS
<1>1. /\ Idle("off") \in Round /\ Idle("off").at = "off"
      /\ PollInv(Idle("off"), memories)
  BY IdleRound DEF Places, AtHand
<1>2. SharedOK
  BY BoundsAreNumbers DEF Init, SharedOK
<1>3. TypeOK
  BY <1>1, <1>2, SortedTypeOK DEF Init
<1>4. \A o \in Objects : poll[o].at = "off"
  BY <1>1 DEF Init
<1>5. OneAtWork /\ NotYet
  BY <1>4 DEF OneAtWork, NotYet, Running
<1>6. NotAnsweredYet
  BY <1>4 DEF NotAnsweredYet, Holds, AtHand
<1>7. AnsweredTwiceOnlyByAstray
  BY DEF AnsweredTwiceOnlyByAstray, Init
<1>8. /\ \A o \in Objects : PollInv(poll[o], memories)
      /\ \A c \in Mentions : answers[c] # <<>> => c \in memories
  BY <1>1 DEF Init
<1>9. QED BY <1>3, <1>5, <1>6, <1>7, <1>8 DEF IInv

\* A step of a loop that is alive and answers nothing keeps the invariant if the mention that it then has
\* at hand is the one it had, or one that nobody has answered.
LEMMA OneLoopMoves ==
    ASSUME IInv, SharedOK', NEW o \in Objects, NEW w \in Round,
           PollInv(w, memories'), poll' = [poll EXCEPT ![o] = w],
           UNCHANGED <<agent, answers, astray>>, memories \subseteq memories',
           poll[o].at \in Running \cup {"armed"},
           w.at \in AtHand =>
             \/ answers[w.cast] = <<>>
             \/ /\ poll[o].at \in AtHand /\ poll[o].cast = w.cast
                /\ poll[o].at = "send" /\ poll[o].sent > 0 => w.at = "send" /\ w.sent > 0
    PROVE  IInv'
<1>1. poll \in [Objects -> Round]
  BY SortedTypeOK DEF IInv
<1>2. /\ poll' \in [Objects -> Round] /\ poll'[o] = w
      /\ \A q \in Objects \ {o} : poll'[q] = poll[q]
  BY <1>1
<1>3. TypeOK'
  BY <1>2, SortedTypeOK DEF TypeOK, SharedOK
<1>4. OneAtWork' /\ NotYet'
  <2>1. ASSUME NEW q \in Objects, poll'[q].at \in Running \cup {"armed"}
        PROVE  poll[q].at \in Running \cup {"armed"}
    BY <1>2, <2>1
  <2>2. OneAtWork'
    BY <2>1 DEF IInv, OneAtWork, agent
  <2>3. life[o] \notin {"new", "coming"}
    BY DEF IInv, NotYet, Running
  <2>4. QED BY <1>2, <2>2, <2>3 DEF IInv, NotYet, agent
<1>5. \A q \in Objects : PollInv(poll'[q], memories')
  BY <1>2, MoreMemories DEF IInv
<1>6. \A c \in Mentions : answers'[c] # <<>> => c \in memories'
  BY DEF IInv
<1>7. NotAnsweredYet'
  <2> SUFFICES ASSUME NEW q \in Objects, NEW p \in Objects, NEW c \in Mentions,
                      Holds(q, c)', HasAnswered(p, c)
               PROVE  \/ p = q /\ poll'[q].at = "send" /\ poll'[q].sent > 0
                      \/ p # q /\ {q, p} \cap astray # {}
    BY DEF NotAnsweredYet, HasAnswered
  <2>1. answers[c] # <<>>
    BY DEF HasAnswered
  <2>2. CASE q # o
    <3>1. Holds(q, c)
      BY <1>2, <2>2 DEF Holds
    <3>2. QED BY <1>2, <2>2, <3>1 DEF IInv, NotAnsweredYet
  <2>3. CASE q = o
    <3>1. /\ Holds(q, c)
          /\ poll[o].at = "send" /\ poll[o].sent > 0 => w.at = "send" /\ w.sent > 0
      BY <1>2, <2>1, <2>3 DEF Holds
    <3>2. QED BY <1>2, <2>3, <3>1 DEF IInv, NotAnsweredYet
  <2>4. QED BY <2>2, <2>3
<1>8. AnsweredTwiceOnlyByAstray'
  BY DEF IInv, AnsweredTwiceOnlyByAstray
<1>9. QED BY <1>3, <1>4, <1>5, <1>6, <1>7, <1>8 DEF IInv

\* A step of one loop that sends a part of a reply keeps the invariant if the
\* loop is then on its way to the next mention, or sends on with a part sent.
LEMMA OneLoopAnswers ==
    ASSUME IInv, NEW o \in Objects, NEW w \in Round,
           poll[o].at = "send", Answered(o, poll[o]),
           PollInv(w, memories), poll' = [poll EXCEPT ![o] = w],
           UNCHANGED <<platform, agent, post, shown, memories, astray, faults, crashes>>,
           \/ w.at = "look"
           \/ w.at = "send" /\ w.cast = poll[o].cast /\ w.sent > 0
    PROVE  IInv'
<1> DEFINE m == poll[o].cast
<1>1. /\ poll \in [Objects -> Round] /\ SharedOK
  BY SortedTypeOK DEF IInv
<1>2. /\ m \in Mentions /\ m \in memories /\ Holds(o, m)
  BY <1>1, CastsAreOrdered, ThreadsGoBack DEF IInv, PollInv, AtHand, Holds
<1>3. SharedOK' /\ UNCHANGED <<agent, astray>> /\ memories \subseteq memories'
  <2>1. Append(answers[m], o) \in Seq(Objects)
    BY <1>1, <1>2 DEF SharedOK
  <2>2. answers' \in [Mentions -> Seq(Objects)] /\ decided' \subseteq Mentions
    BY <1>1, <1>2, <2>1 DEF SharedOK, Answered
  <2>3. QED BY <1>1, <2>2 DEF SharedOK, agent
<1>4. CASE poll[o].sent > 0
  <2>1. UNCHANGED answers
    BY <1>4 DEF Answered
  <2>2. poll[o].at \in Running \cup {"armed"}
    BY DEF Running
  <2>3. w.at \in AtHand => /\ poll[o].at \in AtHand /\ poll[o].cast = w.cast
                           /\ w.at = "send" /\ w.sent > 0
    BY DEF AtHand
  <2>4. UNCHANGED <<agent, answers, astray>> /\ PollInv(w, memories')
    BY <2>1
  <2>5. QED BY <1>3, <2>2, <2>3, <2>4, OneLoopMoves
<1>5. CASE ~(poll[o].sent > 0)
  <2>1. answers' = [answers EXCEPT ![m] = Append(@, o)]
    BY <1>5 DEF Answered
  <2>2. /\ answers[m] \in Seq(Objects) /\ answers'[m] = Append(answers[m], o)
        /\ \A c \in Mentions \ {m} : answers'[c] = answers[c]
    BY <1>1, <1>2, <2>1 DEF SharedOK
  <2>3. /\ Len(answers'[m]) = Len(answers[m]) + 1
        /\ answers'[m][Len(answers[m]) + 1] = o
        /\ \A k \in 1..Len(answers[m]) : answers'[m][k] = answers[m][k]
    BY <2>2
  <2>4. ASSUME NEW p \in Objects, NEW c \in Mentions, HasAnswered(p, c)', ~HasAnswered(p, c)
        PROVE  p = o /\ c = m
    <3>1. c = m
      <4>1. answers'[c] # answers[c]
        BY <2>4 DEF HasAnswered
      <4>2. QED BY <2>2, <4>1
    <3>2. PICK k \in 1..Len(answers'[m]) : answers'[m][k] = p
      BY <2>4, <3>1 DEF HasAnswered
    <3>3. ~(k \in 1..Len(answers[m]))
      BY <2>3, <2>4, <3>1, <3>2 DEF HasAnswered
    <3>4. Len(answers[m]) \in Nat
      BY <2>2
    <3>5. k = Len(answers[m]) + 1
      BY <2>3, <3>2, <3>3, <3>4
    <3>6. QED BY <2>3, <3>1, <3>2, <3>5
  <2>5. ASSUME NEW p \in Objects, HasAnswered(p, m)
        PROVE  p # o /\ {o, p} \cap astray # {}
    BY <1>2, <1>5, <2>5 DEF IInv, NotAnsweredYet
  <2>6. /\ poll' \in [Objects -> Round] /\ poll'[o] = w
        /\ \A q \in Objects \ {o} : poll'[q] = poll[q]
    BY <1>1
  <2>7. TypeOK'
    BY <1>3, <2>6, SortedTypeOK DEF TypeOK, SharedOK
  <2>8. OneAtWork' /\ NotYet'
    <3>1. ASSUME NEW q \in Objects, poll'[q].at \in Running \cup {"armed"}
          PROVE  poll[q].at \in Running \cup {"armed"}
      BY <2>6, <3>1 DEF Running
    <3>2. OneAtWork'
      BY <3>1 DEF IInv, OneAtWork, agent
    <3>3. life[o] \notin {"new", "coming"}
      BY DEF IInv, NotYet
    <3>4. QED BY <2>6, <3>2, <3>3 DEF IInv, NotYet, agent
  <2>9. \A q \in Objects : PollInv(poll'[q], memories')
    BY <2>6 DEF IInv
  <2>10. \A c \in Mentions : answers'[c] # <<>> => c \in memories'
    BY <1>2, <2>2 DEF IInv
  <2>11. NotAnsweredYet'
    <3> SUFFICES ASSUME NEW q \in Objects, NEW p \in Objects, NEW c \in Mentions,
                        Holds(q, c)', HasAnswered(p, c)'
                 PROVE  \/ p = q /\ poll'[q].at = "send" /\ poll'[q].sent > 0
                        \/ p # q /\ {q, p} \cap astray # {}
      BY DEF NotAnsweredYet
    <3>1. Holds(q, c)
      <4>1. CASE q = o
        BY <1>2, <2>6, <4>1 DEF Holds, AtHand
      <4>2. CASE q # o
        BY <2>6, <4>2 DEF Holds
      <4>3. QED BY <4>1, <4>2
    <3>2. CASE HasAnswered(p, c)
      <4>1. \/ p = q /\ poll[q].at = "send" /\ poll[q].sent > 0
            \/ p # q /\ {q, p} \cap astray # {}
        BY <3>1, <3>2 DEF IInv, NotAnsweredYet
      <4>2. CASE q = o
        BY <1>5, <4>1, <4>2
      <4>3. CASE q # o
        BY <2>6, <4>1, <4>3
      <4>4. QED BY <4>2, <4>3
    <3>3. CASE ~HasAnswered(p, c)
      <4>1. p = o /\ c = m
        BY <2>4, <3>3
      <4>2. CASE q = o
        BY <2>6, <4>1, <4>2 DEF Holds, AtHand
      <4>3. CASE q # o
        <5>1. poll[q].at \in Running /\ poll[o].at \in Running
          BY <3>1 DEF Holds, AtHand, Running
        <5>2. {q, o} \cap astray # {}
          BY <4>3, <5>1 DEF IInv, OneAtWork
        <5>3. QED BY <4>1, <4>3, <5>2
      <4>4. QED BY <4>2, <4>3
    <3>4. QED BY <3>2, <3>3
  <2>12. AnsweredTwiceOnlyByAstray'
    <3> SUFFICES ASSUME NEW c \in Mentions, NEW j \in 1..Len(answers'[c]),
                        NEW k \in 1..Len(answers'[c]), j < k
                 PROVE  /\ answers'[c][j] # answers'[c][k]
                        /\ {answers'[c][j], answers'[c][k]} \cap astray # {}
      BY DEF AnsweredTwiceOnlyByAstray
    <3>1. CASE c # m \/ k <= Len(answers[m])
      <4>1. /\ j \in 1..Len(answers[c]) /\ k \in 1..Len(answers[c])
            /\ answers'[c][j] = answers[c][j] /\ answers'[c][k] = answers[c][k]
        <5>1. CASE c # m
          BY <2>2, <5>1
        <5>2. CASE c = m
          BY <2>2, <2>3, <3>1, <5>2
        <5>3. QED BY <5>1, <5>2
      <4>2. QED BY <4>1 DEF IInv, AnsweredTwiceOnlyByAstray
    <3>2. CASE c = m /\ ~(k <= Len(answers[m]))
      <4>1. k = Len(answers[m]) + 1 /\ j \in 1..Len(answers[m])
        BY <2>2, <2>3, <3>2
      <4>2. /\ answers'[c][k] = o /\ answers'[c][j] = answers[m][j]
            /\ answers[m][j] \in Objects
        BY <2>2, <2>3, <3>2, <4>1
      <4>3. HasAnswered(answers[m][j], m)
        BY <4>1 DEF HasAnswered
      <4>4. QED BY <2>5, <4>2, <4>3
    <3>3. QED BY <3>1, <3>2
  <2>13. QED BY <2>7, <2>8, <2>9, <2>10, <2>11, <2>12 DEF IInv
<1>6. QED BY <1>4, <1>5

\* On its way to the next mention a loop has nothing at hand.
LEMMA OnwardRound ==
    ASSUME NEW w \in Round, NEW stored
    PROVE  /\ Onward(w) \in Round /\ Onward(w).at = "look"
           /\ PollInv(Onward(w), stored)
<1>1. w.todo \ {w.cast} \in SUBSET Mentions
  BY DEF Round
<1>2. Onward(w) = [at |-> "look", todo |-> w.todo \ {w.cast}, cast |-> NoCast,
                   node |-> NoCast, sent |-> 0, chunk |-> 0]
  BY DEF Onward, Idle
<1>3. Onward(w) \in Round
  BY <1>1, <1>2, BoundsAreNumbers DEF Round, Places
<1>4. QED BY <1>2, <1>3 DEF PollInv, AtHand

\* After a part of the reply the loop goes on to the next mention or part.
LEMMA AfterPartRound ==
    ASSUME NEW w \in Round, NEW stored, PollInv(w, stored), w.at = "send",
           NEW n \in {w.sent, w.sent + 1}, NEW v \in AfterPart(w, n)
    PROVE  /\ v \in Round /\ PollInv(v, stored)
           /\ v.at = "look" \/ (v.at = "send" /\ v.cast = w.cast /\ v.sent = n)
<1>1. CASE v = Onward(w)
  <2>1. Onward(w) \in Round /\ Onward(w).at = "look" /\ PollInv(Onward(w), stored)
    BY OnwardRound
  <2>2. QED BY <1>1, <2>1
<1>2. CASE v = [w EXCEPT !.chunk = @ + 1, !.sent = n] /\ v.chunk < MaxChunks
  <2>1. /\ v.sent = n /\ v.chunk = w.chunk + 1 /\ v.at = w.at /\ v.cast = w.cast
        /\ v.node = w.node /\ v.todo = w.todo
    BY <1>2 DEF Round
  <2>2. /\ w.sent \in Nat /\ w.chunk \in Nat /\ w.sent <= w.chunk /\ MaxChunks \in Nat
    BY BoundsAreNumbers DEF Round, PollInv
  <2>3. n \in 0..MaxChunks /\ v.chunk \in 0..MaxChunks /\ n <= v.chunk
    BY <1>2, <2>1, <2>2
  <2>4. v \in Round
    BY <1>2, <2>3 DEF Round
  <2>5. PollInv(v, stored)
    BY <2>1, <2>3 DEF PollInv
  <2>6. QED BY <2>1, <2>4, <2>5
<1>3. QED BY <1>1, <1>2 DEF AfterPart, Round

\* From a cast of the thread the loop goes up the thread, or on to the
\* decision; the cast of the thread has its memory by then.
LEMMA UpwardRound ==
    ASSUME NEW w \in Round, NEW stored, PollInv(w, stored), w.at \in {"thread", "insert"},
           NEW more, stored \subseteq more, w.node \in more
    PROVE  /\ Upward(w) \in Round /\ PollInv(Upward(w), more)
           /\ Upward(w).at \in {"thread", "decide"} /\ Upward(w).cast = w.cast
<1>1. /\ w.cast \in Mentions /\ w.node \in Casts /\ w.cast \in more /\ w.sent <= w.chunk
  BY DEF PollInv, AtHand
<1>2. Parent[w.node] \in Casts \cup {NoCast}
  BY <1>1, ThreadsGoBack
<1>3. QED BY <1>1, <1>2 DEF Upward, PollInv, Round, Places, AtHand

\* One of the steps of a loop that is not the end of a poll with an error.
LEMMA PollKeepsIInv ==
    ASSUME IInv, NEW o \in Objects, Poll(o)
    PROVE  IInv'
<1>0. /\ SharedOK /\ poll \in [Objects -> Round] /\ poll[o] \in Round
      /\ PollInv(poll[o], memories)
  BY SortedTypeOK DEF IInv
<1>a. ASSUME NEW place \in Places \ AtHand, poll[o].at \in Running,
             poll' = [poll EXCEPT ![o] = Idle(place)],
             UNCHANGED <<world, agent, post, outcome, astray, crashes>>,
             faults' \in 0..MaxFaults
      PROVE  IInv'
  <2>1. /\ Idle(place) \in Round /\ PollInv(Idle(place), memories')
        /\ Idle(place).at = place
    BY <1>a, IdleRound DEF outcome
  <2>2. SharedOK'
    BY <1>0, <1>a DEF SharedOK, world, agent, outcome
  <2>3. QED BY <1>a, <2>1, <2>2, OneLoopMoves DEF outcome
<1>b. ASSUME NEW w \in Round, PollInv(w, memories), poll' = [poll EXCEPT ![o] = w],
             UNCHANGED <<world, agent, post, outcome, astray, counters>>,
             poll[o].at \in Running,
             w.at \in AtHand =>
               \/ answers[w.cast] = <<>>
               \/ /\ poll[o].at \in AtHand /\ poll[o].cast = w.cast
                  /\ poll[o].at = "send" /\ poll[o].sent > 0 => w.at = "send" /\ w.sent > 0
      PROVE  IInv'
  <2>1. SharedOK'
    BY <1>0, <1>b DEF SharedOK, world, agent, outcome, counters
  <2>2. PollInv(w, memories') /\ memories \subseteq memories' /\ UNCHANGED <<agent, answers, astray>>
    BY <1>b DEF outcome
  <2>3. QED BY <1>b, <2>1, <2>2, OneLoopMoves
<1>1. CASE Fetch(o)
  <2> DEFINE w == [Idle("look") EXCEPT !.todo = Page]
  <2>0. Page \subseteq shown \cap Mentions
    BY DEF Page
  <2>1. w = [at |-> "look", todo |-> Page, cast |-> NoCast,
             node |-> NoCast, sent |-> 0, chunk |-> 0]
    BY DEF Idle
  <2>2. w \in Round /\ PollInv(w, memories) /\ ~(w.at \in AtHand)
    BY <2>0, <2>1, BoundsAreNumbers DEF Round, Places, PollInv, AtHand
  <2>3. QED BY <1>1, <1>b, <2>2 DEF Fetch, Running
<1>2. CASE Look(o)
  <2>1. PICK m \in poll[o].todo :
            \/ m \in memories /\ poll' = [poll EXCEPT ![o].todo = @ \ {m}]
            \/ /\ m \notin memories
               /\ poll' = [poll EXCEPT ![o].at = "thread", ![o].cast = m, ![o].node = m]
    BY <1>2 DEF Look
  <2>2. /\ m \in Mentions /\ m \in Casts /\ m # NoCast /\ poll[o].at = "look"
    BY <1>0, <1>2, CastsAreOrdered, ThreadsGoBack DEF Look, Round
  <2>3. CASE m \in memories
    <3> DEFINE w == [poll[o] EXCEPT !.todo = @ \ {m}]
    <3>1. w \in Round /\ PollInv(w, memories) /\ ~(w.at \in AtHand)
      BY <1>0, <2>2 DEF Round, PollInv, AtHand
    <3>2. poll' = [poll EXCEPT ![o] = w]
      BY <1>0, <2>1, <2>3
    <3>3. QED BY <1>2, <1>b, <2>2, <3>1, <3>2 DEF Look, Running
  <2>4. CASE m \notin memories
    <3> DEFINE w == [poll[o] EXCEPT !.at = "thread", !.cast = m, !.node = m]
    <3>1. w \in Round /\ PollInv(w, memories) /\ w.cast = m
      BY <1>0, <2>2 DEF Round, Places, PollInv, AtHand
    <3>2. poll' = [poll EXCEPT ![o] = w]
      BY <1>0, <2>1, <2>4
    <3>3. answers[m] = <<>>
      BY <2>2, <2>4 DEF IInv
    <3>4. QED BY <1>2, <1>b, <2>2, <3>1, <3>2, <3>3 DEF Look, Running
  <2>5. QED BY <2>3, <2>4
<1>3. CASE Rearm(o)
  <2>1. faults \in 0..MaxFaults
    BY <1>0 DEF SharedOK
  <2>2. "armed" \in Places \ AtHand /\ poll[o].at \in Running
    BY <1>3 DEF Rearm, Places, AtHand, Running
  <2>3. QED BY <1>3, <1>a, <2>1, <2>2 DEF Rearm, counters
<1>4. CASE ThreadLook(o)
  <2>1. poll[o].at = "thread"
    BY <1>4 DEF ThreadLook
  <2>2. CASE poll[o].node \in memories
    <3>1. /\ Upward(poll[o]) \in Round /\ PollInv(Upward(poll[o]), memories)
          /\ Upward(poll[o]).cast = poll[o].cast
      BY <1>0, <2>1, <2>2, UpwardRound
    <3>2. poll' = [poll EXCEPT ![o] = Upward(poll[o])]
      BY <1>0, <1>4, <2>2 DEF ThreadLook
    <3>3. QED BY <1>4, <1>b, <2>1, <3>1, <3>2 DEF ThreadLook, Running, AtHand
  <2>3. CASE poll[o].node \notin memories
    <3> DEFINE w == [poll[o] EXCEPT !.at = "insert"]
    <3>1. w \in Round /\ PollInv(w, memories) /\ w.cast = poll[o].cast
      BY <1>0, <2>1 DEF Round, Places, PollInv, AtHand
    <3>2. poll' = [poll EXCEPT ![o] = w]
      BY <1>0, <1>4, <2>3 DEF ThreadLook
    <3>3. QED BY <1>4, <1>b, <2>1, <3>1, <3>2 DEF ThreadLook, Running, AtHand
  <2>4. QED BY <2>2, <2>3
<1>5. CASE ThreadInsert(o)
  <2> DEFINE w == Upward(poll[o])
  <2>1. /\ poll[o].at = "insert" /\ memories' = memories \cup {poll[o].node}
        /\ poll' = [poll EXCEPT ![o] = w]
    BY <1>0, <1>5 DEF ThreadInsert
  <2>2. poll[o].node \in Casts
    BY <1>0, <2>1 DEF PollInv
  <2>3. w \in Round /\ PollInv(w, memories') /\ w.cast = poll[o].cast
    BY <1>0, <2>1, UpwardRound
  <2>4. SharedOK'
    BY <1>0, <1>5, <2>1, <2>2 DEF SharedOK, ThreadInsert, world, agent, counters
  <2>5. UNCHANGED <<agent, answers, astray>> /\ memories \subseteq memories'
    BY <1>5 DEF ThreadInsert
  <2>6. poll[o].at \in Running /\ poll[o].at \in AtHand /\ poll[o].at # "send"
    BY <2>1 DEF Running, AtHand
  <2>7. QED BY <2>1, <2>3, <2>4, <2>5, <2>6, OneLoopMoves
<1>6. CASE Decline(o)
  <2> DEFINE w == Onward(poll[o])
  <2>1. w \in Round /\ PollInv(w, memories') /\ ~(w.at \in AtHand)
    BY <1>0, OnwardRound DEF AtHand
  <2>2. poll' = [poll EXCEPT ![o] = w] /\ poll[o].at = "decide"
    BY <1>0, <1>6 DEF Decline
  <2>3. poll[o].cast \in Mentions
    BY <1>0, <2>2 DEF PollInv, AtHand
  <2>4. SharedOK'
    BY <1>0, <1>6, <2>3 DEF SharedOK, Decline, world, agent, counters
  <2>5. UNCHANGED <<agent, answers, astray>> /\ memories \subseteq memories'
    BY <1>6 DEF Decline
  <2>6. poll[o].at \in Running
    BY <2>2 DEF Running
  <2>7. QED BY <2>1, <2>2, <2>4, <2>5, <2>6, OneLoopMoves
<1>7. CASE Respond(o)
  <2> DEFINE w == [poll[o] EXCEPT !.at = "send"]
  <2>1. poll' = [poll EXCEPT ![o] = w] /\ poll[o].at = "decide"
    BY <1>0, <1>7 DEF Respond
  <2>2. w \in Round /\ PollInv(w, memories) /\ w.cast = poll[o].cast
    BY <1>0, <2>1 DEF Round, Places, PollInv, AtHand
  <2>3. QED BY <1>7, <1>b, <2>1, <2>2 DEF Respond, Running, AtHand
<1>8. CASE SendChunk(o)
  <2>1. poll[o].at = "send" /\ Answered(o, poll[o])
    BY <1>8 DEF SendChunk
  <2>2. PICK w \in AfterPart(poll[o], poll[o].sent + 1) : poll' = [poll EXCEPT ![o] = w]
    BY <1>8 DEF SendChunk
  <2>3. /\ w \in Round /\ PollInv(w, memories)
        /\ w.at = "look" \/ (w.at = "send" /\ w.cast = poll[o].cast /\ w.sent > 0)
    <3>1. poll[o].sent + 1 > 0
      BY <1>0 DEF Round
    <3>2. QED BY <1>0, <2>1, <2>2, <3>1, AfterPartRound
  <2>4. QED BY <1>8, <2>1, <2>2, <2>3, OneLoopAnswers DEF SendChunk, world, counters
<1>9. CASE SkipChunk(o)
  <2>1. /\ poll[o].at = "send" /\ faults < MaxFaults /\ faults' = faults + 1
        /\ UNCHANGED <<world, agent, post, outcome, astray, crashes>>
    BY <1>9 DEF SkipChunk
  <2>2. PICK w \in AfterPart(poll[o], poll[o].sent) : poll' = [poll EXCEPT ![o] = w]
    BY <1>9 DEF SkipChunk
  <2>4. /\ w \in Round /\ PollInv(w, memories')
        /\ w.at = "look" \/ (w.at = "send" /\ w.cast = poll[o].cast /\ w.sent = poll[o].sent)
    BY <1>0, <2>1, <2>2, AfterPartRound DEF outcome
  <2>5. SharedOK'
    BY <1>0, <2>1, BoundsAreNumbers DEF SharedOK, world, agent, outcome
  <2>6. UNCHANGED <<agent, answers, astray>> /\ memories \subseteq memories'
    BY <2>1 DEF outcome
  <2>7. QED BY <2>1, <2>2, <2>4, <2>5, <2>6, OneLoopMoves DEF Running, AtHand
<1>10. CASE SendPublication(o)
  <2>1. poll[o].at = "send" /\ Answered(o, poll[o])
    BY <1>10 DEF SendPublication
  <2>2. poll' = [poll EXCEPT ![o] = Onward(poll[o])]
    BY <1>0, <1>10 DEF SendPublication
  <2>3. QED BY <1>0, <1>10, <2>1, <2>2, OnwardRound, OneLoopAnswers
        DEF SendPublication, world, counters
<1>11. CASE SendFails(o)
  <2> DEFINE w == Onward(poll[o])
  <2>1. w \in Round /\ PollInv(w, memories') /\ ~(w.at \in AtHand)
    BY <1>0, OnwardRound DEF AtHand
  <2>2. /\ poll' = [poll EXCEPT ![o] = w] /\ poll[o].at \in Running
        /\ UNCHANGED <<agent, answers, astray>> /\ memories \subseteq memories'
    BY <1>0, <1>11 DEF SendFails, Running, outcome
  <2>3. SharedOK'
    BY <1>0, <1>11, BoundsAreNumbers DEF SharedOK, SendFails, world, agent, outcome
  <2>4. QED BY <2>1, <2>2, <2>3, OneLoopMoves
<1>12. QED BY <1>1, <1>2, <1>3, <1>4, <1>5, <1>6, <1>7, <1>8, <1>9, <1>10, <1>11 DEF Poll

\* An object that is started is the one in the map from then on; the one whose
\* place it takes, and which nobody has stopped, is astray.
LEMMA StartKeepsIInv ==
    ASSUME IInv, NEW o \in Objects, Start(o)
    PROVE  IInv'
<1>1. /\ SharedOK /\ poll \in [Objects -> Round]
      /\ Idle("fetch") \in Round /\ Idle("fetch").at = "fetch" /\ PollInv(Idle("fetch"), memories)
  BY SortedTypeOK, IdleRound DEF IInv, Places, AtHand
<1>2. /\ poll' \in [Objects -> Round] /\ poll'[o] = Idle("fetch")
      /\ \A q \in Objects \ {o} : poll'[q] = poll[q]
  BY <1>1 DEF Start
<1>3. /\ life'[o] = "started" /\ \A q \in Objects \ {o} : life'[q] = life[q]
      /\ registered' = o /\ astray' = astray \cup ({registered} \ {NoObject})
      /\ UNCHANGED <<platform, shown, memories, answers, decided, faults, crashes>>
  BY <1>1 DEF Start, SharedOK, world, outcome, counters
<1>4. SharedOK'
  BY <1>1, <1>3 DEF SharedOK, Start
<1>5. TypeOK'
  BY <1>2, <1>4, SortedTypeOK DEF TypeOK, SharedOK
<1>6. OneAtWork'
  <2> SUFFICES ASSUME NEW q \in Objects \ {o}, poll[q].at \in Running \cup {"armed"},
                      q \notin astray'
               PROVE  FALSE
    BY <1>2, <1>3 DEF OneAtWork
  <2>1. registered = q
    BY <1>3 DEF IInv, OneAtWork
  <2>2. QED BY <1>3, <2>1, ObjectsAreOrdered
<1>7. NotYet'
  BY <1>2, <1>3 DEF IInv, NotYet
<1>8. \A q \in Objects : PollInv(poll'[q], memories')
  BY <1>1, <1>2, <1>3 DEF IInv
<1>9. NotAnsweredYet'
  <2>1. ASSUME NEW q \in Objects, NEW c \in Mentions, Holds(q, c)' PROVE q # o /\ Holds(q, c)
    BY <1>1, <1>2, <2>1 DEF Holds, AtHand
  <2>2. \A q \in Objects, c \in Mentions : HasAnswered(q, c)' <=> HasAnswered(q, c)
    BY <1>3 DEF HasAnswered
  <2>3. QED BY <1>2, <1>3, <2>1, <2>2 DEF IInv, NotAnsweredYet
<1>10. /\ AnsweredTwiceOnlyByAstray'
       /\ \A c \in Mentions : answers'[c] # <<>> => c \in memories'
  BY <1>3 DEF IInv, AnsweredTwiceOnlyByAstray
<1>11. QED BY <1>5, <1>6, <1>7, <1>8, <1>9, <1>10 DEF IInv

\* An object that is stopped at work is astray from then on.
LEMMA StopKeepsIInv ==
    ASSUME IInv, NEW o \in Objects, Stop(o)
    PROVE  IInv'
<1> DEFINE w == [poll[o] EXCEPT !.at = Cleared(poll[o].at)]
<1>1. /\ SharedOK /\ poll \in [Objects -> Round] /\ poll[o] \in Round /\ PollInv(poll[o], memories)
  BY SortedTypeOK DEF IInv
<1>2. /\ w \in Round /\ w.cast = poll[o].cast /\ w.sent = poll[o].sent
      /\ w.at = Cleared(poll[o].at) /\ PollInv(w, memories)
  BY <1>1 DEF Cleared, Round, Places, PollInv, AtHand
<1>3. /\ poll' \in [Objects -> Round] /\ poll'[o] = w
      /\ \A q \in Objects \ {o} : poll'[q] = poll[q]
  BY <1>1, <1>2 DEF Stop
<1> HIDE DEF w
<1>4. /\ life'[o] = "stopped" /\ \A q \in Objects \ {o} : life'[q] = life[q]
      /\ registered = o /\ registered' = NoObject
      /\ astray \subseteq astray' /\ (poll[o].at \in Running => o \in astray')
      /\ UNCHANGED <<platform, shown, memories, answers, decided, faults, crashes>>
  BY <1>1 DEF Stop, SharedOK, world, outcome, counters
<1>5. SharedOK'
  BY <1>1, <1>4 DEF SharedOK, Stop, Cleared
<1>6. TypeOK'
  BY <1>3, <1>5, SortedTypeOK DEF TypeOK, SharedOK
<1>7. OneAtWork' /\ NotYet'
  <2>1. ASSUME NEW q \in Objects, poll'[q].at \in Running \cup {"armed"}, q \notin astray'
        PROVE  FALSE
    <3>1. q # o
      BY <1>2, <1>3, <1>4, <2>1 DEF Cleared, Running
    <3>2. QED BY <1>3, <1>4, <2>1, <3>1 DEF IInv, OneAtWork
  <2>2. QED BY <1>3, <1>4, <2>1 DEF IInv, OneAtWork, NotYet
<1>8. \A q \in Objects : PollInv(poll'[q], memories')
  BY <1>2, <1>3, <1>4 DEF IInv
<1>9. NotAnsweredYet'
  <2>1. ASSUME NEW q \in Objects, NEW c \in Mentions, Holds(q, c)'
        PROVE  Holds(q, c) /\ poll'[q].at = poll[q].at /\ poll'[q].sent = poll[q].sent
    <3>1. CASE q = o
      <4>1. w.at \in AtHand => w.at = poll[o].at
        BY <1>2 DEF AtHand, Cleared
      <4>2. QED BY <1>2, <1>3, <2>1, <3>1, <4>1 DEF Holds
    <3>2. CASE q # o
      BY <1>3, <2>1, <3>2 DEF Holds
    <3>3. QED BY <3>1, <3>2
  <2>2. \A q \in Objects, c \in Mentions : HasAnswered(q, c)' <=> HasAnswered(q, c)
    BY <1>4 DEF HasAnswered
  <2>3. QED BY <1>4, <2>1, <2>2 DEF IInv, NotAnsweredYet
<1>10. /\ AnsweredTwiceOnlyByAstray'
       /\ \A c \in Mentions : answers'[c] # <<>> => c \in memories'
  BY <1>4 DEF IInv, AnsweredTwiceOnlyByAstray
<1>11. QED BY <1>6, <1>7, <1>8, <1>9, <1>10 DEF IInv

\* After a crash no loop is left.
LEMMA CrashKeepsIInv ==
    ASSUME IInv, Crash
    PROVE  IInv'
<1>1. /\ SharedOK /\ Idle("off") \in Round /\ Idle("off").at = "off"
      /\ PollInv(Idle("off"), memories)
  BY SortedTypeOK, IdleRound DEF IInv, Places, AtHand
<1>2. /\ poll' = [o \in Objects |-> Idle("off")]
      /\ UNCHANGED <<platform, shown, memories, answers, decided, astray, faults>>
  BY DEF Crash, world, outcome
<1>3. SharedOK'
  BY <1>1, <1>2, BoundsAreNumbers DEF SharedOK, Crash
<1>4. TypeOK'
  BY <1>1, <1>2, <1>3, SortedTypeOK DEF TypeOK, SharedOK
<1>5. OneAtWork' /\ NotYet' /\ NotAnsweredYet'
  BY <1>1, <1>2 DEF OneAtWork, NotYet, NotAnsweredYet, Holds, Running, AtHand
<1>6. /\ \A q \in Objects : PollInv(poll'[q], memories')
      /\ AnsweredTwiceOnlyByAstray'
      /\ \A c \in Mentions : answers'[c] # <<>> => c \in memories'
  BY <1>1, <1>2 DEF IInv, AnsweredTwiceOnlyByAstray
<1>7. QED BY <1>4, <1>5, <1>6 DEF IInv

\* A step that touches neither loops nor answers.
LEMMA AsideKeepsIInv ==
    ASSUME IInv, SharedOK', UNCHANGED <<registered, poll, memories, answers, astray>>,
           \A q \in Objects : life'[q] \in {"new", "coming"} => life[q] \in {"new", "coming"}
    PROVE  IInv'
<1>1. TypeOK' /\ OneAtWork' /\ NotYet'
  BY DEF IInv, TypeOK, SharedOK, OneAtWork, NotYet
<1>2. NotAnsweredYet' /\ AnsweredTwiceOnlyByAstray'
  BY DEF IInv, NotAnsweredYet, Holds, HasAnswered, AnsweredTwiceOnlyByAstray
<1>3. QED BY <1>1, <1>2 DEF IInv

\* Every step keeps the invariant.
LEMMA NextIInv == IInv /\ [Next]_vars => IInv'
<1> SUFFICES ASSUME IInv, [Next]_vars PROVE IInv'
  OBVIOUS
<1>0. SharedOK
  BY SortedTypeOK DEF IInv
<1>a. ASSUME NEW o \in Objects, NEW place \in Places \ AtHand,
             poll[o].at \in Running \cup {"armed"}, poll' = [poll EXCEPT ![o] = Idle(place)],
             UNCHANGED <<world, agent, post, outcome, astray, crashes>>, faults' \in 0..MaxFaults
      PROVE  IInv'
  <2>1. /\ Idle(place) \in Round /\ PollInv(Idle(place), memories') /\ ~(Idle(place).at \in AtHand)
    BY <1>a, IdleRound
  <2>2. SharedOK' /\ memories \subseteq memories' /\ UNCHANGED <<agent, answers, astray>>
    BY <1>0, <1>a DEF SharedOK, world, agent, outcome
  <2>3. QED BY <1>a, <2>1, <2>2, OneLoopMoves
<1>1. CASE Appear
  <2>1. SharedOK'
    BY <1>0, <1>1 DEF SharedOK, Appear, agent, outcome, counters
  <2>2. QED BY <1>1, <2>1, AsideKeepsIInv DEF Appear, agent, outcome
<1>2. ASSUME NEW o \in Objects, TimerFires(o) PROVE IInv'
  <2>1. "fetch" \in Places \ AtHand /\ faults \in 0..MaxFaults
    BY <1>0 DEF Places, AtHand, SharedOK
  <2>2. QED BY <1>2, <1>a, <2>1 DEF TimerFires, counters
<1>3. ASSUME NEW o \in Objects, PollFails(o) PROVE IInv'
  <2>1. "dead" \in Places \ AtHand /\ faults' \in 0..MaxFaults
    BY <1>0, <1>3, BoundsAreNumbers DEF Places, AtHand, SharedOK, PollFails
  <2>2. QED BY <1>3, <1>a, <2>1 DEF PollFails, Running
<1>4. ASSUME NEW o \in Objects, InsertRefused(o) PROVE IInv'
  <2>1. "dead" \in Places \ AtHand /\ faults \in 0..MaxFaults
    BY <1>0 DEF Places, AtHand, SharedOK
  <2>2. QED BY <1>4, <1>a, <2>1 DEF InsertRefused, Running, counters
<1>5. ASSUME NEW o \in Objects, Post(o) PROVE IInv'
  <2>1. SharedOK' /\ UNCHANGED <<life, registered, poll, memories, answers, astray>>
    BY <1>0, <1>5 DEF SharedOK, Post, PostTimer, PostDone, world, agent, outcome, counters
  <2>2. QED BY <2>1, AsideKeepsIInv
<1>6. CASE UNCHANGED vars
  <2>1. SharedOK'
    BY <1>0, <1>6 DEF SharedOK, vars
  <2>2. QED BY <1>6, <2>1, AsideKeepsIInv DEF vars
<1>7. ASSUME NEW o \in Objects, Request(o) PROVE IInv'
  <2>1. SharedOK' /\ UNCHANGED <<registered, poll, memories, answers, astray>>
    BY <1>0, <1>7 DEF SharedOK, Request, world, outcome, counters
  <2>2. \A q \in Objects : life'[q] = life[q] \/ (q = o /\ life[q] = "new")
    BY <1>0, <1>7 DEF SharedOK, Request
  <2>3. QED BY <2>1, <2>2, AsideKeepsIInv
<1>8. QED
  BY <1>1, <1>2, <1>3, <1>4, <1>5, <1>6, <1>7, PollKeepsIInv, StartKeepsIInv, StopKeepsIInv, CrashKeepsIInv
  DEF Next

\* IInv holds for any number of client objects, casts, failing calls and
\* crashes.
THEOREM CastInvariant == Spec => []IInv
<1>1. QED BY InitIInv, NextIInv, PTL DEF Spec

\* No mention is answered twice unless one of the two objects that answered has
\* gone astray, found at work by stop() or left unstopped by a request that
\* overlapped with another: handleInteractions looks for the memory of a mention
\* and stores it before anything is sent, and one object does so in one loop.
THEOREM AnsweredOnceUnlessAstray == Spec => []AnsweredTwiceOnlyByAstray
<1>1. IInv => AnsweredTwiceOnlyByAstray
  BY DEF IInv
<1>2. QED BY <1>1, CastInvariant, PTL

-----------------------------------------------------------------------------
(***************************************************************************)
(* Why a mention may stay without an answer.  What has no memory of its    *)
(* own yet is either at hand or part of a thread; for that to be inductive *)
(* one has to know that a thread leads through casts that are shown, that  *)
(* what has gone out in part was decided on, and that, as long as nothing  *)
(* has gone wrong, a loop about to insert a memory is alone in doing so.   *)
(***************************************************************************)
Troubled == faults > 0 \/ crashes > 0 \/ astray # {}

ThreadsShown == \A c \in shown : Parent[c] \in shown \cup {NoCast}

\* What a round refers to has appeared on the platform.
Seen(w, s) ==
    /\ w.todo \subseteq s
    /\ w.at \in AtHand => w.cast \in s
    /\ w.at \in {"thread", "insert"} =>
          /\ w.node \in s
          /\ w.node = w.cast \/ \E c \in s : Parent[c] = w.node

\* A round that nothing has come in the way of.
Fresh(w, stored, settled) ==
    /\ w.at = "insert" => w.node \notin stored
    /\ w.at = "send" /\ w.sent > 0 => w.cast \in settled
    /\ w.at # "send" => w.sent = 0

MInv ==
    /\ ThreadsShown
    /\ \A o \in Objects : Seen(poll[o], shown)
    /\ Troubled \/ \A o \in Objects : Fresh(poll[o], memories, decided)
    /\ SilentOnlyAfterTrouble

\* A loop at its start, at its end or on its way to the next mention.
LEMMA IdleSeen ==
    ASSUME NEW place \in Places \ AtHand
    PROVE  /\ \A s : Seen(Idle(place), s)
           /\ \A stored, settled : Fresh(Idle(place), stored, settled)
  BY DEF Idle, Seen, Fresh, AtHand, Places

LEMMA OnwardSeen ==
    ASSUME NEW w \in Round, NEW s, Seen(w, s)
    PROVE  /\ Seen(Onward(w), s) /\ Onward(w).at = "look"
           /\ \A stored, settled : Fresh(Onward(w), stored, settled)
<1>1. Onward(w) = [at |-> "look", todo |-> w.todo \ {w.cast}, cast |-> NoCast,
                   node |-> NoCast, sent |-> 0, chunk |-> 0]
  BY DEF Onward, Idle
<1>2. QED BY <1>1 DEF Seen, Fresh, AtHand

\* A step of one loop keeps the invariant if what the loop has at hand
\* afterwards has been seen and, while nothing is wrong, if the mention it
\* leaves is decided on and what it stores is at its hand or in a thread.
LEMMA LoopKeepsMInv ==
    ASSUME IInv, MInv, NEW o \in Objects, NEW w \in Round,
           poll' = [poll EXCEPT ![o] = w], Seen(w, shown), UNCHANGED shown,
           memories \subseteq memories', decided \subseteq decided',
           Troubled => Troubled',
           \/ Troubled'
           \/ /\ Fresh(w, memories', decided')
              /\ memories' = memories \/ poll[o].at \in Running
              /\ \A m \in memories' \ memories :
                    \/ w.at \in AtHand /\ w.cast = m
                    \/ \E c \in shown : Parent[c] = m
              /\ poll[o].at \in AtHand =>
                    \/ poll[o].cast \in decided'
                    \/ w.at \in AtHand /\ w.cast = poll[o].cast
    PROVE  MInv'
<1>1. poll \in [Objects -> Round]
  BY SortedTypeOK DEF IInv
<1>2. /\ poll'[o] = w
      /\ \A q \in Objects \ {o} : poll'[q] = poll[q]
  BY <1>1
<1>3. ThreadsShown' /\ \A q \in Objects : Seen(poll'[q], shown')
  BY <1>2 DEF MInv, ThreadsShown
<1>4. CASE Troubled'
  BY <1>3, <1>4 DEF MInv, SilentOnlyAfterTrouble, Troubled
<1>5. CASE ~Troubled'
  <2>1. /\ Fresh(w, memories', decided')
        /\ memories' = memories \/ poll[o].at \in Running
        /\ \A m \in memories' \ memories :
              \/ w.at \in AtHand /\ w.cast = m
              \/ \E c \in shown : Parent[c] = m
        /\ poll[o].at \in AtHand =>
              \/ poll[o].cast \in decided'
              \/ w.at \in AtHand /\ w.cast = poll[o].cast
        /\ ~Troubled
    BY <1>5
  <2>2. ASSUME NEW q \in Objects \ {o}
        PROVE  Fresh(poll'[q], memories', decided')
    <3>1. poll'[q] = poll[q] /\ Fresh(poll[q], memories, decided)
      BY <1>2, <2>1 DEF MInv
    <3>2. poll[q].at = "insert" => memories' = memories
      <4> SUFFICES ASSUME poll[q].at \in Running, poll[o].at \in Running
                   PROVE  FALSE
        BY <2>1 DEF Running
      <4>1. astray = {}
        BY <2>1 DEF Troubled
      <4>2. registered = q /\ registered = o
        BY <4>1 DEF IInv, OneAtWork
      <4>3. QED BY <4>2
    <3>3. QED BY <3>1, <3>2 DEF Fresh
  <2>3. \A q \in Objects : Fresh(poll'[q], memories', decided')
    BY <1>2, <2>1, <2>2
  <2>4. ASSUME NEW m \in Mentions \cap memories'
        PROVE  \/ m \in decided' \/ \E q \in Objects : Holds(q, m)'
               \/ \E c \in shown' : Parent[c] = m
    <3>1. w.at \in AtHand /\ w.cast = m => Holds(o, m)'
      BY <1>2 DEF Holds
    <3>2. CASE m \notin memories
      BY <2>1, <2>4, <3>1, <3>2
    <3>3. CASE m \in memories
      <4>1. \/ m \in decided \/ \E q \in Objects : Holds(q, m)
            \/ \E c \in shown : Parent[c] = m
        BY <2>1, <2>4, <3>3 DEF MInv, SilentOnlyAfterTrouble, Troubled
      <4>2. ASSUME NEW q \in Objects, Holds(q, m)
            PROVE  m \in decided' \/ \E p \in Objects : Holds(p, m)'
        <5>1. CASE q = o
          BY <2>1, <3>1, <4>2, <5>1 DEF Holds
        <5>2. CASE q # o
          BY <1>2, <4>2, <5>2 DEF Holds
        <5>3. QED BY <5>1, <5>2
      <4>3. QED BY <4>1, <4>2
    <3>4. QED BY <3>2, <3>3
  <2>5. SilentOnlyAfterTrouble'
    BY <2>4 DEF SilentOnlyAfterTrouble
  <2>6. QED BY <1>3, <2>3, <2>5 DEF MInv
<1>6. QED BY <1>4, <1>5

\* What the two invariants say of the round of one loop.
LEMMA RoundOf ==
    ASSUME IInv, MInv, NEW o \in Objects
    PROVE  /\ poll[o] \in Round /\ PollInv(poll[o], memories)
           /\ Seen(poll[o], shown)
           /\ Troubled \/ Fresh(poll[o], memories, decided)
           /\ shown \subseteq Casts /\ ThreadsShown
           /\ poll \in [Objects -> Round]
  BY SortedTypeOK DEF IInv, MInv, SharedOK

\* Up the thread: the next cast is the parent of one that is shown.
LEMMA UpwardSeen ==
    ASSUME NEW w \in Round, w.at \in {"thread", "insert"}, Seen(w, shown),
           ThreadsShown, shown \subseteq Casts
    PROVE  /\ Seen(Upward(w), shown)
           /\ Upward(w).at \in {"thread", "decide"}
           /\ Upward(w).cast = w.cast /\ Upward(w).sent = w.sent
<1>1. /\ w.node \in shown /\ w.cast \in shown /\ w.todo \subseteq shown
  BY DEF Seen, AtHand
<1>2. CASE Parent[w.node] = NoCast
  <2>1. Upward(w) = [w EXCEPT !.at = "decide", !.node = NoCast]
    BY <1>2 DEF Upward
  <2>2. /\ Upward(w).at = "decide" /\ Upward(w).cast = w.cast
        /\ Upward(w).todo = w.todo /\ Upward(w).sent = w.sent
    BY <2>1 DEF Round
  <2>3. QED BY <1>1, <2>2 DEF Seen
<1>3. CASE Parent[w.node] # NoCast
  <2>1. Upward(w) = [w EXCEPT !.at = "thread", !.node = Parent[w.node]]
    BY <1>3 DEF Upward
  <2>2. /\ Upward(w).at = "thread" /\ Upward(w).cast = w.cast
        /\ Upward(w).todo = w.todo /\ Upward(w).sent = w.sent
        /\ Upward(w).node = Parent[w.node]
    BY <2>1 DEF Round
  <2>3. Parent[w.node] \in shown
    BY <1>1, <1>3 DEF ThreadsShown
  <2>4. QED BY <1>1, <2>2, <2>3 DEF Seen
<1>4. QED BY <1>2, <1>3

\* Onwards from a mention that is decided on, or left in trouble.
LEMMA LeavesMention ==
    ASSUME IInv, MInv, NEW o \in Objects,
           poll' = [poll EXCEPT ![o] = Onward(poll[o])],
           UNCHANGED <<shown, memories>>, decided \subseteq decided',
           Troubled => Troubled', Troubled' \/ poll[o].cast \in decided'
    PROVE  MInv'
<1> DEFINE w == Onward(poll[o])
<1>1. w \in Round /\ Seen(w, shown) /\ w.at = "look" /\ Fresh(w, memories', decided')
  BY RoundOf, OnwardRound, OnwardSeen
<1>2. QED BY <1>1, LoopKeepsMInv

\* The steps of a round up to its decision.
LEMMA ReadingKeepsMInv ==
    ASSUME IInv, MInv, NEW o \in Objects,
           Fetch(o) \/ Look(o) \/ Rearm(o) \/ ThreadLook(o) \/ Respond(o)
    PROVE  MInv'
<1>1. /\ poll[o] \in Round /\ PollInv(poll[o], memories) /\ Seen(poll[o], shown)
      /\ Troubled \/ Fresh(poll[o], memories, decided)
      /\ shown \subseteq Casts /\ ThreadsShown /\ poll \in [Objects -> Round]
  BY RoundOf
<1>2. UNCHANGED <<platform, shown, memories, answers, decided, astray, faults, crashes>>
  BY DEF Fetch, Look, Rearm, ThreadLook, Respond, world, outcome, counters
<1>3. Troubled' <=> Troubled
  BY <1>2 DEF Troubled
<1>a. ASSUME NEW w \in Round, poll' = [poll EXCEPT ![o] = w], Seen(w, shown),
             Troubled \/ Fresh(w, memories, decided),
             poll[o].at \in AtHand => w.at \in AtHand /\ w.cast = poll[o].cast
      PROVE  MInv'
  BY <1>2, <1>3, <1>a, LoopKeepsMInv
<1>4. CASE Fetch(o)
  <2> DEFINE w == [Idle("look") EXCEPT !.todo = Page]
  <2>0. Page \subseteq shown \cap Mentions
    BY DEF Page
  <2>1. w = [at |-> "look", todo |-> Page, cast |-> NoCast,
             node |-> NoCast, sent |-> 0, chunk |-> 0]
    BY DEF Idle
  <2>2. /\ w \in Round /\ Seen(w, shown) /\ Fresh(w, memories, decided)
    BY <2>0, <2>1, BoundsAreNumbers DEF Round, Places, Seen, Fresh, AtHand
  <2>3. poll' = [poll EXCEPT ![o] = w] /\ ~(poll[o].at \in AtHand)
    BY <1>4 DEF Fetch, AtHand
  <2> HIDE DEF w
  <2>4. QED BY <1>a, <2>2, <2>3
<1>5. CASE Look(o)
  <2>1. PICK m \in poll[o].todo :
            \/ m \in memories /\ poll' = [poll EXCEPT ![o].todo = @ \ {m}]
            \/ /\ m \notin memories
               /\ poll' = [poll EXCEPT ![o].at = "thread", ![o].cast = m, ![o].node = m]
    BY <1>5 DEF Look
  <2>2. /\ m \in Mentions /\ m \in Casts /\ m \in shown /\ poll[o].at = "look"
        /\ ~(poll[o].at \in AtHand)
    BY <1>1, <1>5, CastsAreOrdered DEF Look, Round, Seen, AtHand
  <2>3. CASE m \in memories
    <3> DEFINE w == [poll[o] EXCEPT !.todo = @ \ {m}]
    <3>1. /\ w \in Round /\ w.at = "look" /\ w.sent = poll[o].sent
          /\ w.todo \subseteq poll[o].todo
      BY <1>1, <2>2 DEF Round
    <3>2. poll' = [poll EXCEPT ![o] = w]
      BY <1>1, <2>1, <2>3
    <3> HIDE DEF w
    <3>3. Seen(w, shown) /\ (Troubled \/ Fresh(w, memories, decided))
      BY <1>1, <2>2, <3>1 DEF Seen, Fresh, AtHand
    <3>4. QED BY <1>a, <2>2, <3>1, <3>2, <3>3
  <2>4. CASE m \notin memories
    <3> DEFINE w == [poll[o] EXCEPT !.at = "thread", !.cast = m, !.node = m]
    <3>1. /\ w \in Round /\ w.at = "thread" /\ w.cast = m /\ w.node = m
          /\ w.sent = poll[o].sent /\ w.todo = poll[o].todo
      BY <1>1, <2>2 DEF Round, Places
    <3>2. poll' = [poll EXCEPT ![o] = w]
      BY <1>1, <2>1, <2>4
    <3> HIDE DEF w
    <3>3. Seen(w, shown) /\ (Troubled \/ Fresh(w, memories, decided))
      BY <1>1, <2>2, <3>1 DEF Seen, Fresh, AtHand
    <3>4. QED BY <1>a, <2>2, <3>1, <3>2, <3>3
  <2>5. QED BY <2>1, <2>3, <2>4
<1>6. CASE Rearm(o)
  <2>1. "armed" \in Places \ AtHand
    BY DEF Places, AtHand
  <2>2. Idle("armed") \in Round
    BY <2>1, IdleRound
  <2>3. poll' = [poll EXCEPT ![o] = Idle("armed")] /\ ~(poll[o].at \in AtHand)
    BY <1>6 DEF Rearm, AtHand
  <2>4. QED BY <1>a, <2>1, <2>2, <2>3, IdleSeen
<1>7. CASE ThreadLook(o)
  <2>1. poll[o].at = "thread"
    BY <1>7 DEF ThreadLook
  <2>2. CASE poll[o].node \in memories
    <3> DEFINE w == Upward(poll[o])
    <3>1. w \in Round /\ poll' = [poll EXCEPT ![o] = w]
      BY <1>1, <1>7, <2>1, <2>2, UpwardRound DEF ThreadLook
    <3>2. /\ Seen(w, shown) /\ w.at \in {"thread", "decide"}
          /\ w.cast = poll[o].cast /\ w.sent = poll[o].sent
      BY <1>1, <2>1, UpwardSeen
    <3> HIDE DEF w
    <3>3. Troubled \/ Fresh(w, memories, decided)
      BY <1>1, <2>1, <3>2 DEF Fresh
    <3>4. QED BY <1>a, <3>1, <3>2, <3>3 DEF AtHand
  <2>3. CASE poll[o].node \notin memories
    <3> DEFINE w == [poll[o] EXCEPT !.at = "insert"]
    <3>1. poll' = [poll EXCEPT ![o] = w]
      BY <1>1, <1>7, <2>3 DEF ThreadLook
    <3>2. /\ w \in Round /\ w.at = "insert" /\ w.cast = poll[o].cast
          /\ w.node = poll[o].node /\ w.sent = poll[o].sent /\ w.todo = poll[o].todo
      BY <1>1 DEF Round, Places
    <3> HIDE DEF w
    <3>3. Seen(w, shown) /\ (Troubled \/ Fresh(w, memories, decided))
      BY <1>1, <2>1, <2>3, <3>2 DEF Seen, Fresh, AtHand
    <3>4. QED BY <1>a, <3>1, <3>2, <3>3 DEF AtHand
  <2>4. QED BY <2>2, <2>3
<1>8. CASE Respond(o)
  <2> DEFINE w == [poll[o] EXCEPT !.at = "send"]
  <2>1. poll' = [poll EXCEPT ![o] = w] /\ poll[o].at = "decide"
    BY <1>1, <1>8 DEF Respond
  <2>2. /\ w \in Round /\ w.at = "send" /\ w.cast = poll[o].cast
        /\ w.sent = poll[o].sent /\ w.todo = poll[o].todo
    BY <1>1 DEF Round, Places
  <2> HIDE DEF w
  <2>3. Seen(w, shown) /\ (Troubled \/ Fresh(w, memories, decided))
    BY <1>1, <2>1, <2>2 DEF Seen, Fresh, AtHand
  <2>4. QED BY <1>a, <2>1, <2>2, <2>3 DEF AtHand
<1>9. QED BY <1>4, <1>5, <1>6, <1>7, <1>8

\* A cast of the thread is stored: it is the mention at hand or one that a cast
\* which is shown replies to.
LEMMA InsertKeepsMInv ==
    ASSUME IInv, MInv, NEW o \in Objects, ThreadInsert(o)
    PROVE  MInv'
<1> DEFINE w == Upward(poll[o])
<1>1. /\ poll[o] \in Round /\ PollInv(poll[o], memories) /\ Seen(poll[o], shown)
      /\ Troubled \/ Fresh(poll[o], memories, decided)
      /\ shown \subseteq Casts /\ ThreadsShown /\ poll \in [Objects -> Round]
  BY RoundOf
<1>2. /\ poll[o].at = "insert" /\ memories' = memories \cup {poll[o].node}
      /\ poll' = [poll EXCEPT ![o] = w]
      /\ UNCHANGED <<platform, shown, answers, decided, astray, faults, crashes>>
  BY <1>1 DEF ThreadInsert, world, counters
<1>3. /\ w \in Round /\ Seen(w, shown) /\ w.at \in {"thread", "decide"}
      /\ w.cast = poll[o].cast /\ w.sent = poll[o].sent
  BY <1>1, <1>2, UpwardRound, UpwardSeen
<1>4. poll[o].node = w.cast \/ \E c \in shown : Parent[c] = poll[o].node
  BY <1>1, <1>2, <1>3 DEF Seen
<1> HIDE DEF w
<1>5. Troubled' <=> Troubled
  BY <1>2 DEF Troubled
<1>6. Troubled \/ Fresh(w, memories', decided')
  BY <1>1, <1>2, <1>3 DEF Fresh
<1>7. w.at \in AtHand /\ poll[o].at \in Running
  BY <1>2, <1>3 DEF AtHand, Running
<1>8. QED BY <1>2, <1>3, <1>4, <1>5, <1>6, <1>7, LoopKeepsMInv

\* The decision and the reply: a mention is left decided on, or in trouble.
LEMMA AnsweringKeepsMInv ==
    ASSUME IInv, MInv, NEW o \in Objects,
           \/ Decline(o) \/ SendChunk(o) \/ SendPublication(o)
           \/ SkipChunk(o) \/ SendFails(o)
    PROVE  MInv'
<1>1. /\ poll[o] \in Round /\ PollInv(poll[o], memories) /\ Seen(poll[o], shown)
      /\ Troubled \/ Fresh(poll[o], memories, decided)
      /\ poll \in [Objects -> Round]
  BY RoundOf
<1>2. faults \in Nat /\ crashes \in Nat
  BY BoundsAreNumbers DEF IInv, TypeOK
<1>a. ASSUME NEW n \in {poll[o].sent, poll[o].sent + 1},
             NEW w \in AfterPart(poll[o], n), poll[o].at = "send",
             poll' = [poll EXCEPT ![o] = w],
             UNCHANGED <<shown, memories>>, decided \subseteq decided',
             Troubled => Troubled', Troubled' \/ poll[o].cast \in decided'
      PROVE  MInv'
  <2>1. CASE w = Onward(poll[o])
    BY <1>a, <2>1, LeavesMention
  <2>2. CASE w = [poll[o] EXCEPT !.chunk = @ + 1, !.sent = n]
    <3>1. /\ w \in Round /\ w.at = "send" /\ w.cast = poll[o].cast
          /\ w.todo = poll[o].todo
      BY <1>1, <1>a, <2>2, AfterPartRound DEF Round
    <3>2. Seen(w, shown) /\ (Troubled' \/ Fresh(w, memories', decided'))
      BY <1>1, <1>a, <3>1 DEF Seen, Fresh, AtHand
    <3>3. QED BY <1>a, <3>1, <3>2, LoopKeepsMInv DEF AtHand
  <2>3. QED BY <1>a, <2>1, <2>2 DEF AfterPart
<1>b. ASSUME poll[o].at = "send", Answered(o, poll[o]), UNCHANGED <<astray, faults, crashes>>
      PROVE  /\ decided \subseteq decided' /\ (Troubled' <=> Troubled)
             /\ Troubled' \/ poll[o].cast \in decided'
  BY <1>1, <1>b DEF Answered, Fresh, Troubled
<1>3. CASE Decline(o)
  <2>1. /\ decided' = decided \cup {poll[o].cast}
        /\ poll' = [poll EXCEPT ![o] = Onward(poll[o])]
        /\ UNCHANGED <<shown, memories, astray, faults, crashes>>
    BY <1>1, <1>3 DEF Decline, world, counters
  <2>2. QED BY <2>1, LeavesMention DEF Troubled
<1>4. CASE SendPublication(o)
  <2>1. /\ poll[o].at = "send" /\ Answered(o, poll[o])
        /\ poll' = [poll EXCEPT ![o] = Onward(poll[o])]
        /\ UNCHANGED <<shown, memories, astray, faults, crashes>>
    BY <1>1, <1>4 DEF SendPublication, world, counters
  <2>2. QED BY <1>b, <2>1, LeavesMention
<1>5. CASE SendChunk(o)
  <2>1. /\ poll[o].at = "send" /\ Answered(o, poll[o])
        /\ UNCHANGED <<shown, memories, astray, faults, crashes>>
    BY <1>5 DEF SendChunk, world, counters
  <2>2. PICK w \in AfterPart(poll[o], poll[o].sent + 1) : poll' = [poll EXCEPT ![o] = w]
    BY <1>5 DEF SendChunk
  <2>3. QED BY <1>a, <1>b, <2>1, <2>2
<1>6. CASE SkipChunk(o)
  <2>1. /\ poll[o].at = "send" /\ faults' = faults + 1
        /\ UNCHANGED <<shown, memories, decided>>
    BY <1>6 DEF SkipChunk, world, outcome
  <2>2. PICK w \in AfterPart(poll[o], poll[o].sent) : poll' = [poll EXCEPT ![o] = w]
    BY <1>6 DEF SkipChunk
  <2>3. Troubled'
    BY <1>2, <2>1 DEF Troubled
  <2>4. QED BY <1>a, <2>1, <2>2, <2>3
<1>7. CASE SendFails(o)
  <2>1. /\ faults' = faults + 1 /\ UNCHANGED <<shown, memories, decided>>
        /\ poll' = [poll EXCEPT ![o] = Onward(poll[o])]
    BY <1>1, <1>7 DEF SendFails, world, outcome
  <2>2. Troubled'
    BY <1>2, <2>1 DEF Troubled
  <2>3. QED BY <2>1, <2>2, LeavesMention
<1>8. QED BY <1>3, <1>4, <1>5, <1>6, <1>7

\* A loop begins or ends a round with nothing at hand, or ends it in trouble.
LEMMA IdleKeepsMInv ==
    ASSUME IInv, MInv, NEW o \in Objects, NEW place \in Places \ AtHand,
           poll' = [poll EXCEPT ![o] = Idle(place)],
           UNCHANGED <<shown, memories, decided>>, Troubled => Troubled',
           Troubled' \/ ~(poll[o].at \in AtHand)
    PROVE  MInv'
<1>1. /\ Idle(place) \in Round /\ Seen(Idle(place), shown)
      /\ Fresh(Idle(place), memories', decided')
  BY IdleRound, IdleSeen
<1>2. QED BY <1>1, LoopKeepsMInv

\* Without trouble no insert is refused: the loop is the only one at work.
LEMMA EndingKeepsMInv ==
    ASSUME IInv, MInv, NEW o \in Objects,
           TimerFires(o) \/ PollFails(o) \/ InsertRefused(o) \/ Start(o)
    PROVE  MInv'
<1>1. /\ poll \in [Objects -> Round]
      /\ Troubled \/ Fresh(poll[o], memories, decided)
      /\ faults \in Nat /\ crashes \in Nat
  BY RoundOf, BoundsAreNumbers DEF IInv, TypeOK
<1>2. "fetch" \in Places \ AtHand /\ "dead" \in Places \ AtHand
  BY DEF Places, AtHand
<1>3. CASE TimerFires(o)
  <2>1. /\ UNCHANGED <<shown, memories, decided, astray, faults, crashes>>
        /\ ~(poll[o].at \in AtHand)
    BY <1>3 DEF TimerFires, world, outcome, counters, AtHand
  <2>2. QED BY <1>2, <1>3, <2>1, IdleKeepsMInv DEF TimerFires, Troubled
<1>4. CASE PollFails(o)
  <2>1. UNCHANGED <<shown, memories, decided>> /\ Troubled'
    BY <1>1, <1>4 DEF PollFails, world, outcome, Troubled
  <2>2. QED BY <1>2, <1>4, <2>1, IdleKeepsMInv DEF PollFails
<1>5. CASE InsertRefused(o)
  <2>1. UNCHANGED <<shown, memories, decided, astray, faults, crashes>> /\ Troubled
    BY <1>1, <1>5 DEF InsertRefused, world, outcome, counters, Fresh
  <2>2. QED BY <1>2, <1>5, <2>1, IdleKeepsMInv DEF InsertRefused, Troubled
<1>6. CASE Start(o)
  <2>1. /\ UNCHANGED <<shown, memories, decided, faults, crashes>>
        /\ life[o] = "coming" /\ astray \subseteq astray'
    BY <1>6 DEF Start, world, outcome, counters
  <2>2. ~(poll[o].at \in AtHand)
    BY <2>1 DEF IInv, NotYet, AtHand
  <2>3. QED BY <1>2, <1>6, <2>1, <2>2, IdleKeepsMInv DEF Start, Troubled
<1>7. QED BY <1>3, <1>4, <1>5, <1>6

\* stop() clears a timer; found at work, the loop is trouble to come.
LEMMA StopKeepsMInv ==
    ASSUME IInv, MInv, NEW o \in Objects, Stop(o)
    PROVE  MInv'
<1> DEFINE w == [poll[o] EXCEPT !.at = Cleared(poll[o].at)]
<1>1. /\ poll[o] \in Round /\ Seen(poll[o], shown)
      /\ Troubled \/ Fresh(poll[o], memories, decided)
      /\ poll \in [Objects -> Round]
  BY RoundOf
<1>2. /\ w \in Round /\ w.at = Cleared(poll[o].at)
      /\ w.cast = poll[o].cast /\ w.node = poll[o].node
      /\ w.sent = poll[o].sent /\ w.todo = poll[o].todo
  BY <1>1 DEF Round, Places, Cleared
<1>3. /\ poll' = [poll EXCEPT ![o] = w] /\ astray \subseteq astray'
      /\ UNCHANGED <<shown, memories, decided, faults, crashes>>
      /\ Troubled => Troubled'
  BY <1>1 DEF Stop, world, outcome, counters, Troubled
<1> HIDE DEF w
<1>4. Seen(w, shown)
  BY <1>1, <1>2 DEF Seen, Cleared, AtHand
<1>5. Troubled \/ Fresh(w, memories, decided)
  BY <1>1, <1>2 DEF Fresh, Cleared
<1>6. poll[o].at \in AtHand => w.at \in AtHand
  BY <1>2 DEF AtHand, Cleared
<1>7. QED BY <1>2, <1>3, <1>4, <1>5, <1>6, LoopKeepsMInv

\* Steps in which the loops stay where they are, or all end in a crash.
LEMMA AppearKeepsMInv ==
    ASSUME IInv, MInv, Appear
    PROVE  MInv'
<1>1. PICK c \in Casts \ shown :
          (\A d \in Casts \ shown : c <= d) /\ shown' = shown \cup {c}
  BY DEF Appear
<1>2. UNCHANGED <<poll, memories, decided, astray, faults, crashes>>
  BY DEF Appear, outcome, counters
<1>3. Parent[c] \in shown \cup {NoCast}
  <2> SUFFICES ASSUME Parent[c] \in Casts, Parent[c] \notin shown PROVE FALSE
    BY ThreadsGoBack
  <2>1. c <= Parent[c] /\ Parent[c] < c
    BY <1>1, ThreadsGoBack
  <2>2. c \in Nat /\ Parent[c] \in Nat
    BY CastsAreOrdered
  <2>3. QED BY <2>1, <2>2
<1>4. ThreadsShown'
  BY <1>1, <1>3 DEF MInv, ThreadsShown
<1>5. \A q \in Objects : Seen(poll'[q], shown')
  BY <1>1, <1>2 DEF MInv, Seen
<1>6. Troubled' \/ \A q \in Objects : Fresh(poll'[q], memories', decided')
  BY <1>2 DEF MInv, Troubled
<1>7. SilentOnlyAfterTrouble'
  BY <1>1, <1>2 DEF MInv, SilentOnlyAfterTrouble, Holds
<1>8. QED BY <1>4, <1>5, <1>6, <1>7 DEF MInv

LEMMA CrashKeepsMInv ==
    ASSUME IInv, MInv, Crash
    PROVE  MInv'
<1>1. /\ poll' = [o \in Objects |-> Idle("off")] /\ crashes' = crashes + 1
      /\ shown' = shown /\ crashes \in Nat
  BY BoundsAreNumbers DEF Crash, world, IInv, TypeOK
<1>2. Troubled' /\ crashes' > 0
  BY <1>1 DEF Troubled
<1>3. \A q \in Objects : Seen(poll'[q], shown')
  BY <1>1, IdleSeen DEF Places, AtHand
<1>4. QED BY <1>1, <1>2, <1>3 DEF MInv, ThreadsShown, SilentOnlyAfterTrouble

LEMMA AsideKeepsMInv ==
    ASSUME MInv, UNCHANGED <<poll, shown, memories, decided, astray, faults, crashes>>
    PROVE  MInv'
  BY DEF MInv, ThreadsShown, Troubled, SilentOnlyAfterTrouble, Holds

\* Every step keeps what is known of the memories.
LEMMA NextMInv == IInv /\ MInv /\ [Next]_vars => MInv'
<1> SUFFICES ASSUME IInv, MInv, [Next]_vars PROVE MInv'
  OBVIOUS
<1>1. ASSUME NEW o \in Objects, Poll(o) PROVE MInv'
  BY <1>1, ReadingKeepsMInv, InsertKeepsMInv, AnsweringKeepsMInv DEF Poll
<1>2. ASSUME NEW o \in Objects, Post(o) PROVE MInv'
  <2>1. UNCHANGED <<poll, shown, memories, decided, astray, faults, crashes>>
    BY <1>2 DEF Post, PostTimer, PostDone, world, outcome, counters
  <2>2. QED BY <2>1, AsideKeepsMInv
<1>3. CASE UNCHANGED vars
  BY <1>3, AsideKeepsMInv DEF vars
<1>4. ASSUME NEW o \in Objects, Request(o) PROVE MInv'
  BY <1>4, AsideKeepsMInv DEF Request, world, outcome, counters
<1>5. QED
  BY <1>1, <1>2, <1>3, <1>4, EndingKeepsMInv, StopKeepsMInv, AppearKeepsMInv, CrashKeepsMInv DEF Next

\* Nothing is shown, stored or at hand when the agent starts.
LEMMA InitMInv == Init => MInv
<1> SUFFICES ASSUME Init PROVE MInv
  OBVIOUS
<1>1. \A o \in Objects : poll[o] = Idle("off")
  BY DEF Init
<1>2. /\ \A o \in Objects : Seen(poll[o], shown) /\ Fresh(poll[o], memories, decided)
  BY <1>1, IdleSeen DEF Places, AtHand
<1>3. QED BY <1>2 DEF Init, MInv, ThreadsShown, SilentOnlyAfterTrouble

\* A memory is what keeps later polls from looking at a mention again.  While
\* no call fails, no process crashes and no object goes astray, a mention that
\* has one was answered or turned down, is at hand, or was stored as part
\* of the thread of a reply to it: that is the only way to stay silent.
THEOREM SilentMentionsHaveReasons == Spec => []SilentOnlyAfterTrouble
<1>1. MInv => SilentOnlyAfterTrouble
  BY DEF MInv
<1>2. Init => IInv /\ MInv
  BY InitIInv, InitMInv
<1>3. IInv /\ MInv /\ [Next]_vars => (IInv /\ MInv)'
  BY NextIInv, NextMInv
<1>4. QED BY <1>1, <1>2, <1>3, PTL DEF Spec
=============================================================================
