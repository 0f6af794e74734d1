------------------------ MODULE TwitterClientProofs ------------------------
(***************************************************************************)
(* Proofs about two parts of the Twitter client: TwitterPost for any       *)
(* tweets, threads, choices of the language model, posting loops, errors   *)
(* and restarts, and TwitterQueue for any set of requests, sends and       *)
(* searches.  The two modules share no variable.                           *)
(***************************************************************************)
EXTENDS TwitterPost, TwitterQueue, TLAPS

\* The parts of the inductive invariant that speak of what was done to tweets.
AnsweredStored == \A t \in Tweets : done[t] \cap Answers # {} => t \in memories

TouchedAccounted ==
    \A t \in Tweets : \/ done[t] = {}
                      \/ t \in memories \cup cut
                      \/ t = act.cur /\ act.pc \in Handling

Fresh == act.pc \in Handling =>
            /\ act.cur # NoTweet
            /\ \A a \in Pending \cap done[act.cur] :
                  a \in Reactions /\ act.cur \in cut

Written == act.pc = "write" => act.cur \in memories

\* The inductive invariant by its parts.
LEMMA SortedIInv ==
    IInv <=> TypeOK /\ AnsweredStored /\ TouchedAccounted /\ Fresh /\ Written
  BY DEF IInv, AnsweredStored, TouchedAccounted, Fresh, Written

\* The record of a loop that handles no tweet.
LEMMA AtRecord ==
    ASSUME NEW w \in {"round", "timeline", "loop", "pause"}
    PROVE  /\ At(w) \in Act
           /\ At(w).pc = w
           /\ At(w).todo = {}
           /\ At(w).cur = NoTweet
  BY DEF At, Act

\* A post lives on Twitter, so on the timeline and in the database, only once
\* it is out; NoTweet is none of them.
LEMMA InitIInv == Init => IInv
<1> SUFFICES ASSUME Init PROVE IInv
  OBVIOUS
<1>1. TypeOK
  <2>1. act \in Act /\ act.todo = {} /\ act.cur = NoTweet
    BY AtRecord DEF Init
  <2>2. 0 \in 0..MaxFaults /\ 0 \in 0..MaxCrashes
    BY TwitterPostAssumption
  <2>3. QED
    BY <2>1, <2>2 DEF Init, TypeOK
<1>2. AnsweredStored /\ TouchedAccounted /\ Fresh /\ Written
  BY AtRecord
  DEF Init, AnsweredStored, TouchedAccounted, Fresh, Written, Handling
<1>3. QED
  BY <1>1, <1>2, SortedIInv

\* A step that leaves the actions loop alone and only adds to the posts and to
\* the memories keeps everything that is said of the loop.
LEMMA OthersStep ==
    ASSUME IInv, TypeOK', UNCHANGED <<done, act, cut>>, memories \subseteq memories'
    PROVE  IInv'
<1>1. AnsweredStored' /\ TouchedAccounted' /\ Fresh' /\ Written'
  BY SortedIInv
  DEF AnsweredStored, TouchedAccounted, Fresh, Written, Pending
<1>2. QED
  BY <1>1, SortedIInv
  DEF IInv, AnsweredStored, TouchedAccounted, Fresh, Written

\* generateNewTweet adds a post, then its memory.
LEMMA PostStepIInv ==
    ASSUME IInv, NEW l \in Loops, PostStep(l)
    PROVE  IInv'
<1>1. UNCHANGED <<done, act, cut>> /\ memories \subseteq memories'
  BY DEF PostStep, PostSent, PostStored, PostFails, actVars
<1>2. TypeOK'
  <2>1. CASE PostSent(l)
    BY <2>1, SortedIInv DEF PostSent, actVars, TypeOK, Act, Tweets
  <2>2. CASE PostStored(l)
    BY <2>2, SortedIInv, TwitterPostAssumption
    DEF PostStored, actVars, TypeOK
  <2>3. CASE PostFails(l)
    BY <2>3, SortedIInv DEF PostFails, actVars, TypeOK
  <2>4. QED
    BY <2>1, <2>2, <2>3 DEF PostStep
<1>3. QED
  BY <1>1, <1>2, OthersStep

\* The interaction client adds a memory.
LEMMA StoredByInteractionsIInv ==
    ASSUME IInv, NEW t \in Others, StoredByInteractions(t)
    PROVE  IInv'
<1>1. UNCHANGED <<done, act, cut>> /\ memories \subseteq memories'
  BY DEF StoredByInteractions, historyVars
<1>2. TypeOK'
  BY SortedIInv DEF StoredByInteractions, historyVars, postVars, TypeOK
<1>3. QED
  BY <1>1, <1>2, OthersStep

-----------------------------------------------------------------------------
(* The actions loop.                                                       *)

\* A step to a place where no tweet is handled, from one where none is or with
\* the tweet that was handled stored or lost.
LEMMA StepToAt ==
    ASSUME IInv, TypeOK', act'.pc \notin Handling,
           done' = done, memories \subseteq memories', cut \subseteq cut',
           act.pc \in Handling => act.cur \in memories' \cup cut'
    PROVE  IInv'
<1>1. AnsweredStored' /\ TouchedAccounted' /\ Fresh' /\ Written'
  BY SortedIInv
  DEF AnsweredStored, TouchedAccounted, Fresh, Written, Handling
<1>2. QED
  BY <1>1 DEF IInv, AnsweredStored, TouchedAccounted, Fresh, Written

\* The bound on faults holds after one more.
LEMMA FaultCount ==
    ASSUME IInv, Fault
    PROVE  faults' \in 0..MaxFaults
  BY SortedIInv, TwitterPostAssumption DEF Fault, TypeOK

\* A round begins, ends or fails with no tweet at hand.
LEMMA RoundIInv ==
    ASSUME IInv,
           BeginRound \/ FetchTimeline \/ RoundFails \/ EndRound \/ Wake
    PROVE  IInv'
<1>1. /\ act'.pc \notin Handling
      /\ act.pc \notin Handling
      /\ UNCHANGED <<done, memories, cut>>
  <2>1. CASE FetchTimeline
    <3>1. At("loop").pc = "loop" /\ At("loop") \in Act
      BY AtRecord
    <3>2. QED
      BY <2>1, <3>1 DEF FetchTimeline, historyVars, Act, Handling
  <2>2. CASE BeginRound \/ RoundFails \/ EndRound \/ Wake
    BY <2>2, AtRecord
    DEF BeginRound, RoundFails, EndRound, Wake, historyVars, Handling
  <2>3. QED
    BY <2>1, <2>2
<1>2. TypeOK'
  <2>1. CASE FetchTimeline
    <3>1. PICK found \in SUBSET (Others \cup out) :
             act' = [At("loop") EXCEPT !.todo = found]
      BY <2>1 DEF FetchTimeline
    <3>2. At("loop") \in Act /\ At("loop").cur = NoTweet
      BY AtRecord
    <3>3. found \subseteq Tweets
      BY SortedIInv DEF TypeOK, Tweets
    <3>4. act' \in Act /\ act'.todo = found /\ act'.cur = NoTweet
      BY <3>1, <3>2, <3>3 DEF Act
    <3>5. QED
      BY <2>1, <3>4, SortedIInv
      DEF FetchTimeline, historyVars, postVars, TypeOK
  <2>2. CASE BeginRound
    BY <2>2, AtRecord, SortedIInv DEF BeginRound, historyVars, postVars, TypeOK
  <2>3. CASE RoundFails
    <3>1. faults' \in 0..MaxFaults
      BY <2>3, FaultCount DEF RoundFails
    <3>2. QED
      BY <2>3, <3>1, AtRecord, SortedIInv
      DEF RoundFails, Fault, loopVars, postVars, TypeOK
  <2>4. CASE EndRound
    BY <2>4, AtRecord, SortedIInv DEF EndRound, historyVars, postVars, TypeOK
  <2>5. CASE Wake
    BY <2>5, AtRecord, SortedIInv DEF Wake, historyVars, postVars, TypeOK
  <2>6. QED
    BY <2>1, <2>2, <2>3, <2>4, <2>5
<1>3. QED
  BY <1>1, <1>2, StepToAt

\* A tweet without a memory is new, or something done to it was lost.
LEMMA TakeTweetIInv ==
    ASSUME IInv, TakeTweet
    PROVE  IInv'
<1> USE SortedIInv
<1>1. PICK t \in act.todo :
         act' = IF t \in memories
                THEN [act EXCEPT !.todo = @ \ {t}]
                ELSE [act EXCEPT !.pc = "decide", !.cur = t, !.todo = @ \ {t}]
  BY DEF TakeTweet
<1>2. /\ act.pc = "loop"
      /\ UNCHANGED <<done, memories, cut>>
      /\ act \in Act
      /\ t \in Others \cup out
      /\ t \in Tweets
      /\ t # NoTweet
  BY TwitterPostAssumption DEF TakeTweet, historyVars, TypeOK, Tweets
<1>3. TypeOK'
  <2>1. act' \in Act
    BY <1>1, <1>2 DEF Act
  <2>2. act'.todo \subseteq act.todo /\ act'.cur \in {act.cur, t}
    BY <1>1, <1>2 DEF Act
  <2>3. QED
    BY <1>2, <2>1, <2>2 DEF TakeTweet, historyVars, postVars, TypeOK
<1>4. CASE t \in memories
  <2>1. act'.pc = "loop"
    BY <1>1, <1>2, <1>4 DEF Act
  <2>2. QED
    BY <1>2, <1>3, <2>1, StepToAt DEF Handling
<1>5. CASE t \notin memories
  <2>1. act'.pc = "decide" /\ act'.cur = t
    BY <1>1, <1>2, <1>5 DEF Act
  <2>2. done[t] \cap Answers = {} /\ (done[t] # {} => t \in cut)
    BY <1>2, <1>5 DEF AnsweredStored, TouchedAccounted, Handling
  <2>3. done[t] \in SUBSET Actions
    BY <1>2 DEF TypeOK
  <2>4. AnsweredStored' /\ TouchedAccounted' /\ Written'
    BY <1>2, <2>1 DEF AnsweredStored, TouchedAccounted, Written, Handling
  <2>5. Fresh'
    BY <1>2, <2>1, <2>2, <2>3 DEF Fresh, Pending, Actions
  <2>6. QED
    BY <1>3, <2>4, <2>5
    DEF IInv, AnsweredStored, TouchedAccounted, Fresh, Written
<1>6. QED
  BY <1>4, <1>5

\* The actions chosen are still pending; nothing else moves.
LEMMA DecideIInv ==
    ASSUME IInv, Decide
    PROVE  IInv'
<1> USE SortedIInv
<1>1. PICK plan \in Plans : act' = [act EXCEPT !.pc = "act", !.plan = plan]
  BY DEF Decide
<1>2. /\ act.pc = "decide"
      /\ UNCHANGED <<done, memories, cut>>
      /\ act \in Act
      /\ plan \in SUBSET Actions
  BY TwitterPostAssumption DEF Decide, historyVars, TypeOK
<1>3. /\ act' \in Act
      /\ act'.pc = "act"
      /\ act'.cur = act.cur
      /\ act'.todo = act.todo
      /\ act'.plan = plan
  BY <1>1, <1>2 DEF Act
<1>4. TypeOK'
  BY <1>2, <1>3 DEF Decide, historyVars, postVars, TypeOK
<1>5. AnsweredStored' /\ TouchedAccounted' /\ Written'
  BY <1>2, <1>3 DEF AnsweredStored, TouchedAccounted, Written, Handling
<1>6. Fresh'
  BY <1>2, <1>3 DEF Fresh, Pending, Handling
<1>7. QED
  BY <1>4, <1>5, <1>6 DEF IInv, AnsweredStored, TouchedAccounted, Fresh, Written

\* What a step leaves behind that has tried action a on the tweet at hand: a is
\* no longer pending, done or not.
LEMMA TriedIInv ==
    ASSUME IInv, NEW a \in Actions, Tried(a), act.pc \in {"act", "write"},
           \/ done' = done
           \/ /\ done' = [done EXCEPT ![act.cur] = @ \cup {a}]
              /\ a \in Answers => act.cur \in memories,
           UNCHANGED <<memories, isProcessing, historyVars, postVars>>
    PROVE  IInv'
<1> USE SortedIInv
<1>1. /\ act \in Act
      /\ act.cur \in Tweets
      /\ done \in [Tweets -> SUBSET Actions]
      /\ UNCHANGED <<memories, cut>>
  BY TwitterPostAssumption
  DEF TypeOK, Tweets, Fresh, Handling, historyVars
<1>2. /\ act' \in Act
      /\ act'.pc = "act"
      /\ act'.cur = act.cur
      /\ act'.todo = act.todo
      /\ act'.plan = act.plan \ {a}
  BY <1>1 DEF Tried, Act
<1>3. /\ done' \in [Tweets -> SUBSET Actions]
      /\ \A t \in Tweets : t # act.cur => done'[t] = done[t]
      /\ done'[act.cur] \subseteq done[act.cur] \cup {a}
      /\ a \in Answers /\ a \in done'[act.cur] =>
            a \in done[act.cur] \/ act.cur \in memories
  BY <1>1
<1>4. TypeOK'
  BY <1>1, <1>2, <1>3 DEF historyVars, postVars, TypeOK
<1>5. AnsweredStored'
  BY <1>1, <1>2, <1>3 DEF AnsweredStored
<1>6. TouchedAccounted' /\ Written'
  BY <1>1, <1>2, <1>3 DEF TouchedAccounted, Written, Handling
<1>7. Fresh'
  BY <1>1, <1>2, <1>3 DEF Fresh, Pending, Handling
<1>8. QED
  BY <1>4, <1>5, <1>6, <1>7
  DEF IInv, AnsweredStored, TouchedAccounted, Fresh, Written

\* An action is tried: a reaction before the memory, an answer after it.
LEMMA ActionIInv ==
    ASSUME IInv, NEW a \in Actions, React(a) \/ ActionFails(a) \/ SendAnswer(a)
    PROVE  IInv'
<1>1. CASE React(a)
  <2>1. a \notin Answers
    BY <1>1 DEF React, Reactions, Answers
  <2>2. QED
    BY <1>1, <2>1, TriedIInv DEF React
<1>2. CASE ActionFails(a)
  BY <1>2, TriedIInv DEF ActionFails
<1>3. CASE SendAnswer(a)
  <2>1. act.cur \in memories
    BY <1>3, SortedIInv DEF SendAnswer, Written
  <2>2. QED
    BY <1>3, <2>1, TriedIInv DEF SendAnswer
<1>4. QED
  BY <1>1, <1>2, <1>3

\* The tweet is stored before anything is written.
LEMMA BuildThreadIInv ==
    ASSUME IInv, NEW a \in Actions, BuildThread(a)
    PROVE  IInv'
<1> USE SortedIInv
<1>1. PICK thread \in ThreadsAbove(act.cur) :
         memories' = memories \cup {act.cur} \cup thread
  BY DEF BuildThread
<1>2. /\ thread \subseteq Others
      /\ act.pc = "act"
      /\ act \in Act
      /\ act.cur \in Others \cup out
      /\ UNCHANGED <<done, cut, out>>
  BY DEF BuildThread, ThreadsAbove, historyVars, postVars, TypeOK, Fresh, Handling
<1>3. /\ act' \in Act
      /\ act'.pc = "write"
      /\ act'.cur = act.cur
      /\ act'.todo = act.todo
      /\ act'.plan = act.plan
  BY <1>2 DEF BuildThread, Act
<1>4. TypeOK'
  BY <1>1, <1>2, <1>3 DEF BuildThread, historyVars, postVars, TypeOK
<1>5. AnsweredStored' /\ TouchedAccounted' /\ Written'
  BY <1>1, <1>2, <1>3 DEF AnsweredStored, TouchedAccounted, Written, Handling
<1>6. Fresh'
  BY <1>2, <1>3 DEF Fresh, Pending, Handling
<1>7. QED
  BY <1>4, <1>5, <1>6 DEF IInv, AnsweredStored, TouchedAccounted, Fresh, Written

\* The record of the loop when it goes on to the next tweet.
LEMMA NextRecord ==
    ASSUME act \in Act, act' = [act EXCEPT !.pc = "loop", !.cur = NoTweet]
    PROVE  /\ act' \in Act
           /\ act'.pc = "loop"
           /\ act'.cur = NoTweet
           /\ act'.todo = act.todo
  BY DEF Act

\* The tweet at hand is stored, or lost and marked as cut off.
LEMMA LeaveTweetIInv ==
    ASSUME IInv, EmptyQuote \/ StoreTweet \/ TweetFails
    PROVE  IInv'
<1> USE SortedIInv
<1>1. CASE EmptyQuote
  <2>1. /\ act'.pc = "round" /\ act' \in Act
        /\ act'.todo = {} /\ act'.cur = NoTweet
    BY <1>1, AtRecord DEF EmptyQuote
  <2>2. UNCHANGED <<done, memories, cut>> /\ act.cur \in memories
    BY <1>1 DEF EmptyQuote, Written, historyVars
  <2>3. TypeOK'
    BY <1>1, <2>1 DEF EmptyQuote, historyVars, postVars, TypeOK
  <2>4. QED
    BY <2>1, <2>2, <2>3, StepToAt DEF Handling
<1>2. CASE StoreTweet
  <2>1. /\ act'.pc = "loop" /\ act' \in Act
        /\ act'.todo = act.todo /\ act'.cur = NoTweet
    BY <1>2, NextRecord DEF StoreTweet, TypeOK
  <2>2. /\ UNCHANGED <<done, cut, out>>
        /\ memories' = memories \cup {act.cur}
        /\ act.cur \in Others \cup out
    BY <1>2 DEF StoreTweet, historyVars, postVars, TypeOK, Fresh, Handling
  <2>3. TypeOK'
    BY <1>2, <2>1, <2>2 DEF StoreTweet, historyVars, postVars, TypeOK
  <2>4. QED
    BY <2>1, <2>2, <2>3, StepToAt DEF Handling
<1>3. CASE TweetFails
  <2>1. /\ UNCHANGED <<done, memories, out>>
        /\ cut' = cut \cup ({act.cur} \ (memories \cup {NoTweet}))
        /\ act \in Act
        /\ act.cur \in Tweets \cup {NoTweet}
        /\ faults' \in 0..MaxFaults
    BY <1>3, FaultCount DEF TweetFails, loopVars, postVars, TypeOK, Act
  <2>2. CASE act.pc = "loop"
    <3>1. PICK t \in act.todo : act' = [act EXCEPT !.todo = @ \ {t}]
      BY <1>3, <2>2 DEF TweetFails
    <3>2. /\ act' \in Act
          /\ act'.pc = "loop"
          /\ act'.cur = act.cur
          /\ act'.todo \subseteq act.todo
      BY <2>1, <2>2, <3>1 DEF Act
    <3>3. TypeOK'
      BY <1>3, <2>1, <3>2 DEF TweetFails, loopVars, postVars, TypeOK, Tweets
    <3>4. QED
      BY <2>1, <2>2, <3>2, <3>3, StepToAt DEF Handling
  <2>3. CASE act.pc # "loop"
    <3>1. act' = [act EXCEPT !.pc = "loop", !.cur = NoTweet]
      BY <1>3, <2>3 DEF TweetFails
    <3>2. /\ act'.pc = "loop" /\ act' \in Act
          /\ act'.todo = act.todo /\ act'.cur = NoTweet
      BY <2>1, <3>1, NextRecord
    <3>3. TypeOK'
      BY <1>3, <2>1, <3>2 DEF TweetFails, loopVars, postVars, TypeOK, Tweets
    <3>4. act.pc \in Handling => act.cur \in memories \cup cut'
      BY <2>1 DEF Fresh
    <3>5. QED
      BY <2>1, <3>2, <3>3, <3>4, StepToAt DEF Handling
  <2>4. QED
    BY <2>2, <2>3
<1>4. QED
  BY <1>1, <1>2, <1>3

\* A crash marks the tweet at hand as cut off, unless it is stored.
LEMMA CrashIInv ==
    ASSUME IInv, CrashAndRestart
    PROVE  IInv'
<1> USE SortedIInv
<1>1. /\ act'.pc = "round" /\ act' \in Act
      /\ act'.todo = {} /\ act'.cur = NoTweet
  BY AtRecord DEF CrashAndRestart
<1>2. PICK found \in SUBSET (Others \cup out) :
         memories' = memories \cup found
  BY DEF CrashAndRestart
<1>3. /\ UNCHANGED <<out, done, faults>>
      /\ cut' = cut \cup ({act.cur} \ (memories \cup {NoTweet}))
      /\ act.cur \in Tweets \cup {NoTweet}
  BY DEF CrashAndRestart, TypeOK, Act
<1>4. TypeOK'
  <2>1. crashes' \in 0..MaxCrashes
    BY TwitterPostAssumption DEF CrashAndRestart, TypeOK
  <2>2. posting' \in [Loops -> {"wait"} \cup out] /\ isProcessing' \in BOOLEAN
    BY DEF CrashAndRestart
  <2>3. cut' \subseteq Tweets
    BY <1>3 DEF TypeOK
  <2>4. QED
    BY <1>1, <1>2, <1>3, <2>1, <2>2, <2>3 DEF TypeOK
<1>5. act.pc \in Handling => act.cur \in memories \cup cut'
  BY <1>3 DEF Fresh
<1>6. QED
  BY <1>1, <1>2, <1>3, <1>4, <1>5, StepToAt DEF Handling

\* Every step keeps the invariant.
LEMMA NextIInv == IInv /\ [Next]_vars => IInv'
<1> SUFFICES ASSUME IInv, [Next]_vars PROVE IInv'
  OBVIOUS
<1>1. CASE \E l \in Loops : PostStep(l)
  BY <1>1, PostStepIInv
<1>2. CASE ActStep
  BY <1>2, RoundIInv, TakeTweetIInv, DecideIInv, LeaveTweetIInv, ActionIInv,
     BuildThreadIInv
  DEF ActStep
<1>3. CASE \E t \in Others : StoredByInteractions(t)
  BY <1>3, StoredByInteractionsIInv
<1>4. CASE CrashAndRestart
  BY <1>4, CrashIInv
<1>5. CASE UNCHANGED vars
  <2>1. /\ UNCHANGED <<done, memories, cut, act>>
        /\ UNCHANGED <<out, posting, isProcessing, faults, crashes>>
    BY <1>5 DEF vars, historyVars
  <2>2. TypeOK'
    BY <2>1, SortedIInv DEF TypeOK
  <2>3. QED
    BY <2>1, <2>2, OthersStep
<1>6. QED
  BY <1>1, <1>2, <1>3, <1>4, <1>5 DEF Next

\* processActionsLoop and start(): whatever order, errors and restarts.  What a
\* quote or answer was sent to is stored, and what is still to be tried on the
\* tweet at hand was not done before, unless its memory was lost.
THEOREM PostInvariant == Spec => []IInv
<1>1. IInv /\ [Next]_vars => IInv'
  BY NextIInv
<1>2. QED
  BY InitIInv, <1>1, PTL DEF Spec
-----------------------------------------------------------------------------
\* No tweet is quoted twice or answered twice by the actions loop.
THEOREM OneAnswerPerTweet == Spec => AnsweredOnce
<1>1. IInv /\ [Next]_vars =>
         [\A a \in Answers : SendAnswer(a) => a \notin done[act.cur]]_vars
  <2> SUFFICES ASSUME IInv, NEW a \in Answers, SendAnswer(a),
                      a \in done[act.cur]
               PROVE  FALSE
    OBVIOUS
  <2>1. act.pc \in Handling /\ a \in Pending
    BY DEF SendAnswer, IsNext, Pending, Handling
  <2>2. a \in Reactions
    BY <2>1, SortedIInv DEF Fresh
  <2>3. QED
    BY <2>2 DEF Reactions, Answers
<1>2. QED
  BY <1>1, PostInvariant, PTL DEF Spec, AnsweredOnce

\* A like or retweet is repeated only on a tweet that was cut off by an error or
\* a crash before it was stored.
THEOREM ReactionsRepeatOnlyAfterLoss == Spec => ReactsAgainOnlyAfterLoss
<1>1. IInv /\ [Next]_vars =>
         [\A a \in Reactions :
             (React(a) /\ a \in done[act.cur]) => act.cur \in cut]_vars
  <2> SUFFICES ASSUME IInv, NEW a \in Reactions, React(a), a \in done[act.cur]
               PROVE  act.cur \in cut
    OBVIOUS
  <2>1. act.pc \in Handling /\ a \in Pending
    BY DEF React, IsNext, Pending, Handling
  <2>2. QED
    BY <2>1, SortedIInv DEF Fresh
<1>2. QED
  BY <1>1, PostInvariant, PTL DEF Spec, ReactsAgainOnlyAfterLoss
-----------------------------------------------------------------------------
\* What holds between the queue, its worker and the timers: a worker that is
\* off has no request at hand and none waiting, and only searches have timers.
QInv ==
    /\ QueueTypeOK
    /\ InOrder
    /\ NoOrphanedQueue
    /\ SendsOneByOne
    /\ ~processing => current = None
    /\ \A r \in Requests \ Searches : timer[r] = "off"

-----------------------------------------------------------------------------
\* Three facts about sequences.  A new request joins the end of the queue.
LEMMA Joins ==
    ASSUME NEW S, NEW s \in Seq(S), NEW q \in Seq(S), NEW r \in S
    PROVE  Append(s \o q, r) = s \o Append(q, r)
  OBVIOUS

\* A request added to an empty queue is called in its turn.
LEMMA CalledAtOnce ==
    ASSUME NEW S, NEW s \in Seq(S), NEW r \in S
    PROVE  Append(s \o << >>, r) = Append(s, r) \o << >>
  OBVIOUS

\* The first of the queue becomes the last of those called.
LEMMA Moves ==
    ASSUME NEW S, NEW s \in Seq(S), NEW q \in Seq(S), q # << >>
    PROVE  /\ Head(q) \in S
           /\ Tail(q) \in Seq(S)
           /\ s \o q = Append(s, Head(q)) \o Tail(q)
  OBVIOUS
-----------------------------------------------------------------------------
\* A new queue is empty and its worker is off.
LEMMA InitQInv == QueueInit => QInv
<1> SUFFICES ASSUME QueueInit PROVE QInv
  OBVIOUS
<1>1. QueueTypeOK
  <2>1. << >> \in Seq(Requests)
    OBVIOUS
  <2>2. QED
    BY <2>1 DEF QueueInit, QueueTypeOK
<1>2. InOrder
  <2>1. << >> = << >> \o << >>
    OBVIOUS
  <2>2. QED
    BY <2>1 DEF QueueInit, InOrder
<1>3. QED
  BY <1>1, <1>2 DEF QueueInit, QInv, NoOrphanedQueue, SendsOneByOne

\* The worker turns to r: no send is under way, and r's timer, if expired, says
\* that r is a search.
LEMMA StartKeeps ==
    ASSUME QInv, NEW r \in Requests,
           NEW t \in [Requests -> {"off", "set", "expired"}],
           current = None, Start(r, t), r \notin Searches => t[r] = "off"
    PROVE  /\ SendsOneByOne'
           /\ started' = Append(started, r)
           /\ started' \in Seq(Requests)
           /\ outstanding' \subseteq Requests
           /\ current' \in Requests \cup {None}
           /\ outcome' \in [Requests ->
                 {"new", "pending", "result", "error", "empty"}]
<1>1. outstanding \subseteq Searches
  BY QueueAssumption DEF QInv, SendsOneByOne, QueueTypeOK
<1>2. SendsOneByOne'
  BY <1>1 DEF Start, SendsOneByOne
<1>3. started' = Append(started, r) /\ started' \in Seq(Requests)
  BY DEF Start, QInv, QueueTypeOK
<1>4. QED
  BY <1>2, <1>3 DEF Start, QInv, QueueTypeOK

\* add() queues the request if the worker is on, else it calls it.
LEMMA AddKeeps ==
    ASSUME QInv, NEW r \in Requests, Add(r)
    PROVE  QInv'
<1>1. /\ timer' \in [Requests -> {"off", "set", "expired"}]
      /\ \A q \in Requests \ Searches : timer'[q] = "off"
      /\ processing' = TRUE
      /\ added' = Append(added, r)
      /\ added' \in Seq(Requests)
  BY DEF Add, QInv, QueueTypeOK
<1>2. CASE processing
  <2>1. /\ queue' = Append(queue, r)
        /\ outcome' = [outcome EXCEPT ![r] = "pending"]
        /\ UNCHANGED <<current, outstanding, started>>
    BY <1>2 DEF Add
  <2>2. InOrder'
    <3> started \in Seq(Requests) /\ queue \in Seq(Requests)
      BY DEF QInv, QueueTypeOK
    <3>1. Append(started \o queue, r) = started \o Append(queue, r)
      BY Joins
    <3>2. QED
      BY <1>1, <2>1, <3>1 DEF QInv, InOrder
  <2>3. QueueTypeOK'
    BY <1>1, <2>1 DEF QInv, QueueTypeOK
  <2>4. QED
    BY <1>1, <2>1, <2>2, <2>3 DEF QInv, NoOrphanedQueue, SendsOneByOne
<1>3. CASE ~processing
  <2>1. Start(r, timer') /\ UNCHANGED queue
    BY <1>3 DEF Add
  <2>2. queue = << >> /\ current = None
    BY <1>3 DEF QInv, NoOrphanedQueue
  <2>3. /\ SendsOneByOne'
        /\ started' = Append(started, r)
        /\ started' \in Seq(Requests)
        /\ outstanding' \subseteq Requests
        /\ current' \in Requests \cup {None}
        /\ outcome' \in [Requests ->
              {"new", "pending", "result", "error", "empty"}]
    BY <1>1, <2>1, <2>2, StartKeeps
  <2>4. InOrder'
    BY <1>1, <2>1, <2>2, <2>3, CalledAtOnce DEF QInv, QueueTypeOK, InOrder
  <2>5. QueueTypeOK'
    BY <1>1, <2>1, <2>3 DEF QInv, QueueTypeOK
  <2>6. QED
    BY <1>1, <2>3, <2>4, <2>5 DEF QInv, NoOrphanedQueue
<1>4. QED
  BY <1>2, <1>3

\* After the pause the worker goes off, or takes the first request.
LEMMA ContinueKeeps ==
    ASSUME QInv, Continue
    PROVE  QInv'
<1>1. CASE queue = << >>
  BY <1>1 DEF Continue, QInv, QueueTypeOK, InOrder, NoOrphanedQueue, SendsOneByOne
<1>2. CASE queue # << >>
  <2>1. /\ queue' = Tail(queue)
        /\ Start(Head(queue), timer)
        /\ current = None
        /\ processing /\ UNCHANGED <<processing, timer, added>>
    BY <1>2 DEF Continue
  <2>2. /\ Head(queue) \in Requests
        /\ Tail(queue) \in Seq(Requests)
        /\ started \o queue = Append(started, Head(queue)) \o Tail(queue)
    BY <1>2, Moves DEF QInv, QueueTypeOK
  <2>3. /\ SendsOneByOne'
        /\ started' = Append(started, Head(queue))
        /\ started' \in Seq(Requests)
        /\ outstanding' \subseteq Requests
        /\ current' \in Requests \cup {None}
        /\ outcome' \in [Requests ->
              {"new", "pending", "result", "error", "empty"}]
    <3>1. Head(queue) \notin Searches => timer[Head(queue)] = "off"
      BY <2>2 DEF QInv
    <3>2. timer \in [Requests -> {"off", "set", "expired"}]
      BY DEF QInv, QueueTypeOK
    <3>3. QED
      BY <2>1, <2>2, <3>1, <3>2, StartKeeps
  <2>4. InOrder'
    BY <2>1, <2>2, <2>3 DEF QInv, InOrder
  <2>5. QueueTypeOK'
    BY <2>1, <2>2, <2>3 DEF QInv, QueueTypeOK
  <2>6. QED
    BY <2>1, <2>3, <2>4, <2>5 DEF QInv, NoOrphanedQueue
<1>3. QED
  BY <1>1, <1>2

\* A call ends: the worker's own, which it lets go, or an abandoned search's.
LEMMA AnswerKeeps ==
    ASSUME QInv, NEW r \in Requests, Answer(r)
    PROVE  QInv'
<1>1. /\ outstanding' = outstanding \ {r}
      /\ UNCHANGED <<queue, processing, timer, added, started>>
  BY DEF Answer, history
<1>2. /\ current' \in {current, None}
      /\ current' # current => current = r
      /\ outcome' \in [Requests ->
            {"new", "pending", "result", "error", "empty"}]
  BY DEF Answer, QInv, QueueTypeOK
<1>3. QueueTypeOK'
  BY <1>1, <1>2 DEF QInv, QueueTypeOK
<1>4. SendsOneByOne'
  BY <1>1, <1>2 DEF QInv, SendsOneByOne
<1>5. QED
  BY <1>1, <1>2, <1>3, <1>4 DEF QInv, InOrder, NoOrphanedQueue

\* Only a search expires, so the worker lets go of no send.
LEMMA ExpireKeeps ==
    ASSUME QInv, NEW r \in Requests, Expire(r)
    PROVE  QInv'
<1>1. /\ timer' = [timer EXCEPT ![r] = "expired"]
      /\ UNCHANGED <<queue, processing, outstanding, added, started>>
  BY DEF Expire, history
<1>2. r \in Searches
  BY DEF Expire, QInv
<1>3. /\ current' \in {current, None}
      /\ current' # current => current = r
      /\ outcome' \in [Requests ->
            {"new", "pending", "result", "error", "empty"}]
  BY DEF Expire, QInv, QueueTypeOK
<1>4. QueueTypeOK'
  BY <1>1, <1>3 DEF QInv, QueueTypeOK
<1>5. SendsOneByOne'
  BY <1>1, <1>2, <1>3 DEF QInv, SendsOneByOne
<1>6. \A q \in Requests \ Searches : timer'[q] = "off"
  BY <1>1, <1>2 DEF QInv, QueueTypeOK
<1>7. QED
  BY <1>1, <1>3, <1>4, <1>5, <1>6 DEF QInv, InOrder, NoOrphanedQueue

\* Every step keeps the invariant.
LEMMA NextQInv == QInv /\ [QueueNext]_queueVars => QInv'
<1> SUFFICES ASSUME QInv, [QueueNext]_queueVars PROVE QInv'
  OBVIOUS
<1>1. CASE QueueNext
  BY <1>1, AddKeeps, ContinueKeeps, AnswerKeeps, ExpireKeeps DEF QueueNext
<1>2. CASE UNCHANGED queueVars
  BY <1>2 DEF queueVars, history, QInv, QueueTypeOK, InOrder, NoOrphanedQueue, SendsOneByOne
<1>3. QED
  BY <1>1, <1>2

\* RequestQueue: what was added is what was called followed by what waits, in
\* the order of add(), none twice and none lost.
THEOREM RequestsKeepTheirOrder == QueueSpec => []InOrder
<1>1. QInv => InOrder
  BY DEF QInv
<1>2. QED
  BY InitQInv, NextQInv, <1>1, PTL DEF QueueSpec

\* RequestQueue: while requests wait, the worker is on.
THEOREM NoQueueWithoutWorker == QueueSpec => []NoOrphanedQueue
<1>1. QInv => NoOrphanedQueue
  BY DEF QInv
<1>2. QED
  BY InitQInv, NextQInv, <1>1, PTL DEF QueueSpec

\* RequestQueue: two sends are never under way together, although searches are
\* given up and overtaken.
THEOREM OneSendAtATime == QueueSpec => []SendsOneByOne
<1>1. QInv => SendsOneByOne
  BY DEF QInv
<1>2. QED
  BY InitQInv, NextQInv, <1>1, PTL DEF QueueSpec

-----------------------------------------------------------------------------
\* Every step of the request queue is a step of the work queue or leaves its
\* line and its worker alone.
LEMMA StepIsWork ==
    QInv /\ [QueueNext]_queueVars => [Work!Next]_(Work!workVars)
<1> SUFFICES ASSUME QInv, [QueueNext]_queueVars
             PROVE  [Work!Next]_(Work!workVars)
  OBVIOUS
<1> USE DEF Work!workVars
<1>1. ASSUME NEW r \in Requests, Add(r)
      PROVE  Work!Join(r) \/ Work!Begin(r)
  <2>1. CASE processing
    BY <1>1, <2>1 DEF Add, Work!Join
  <2>2. CASE ~processing
    <3>1. timer'[r] # "expired"
      BY <1>1 DEF Add, QInv, QueueTypeOK
    <3>2. current' = r /\ queue' = queue /\ processing'
      BY <1>1, <2>2, <3>1 DEF Add, Start
    <3>3. queue = << >> /\ current = None
      BY <2>2 DEF QInv, NoOrphanedQueue
    <3>4. QED
      BY <1>1, <2>2, <3>2, <3>3 DEF Add, Work!Begin
  <2>3. QED
    BY <2>1, <2>2
<1>2. ASSUME Continue
      PROVE  Work!Turn \/ Work!GoOff
  <2>1. CASE queue = << >>
    BY <1>2, <2>1 DEF Continue, Work!GoOff
  <2>2. CASE queue # << >>
    BY <1>2, <2>2 DEF Continue, Start, Work!Turn
  <2>3. QED
    BY <2>1, <2>2
<1>3. ASSUME NEW r \in Requests, Answer(r) \/ Expire(r)
      PROVE  Work!Release \/ UNCHANGED Work!workVars
  <2>1. UNCHANGED <<queue, processing>>
    BY <1>3 DEF Answer, Expire
  <2>2. current' = current \/ (current = r /\ current' = None)
    BY <1>3 DEF Answer, Expire
  <2>3. r # None
    BY QueueAssumption
  <2>4. QED
    BY <2>1, <2>2, <2>3 DEF Work!Release
<1>4. CASE UNCHANGED queueVars
  BY <1>4 DEF queueVars
<1>5. QED
  BY <1>1, <1>2, <1>3, <1>4 DEF QueueNext, Work!Next

\* RequestQueue implements the work queue: requests come to work one at a time
\* and in order whichever of them are given up, and no request can be lost.
THEOREM RequestQueueIsAWorkQueue == QueueSpec => ImplementsWorkQueue
<1>1. QueueInit => Work!Init
  BY DEF QueueInit, Work!Init
<1>2. QED
  BY <1>1, InitQInv, NextQInv, StepIsWork, PTL
  DEF QueueSpec, ImplementsWorkQueue, Work!Spec
=============================================================================
