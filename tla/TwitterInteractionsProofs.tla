--------------------- MODULE TwitterInteractionsProofs ----------------------
(***************************************************************************)
(* Proofs about TwitterInteractions for any number of overlapping polls,   *)
(* tweets and crashes, with faults or without.                             *)
(***************************************************************************)
EXTENDS TwitterInteractions, FiniteSetTheorems, TLAPS

\* A search finds tweets.
LEMMA FoundTweets ==
    ASSUME NEW n \in 0..MaxTweet, NEW found \in Found(n)
    PROVE  found \in SUBSET Tweets
  BY TwitterAssumption DEF Found, Latest, Tweets

\* Climbing a thread stays within the tweets.
LEMMA UpThread ==
    ASSUME NEW t \in Tweets
    PROVE  \/ Up(t) = [pc |-> "decide", node |-> 0]
           \/ /\ Up(t) = [pc |-> "look", node |-> parent[t]]
              /\ parent[t] \in Tweets /\ parent[t] < t
  BY TwitterAssumption DEF Up, Tweets

\* What the inductive invariant says of the state the polls share.
SharedInv ==
    /\ posted \in 0..MaxTweet
    /\ replies \in [Tweets -> Nat]
    /\ memories \subseteq Tweets
    /\ cachedId \in 0..MaxTweet
    /\ lastCheckedTweetId \in 0..MaxTweet
    /\ decided \subseteq Tweets
    /\ backlog \in 0..MaxTweet
    /\ answered \subseteq memories
    /\ elsewhere \subseteq Tweets /\ threaded \subseteq Tweets
    /\ cut \subseteq Tweets
    /\ crashes \in 0..MaxCrashes
    /\ AnsweredIsStored

\* The inductive invariant, sorted by what it is about.
LEMMA SortedIInv ==
    IInv <=> /\ SharedInv
             /\ poll \in [Polls -> Poll]
             /\ \A p \in Polls : PollInv(poll[p], memories, answered)
  BY DEF IInv, TypeOK, SharedInv

\* Every step starts from that.
LEMMA InitIInv == Init => IInv
<1> SUFFICES ASSUME Init PROVE IInv
  OBVIOUS
<1>1. memories \in SUBSET Tweets
  BY DEF Init, Timelines
<1>2. QED
  BY <1>1, TwitterAssumption
  DEF Init, IInv, TypeOK, Poll, Asleep, Tweets, AnsweredIsStored, PollInv,
      Working

\* A step in which at most poll p moves, to the record r, keeps the invariant
\* if r and the shared state satisfy their parts of it and no memory is lost.
LEMMA OnePollMoves ==
    ASSUME IInv, NEW p \in Polls, NEW r \in Poll,
           PollInv(r, memories', answered),
           poll' = [poll EXCEPT ![p] = r],
           SharedInv', memories \subseteq memories', answered' = answered
    PROVE  IInv'
<1>1. poll \in [Polls -> Poll]
  BY DEF IInv, TypeOK
<1>2. ASSUME NEW q \in Polls PROVE PollInv(poll'[q], memories', answered')
  <2>1. CASE q = p
    BY <2>1, <1>1
  <2>2. CASE q # p
    <3>1. poll'[q] = poll[q] /\ PollInv(poll[q], memories, answered)
      BY <2>2, <1>1 DEF IInv
    <3>2. QED BY <3>1 DEF PollInv
  <2>3. QED BY <2>1, <2>2
<1>3. poll' \in [Polls -> Poll]
  BY <1>1
<1>4. QED BY <1>2, <1>3 DEF IInv, TypeOK, SharedInv

\* The same for a step that leaves the memories and the history alone.
LEMMA PollMoves ==
    ASSUME IInv, NEW p \in Polls, NEW r \in Poll,
           PollInv(r, memories, answered),
           poll' = [poll EXCEPT ![p] = r],
           UNCHANGED <<twitterVars, storeVars, lastCheckedTweetId,
                       historyVars>>
    PROVE  IInv'
<1>1. SharedInv'
  BY SortedIInv
  DEF SharedInv, AnsweredIsStored, twitterVars, storeVars, historyVars, pathVars
<1>2. QED BY <1>1, OnePollMoves DEF storeVars, historyVars

\* Every step keeps the inductive invariant.
LEMMA NextIInv == IInv /\ [Next]_vars => IInv'
<1> SUFFICES ASSUME IInv, [Next]_vars PROVE IInv'
  OBVIOUS
<1>a. /\ SharedInv
      /\ poll \in [Polls -> Poll]
      /\ \A p \in Polls : poll[p] \in Poll
      /\ \A p \in Polls : PollInv(poll[p], memories, answered)
  BY SortedIInv
<1>b. ASSUME NEW t \in Tweets PROVE t \in 0..MaxTweet
  BY TwitterAssumption DEF Tweets
<1>c. Asleep \in Poll /\ \A m, a : PollInv(Asleep, m, a)
  BY TwitterAssumption DEF Asleep, Poll, PollInv, Working
<1>d. ASSUME NEW p \in Polls, NEW m
      PROVE  [poll[p] EXCEPT !.pc = "loop"] \in Poll
             /\ PollInv([poll[p] EXCEPT !.pc = "loop"], m, answered)
  BY <1>a DEF Poll, PollInv, Working
<1>e. ASSUME NEW p \in Polls, NEW m \in SUBSET Tweets,
             poll[p].cur \in m, poll[p].cur \notin answered,
             NEW r, r = [poll[p] EXCEPT !.pc = "decide", !.node = 0]
      PROVE  r \in Poll /\ PollInv(r, m, answered)
  <2>1. 0 \in 0..MaxTweet /\ poll[p] \in Poll
    BY <1>a, TwitterAssumption
  <2>2. r \in Poll /\ r.pc = "decide" /\ r.cur = poll[p].cur
    BY <1>e, <2>1 DEF Poll
  <2>3. QED BY <1>e, <2>2 DEF PollInv, Working
<1>f. ASSUME NEW p \in Polls, NEW t \in Tweets, NEW m \in SUBSET Tweets,
             t \leq poll[p].cur, poll[p].cur \in m, poll[p].cur \notin answered,
             NEW r,
             r = [poll[p] EXCEPT !.pc = Up(t).pc, !.node = Up(t).node]
      PROVE  r \in Poll /\ PollInv(r, m, answered)
  <2>1. CASE Up(t) = [pc |-> "decide", node |-> 0]
    <3>1. r = [poll[p] EXCEPT !.pc = "decide", !.node = 0]
      BY <1>f, <2>1
    <3>2. QED BY <1>e, <1>f, <3>1
  <2>2. CASE /\ Up(t) = [pc |-> "look", node |-> parent[t]]
             /\ parent[t] \in Tweets /\ parent[t] < t
    <3>1. poll[p] \in Poll /\ parent[t] \in 0..MaxTweet
      BY <1>a, <1>b, <2>2
    <3>2. r = [poll[p] EXCEPT !.pc = "look", !.node = parent[t]]
      BY <1>f, <2>2
    <3>3. /\ r \in Poll /\ r.pc = "look"
          /\ r.cur = poll[p].cur /\ r.node = parent[t]
      BY <3>1, <3>2 DEF Poll
    <3>4. parent[t] \leq poll[p].cur
      BY <1>f, <2>2, <3>1, TwitterAssumption DEF Poll, Tweets
    <3>5. QED BY <1>f, <2>2, <3>3, <3>4 DEF PollInv, Working
  <2>3. QED BY <2>1, <2>2, UpThread
<1>1. ASSUME NEW p \in Polls, StartPoll(p) PROVE IInv'
  <2> DEFINE r == [poll[p] EXCEPT !.pc = "mentions"]
  <2>1. r \in Poll /\ PollInv(r, memories, answered)
    BY <1>a DEF Poll, PollInv, Working
  <2>2. QED BY <1>1, <2>1, PollMoves DEF StartPoll
<1>2. ASSUME NEW p \in Polls, FetchMentions(p) PROVE IInv'
  <2>1. PICK found \in Found(posted) :
            poll' = [poll EXCEPT ![p].pc = "targets", ![p].todo = found]
    BY <1>2 DEF FetchMentions
  <2> DEFINE r == [poll[p] EXCEPT !.pc = "targets", !.todo = found]
  <2>2. found \in SUBSET Tweets
    BY <1>a, FoundTweets DEF SharedInv
  <2>3. r \in Poll /\ PollInv(r, memories, answered)
    BY <1>a, <2>2 DEF Poll, PollInv, Working
  <2>4. poll' = [poll EXCEPT ![p] = r]
    BY <2>1, <1>a
  <2>5. QED BY <1>2, <2>3, <2>4, PollMoves DEF FetchMentions
<1>3. ASSUME NEW p \in Polls, FetchTargets(p) PROVE IInv'
  <2>1. PICK more \in SUBSET Tweets :
            poll' = [poll EXCEPT ![p].pc = "loop", ![p].todo = @ \cup more]
    BY <1>3, TwitterAssumption DEF FetchTargets
  <2> DEFINE r == [poll[p] EXCEPT !.pc = "loop", !.todo = @ \cup more]
  <2>2. r \in Poll /\ PollInv(r, memories, answered)
    BY <1>a DEF Poll, PollInv, Working
  <2>3. poll' = [poll EXCEPT ![p] = r]
    BY <2>1, <1>a
  <2>4. QED BY <1>3, <2>2, <2>3, PollMoves DEF FetchTargets
<1>4. ASSUME NEW p \in Polls, NextTweet(p) PROVE IInv'
  <2>1. CASE poll' = [poll EXCEPT ![p].pc = "save"]
    <3> DEFINE r == [poll[p] EXCEPT !.pc = "save"]
    <3>1. r \in Poll /\ PollInv(r, memories, answered)
      BY <1>a DEF Poll, PollInv, Working
    <3>2. QED BY <1>4, <2>1, <3>1, PollMoves DEF NextTweet
  <2>2. ASSUME NEW t \in poll[p].todo, NEW q \in {"check", "loop"},
               poll' = [poll EXCEPT ![p].pc = q,
                                    ![p].cur = t,
                                    ![p].todo = @ \ {t}]
        PROVE  IInv'
    <3> DEFINE r == [poll[p] EXCEPT !.pc = q, !.cur = t, !.todo = @ \ {t}]
    <3>1. t \in Tweets
      BY <1>a DEF Poll
    <3>2. r \in Poll /\ PollInv(r, memories, answered)
      BY <1>a, <1>b, <3>1 DEF Poll, PollInv, Working
    <3>3. poll' = [poll EXCEPT ![p] = r]
      BY <2>2, <1>a
    <3>4. QED BY <1>4, <3>2, <3>3, PollMoves DEF NextTweet
  <2>3. QED BY <1>4, <2>1, <2>2 DEF NextTweet
<1>5. ASSUME NEW p \in Polls, CheckMemory(p) PROVE IInv'
  <2>1. CASE poll[p].cur \in memories
    BY <1>5, <1>d, <2>1, PollMoves DEF CheckMemory
  <2>2. CASE poll[p].cur \notin memories
    <3> DEFINE r == [poll[p] EXCEPT !.pc = "look", !.node = poll[p].cur]
    <3>1. poll[p].cur \in Tweets
      BY <1>a, <1>5 DEF CheckMemory, PollInv
    <3>2. r \in Poll /\ PollInv(r, memories, answered)
      <4>1. poll[p] \in Poll /\ poll[p].cur \in 0..MaxTweet
        BY <1>a, <1>b, <3>1
      <4>2. /\ r \in Poll /\ r.pc = "look"
            /\ r.cur = poll[p].cur /\ r.node = poll[p].cur
        BY <4>1 DEF Poll
      <4>3. poll[p].cur \leq poll[p].cur /\ poll[p].cur \notin answered
        BY <1>a, <2>2, <3>1 DEF SharedInv, Tweets
      <4>4. QED BY <3>1, <4>2, <4>3 DEF PollInv, Working
    <3>3. QED BY <1>5, <2>2, <3>2, PollMoves DEF CheckMemory
  <2>3. QED BY <2>1, <2>2
<1>6. ASSUME NEW p \in Polls, LookUp(p) PROVE IInv'
  <2>1. poll[p].node \in Tweets
    BY <1>a, <1>6 DEF LookUp, PollInv
  <2>2. CASE poll[p].node \in memories
    <3>1. MoveTo(p, Up(poll[p].node))
      BY <1>6, <2>2 DEF LookUp
    <3> DEFINE r == [poll[p] EXCEPT !.pc = Up(poll[p].node).pc,
                                    !.node = Up(poll[p].node).node]
    <3>2. r \in Poll /\ PollInv(r, memories, answered)
      <4>1. poll[p].cur \in memories /\ poll[p].cur \notin answered
        BY <1>a, <1>6, <2>2 DEF LookUp, PollInv, Working
      <4>2. memories \subseteq Tweets
        BY <1>a DEF SharedInv
      <4>3. poll[p].node \leq poll[p].cur
        BY <1>a, <1>6 DEF LookUp, PollInv
      <4>4. QED BY <1>f, <2>1, <4>1, <4>2, <4>3
    <3>3. poll' = [poll EXCEPT ![p] = r]
      BY <3>1, <1>a DEF MoveTo
    <3>4. QED BY <1>6, <3>2, <3>3, PollMoves DEF LookUp
  <2>3. CASE poll[p].node \notin memories
    <3> DEFINE r == [poll[p] EXCEPT !.pc = "store"]
    <3>1. r \in Poll /\ PollInv(r, memories, answered)
      BY <1>a, <1>6 DEF LookUp, Poll, PollInv, Working
    <3>2. QED BY <1>6, <2>3, <3>1, PollMoves DEF LookUp
  <2>4. QED BY <2>2, <2>3
<1>7. ASSUME NEW p \in Polls, Store(p) PROVE IInv'
  <2>1. poll[p].node \in Tweets
    BY <1>a, <1>7 DEF Store, PollInv
  <2>2. MoveTo(p, Up(poll[p].node))
    BY <1>7 DEF Store
  <2> DEFINE r == [poll[p] EXCEPT !.pc = Up(poll[p].node).pc,
                                  !.node = Up(poll[p].node).node]
  <2>3. memories' = memories \cup {poll[p].node}
    BY <1>7 DEF Store
  <2>4. r \in Poll /\ PollInv(r, memories', answered)
    <3>1. poll[p].cur \in memories' /\ poll[p].cur \notin answered
      BY <1>a, <1>7, <2>3 DEF Store, PollInv, Working
    <3>2. memories' \subseteq Tweets
      BY <1>a, <2>1, <2>3 DEF SharedInv
    <3>3. poll[p].node \leq poll[p].cur
      BY <1>a, <1>7 DEF Store, PollInv
    <3>4. QED BY <1>f, <2>1, <3>1, <3>2, <3>3
  <2>5. poll' = [poll EXCEPT ![p] = r]
    BY <2>2, <1>a DEF MoveTo
  <2>6. SharedInv' /\ answered' = answered
    BY <1>a, <1>7, <2>1, <2>3
    DEF Store, SharedInv, AnsweredIsStored, twitterVars
  <2>7. QED BY <2>3, <2>4, <2>5, <2>6, OnePollMoves
<1>8. ASSUME NEW p \in Polls,
             StoreAncestorRefused(p) \/ ThreadEnds(p)
      PROVE  IInv'
  <2> DEFINE r == [poll[p] EXCEPT !.pc = "decide", !.node = 0]
  <2>1. r \in Poll /\ PollInv(r, memories, answered)
    <3>1. poll[p].cur \in memories /\ poll[p].cur \notin answered
      BY <1>a, <1>8
      DEF StoreAncestorRefused, ThreadEnds, PollInv, Working
    <3>2. memories \subseteq Tweets
      BY <1>a DEF SharedInv
    <3>3. QED BY <1>e, <3>1, <3>2
  <2>2. poll' = [poll EXCEPT ![p] = r]
    BY <1>8, <1>a DEF StoreAncestorRefused, ThreadEnds, MoveTo
  <2>3. QED
    BY <1>8, <2>1, <2>2, PollMoves
    DEF StoreAncestorRefused, ThreadEnds
<1>9. ASSUME NEW p \in Polls, Decline(p) \/ Send(p) \/ SendFails(p)
      PROVE  IInv'
  <2>1. /\ poll[p].cur \in Tweets /\ poll[p].cur \in memories
        /\ poll[p].cur \in 0..MaxTweet
    BY <1>a, <1>b, <1>9 DEF Decline, Send, SendFails, PollInv, Working
  <2>2. /\ poll' = [poll EXCEPT ![p] = [poll[p] EXCEPT !.pc = "loop"]]
        /\ lastCheckedTweetId' = poll[p].cur
        /\ memories' = memories /\ answered' = answered
    BY <1>9 DEF Decline, Send, SendFails, Done, storeVars, historyVars
  <2>3. SharedInv'
    BY <1>a, <1>9, <2>1, <2>2
    DEF Decline, Send, SendFails, SharedInv, AnsweredIsStored, twitterVars,
        storeVars, historyVars, pathVars
  <2>4. QED BY <1>d, <2>2, <2>3, OnePollMoves
<1>10. ASSUME NEW p \in Polls, Respond(p) PROVE IInv'
  <2> DEFINE r == [poll[p] EXCEPT !.pc = "send"]
  <2>1. r \in Poll /\ PollInv(r, memories', answered)
    BY <1>a, <1>10 DEF Respond, Poll, PollInv, Working, storeVars
  <2>2. SharedInv' /\ memories' = memories /\ answered' = answered
    BY <1>a, <1>10
    DEF Respond, SharedInv, AnsweredIsStored, PollInv, Working, twitterVars,
        storeVars, pathVars
  <2>3. poll' = [poll EXCEPT ![p] = r]
    BY <1>10 DEF Respond
  <2>4. QED BY <2>1, <2>2, <2>3, OnePollMoves
<1>11. ASSUME NEW p \in Polls, Save(p) PROVE IInv'
  <2>1. SharedInv' /\ memories' = memories /\ answered' = answered
    BY <1>a, <1>11
    DEF Save, SharedInv, AnsweredIsStored, twitterVars, historyVars, pathVars
  <2>2. QED BY <1>11, <1>c, <2>1, OnePollMoves DEF Save
<1>12. ASSUME NEW p \in Polls, Abort(p) PROVE IInv'
  <2>1. SharedInv' /\ memories' = memories /\ answered' = answered
    BY <1>a, <1>12
    DEF Abort, SharedInv, AnsweredIsStored, twitterVars, storeVars
  <2>2. QED BY <1>12, <1>c, <2>1, OnePollMoves DEF Abort
<1>13. ASSUME Post \/ \E t \in Tweets : StoredByActions(t) PROVE IInv'
  <2>1. SharedInv'
    BY <1>a, <1>13, TwitterAssumption
    DEF Post, StoredByActions, SharedInv, AnsweredIsStored, twitterVars,
        storeVars, historyVars, pathVars
  <2>2. /\ poll' = poll /\ answered' = answered /\ memories \subseteq memories'
    BY <1>13 DEF Post, StoredByActions, storeVars, historyVars
  <2>3. \A p \in Polls : PollInv(poll'[p], memories', answered')
    BY <1>a, <2>2 DEF PollInv
  <2>4. QED BY <1>a, <2>1, <2>2, <2>3 DEF IInv, TypeOK, SharedInv
<1>14. ASSUME CrashAndRestart PROVE IInv'
  <2>1. memories \subseteq memories' /\ memories' \subseteq Tweets
    <3>1. PICK found \in Timelines(posted) : memories' = memories \cup found
      BY <1>14 DEF CrashAndRestart
    <3>2. found \in SUBSET Tweets
      BY DEF Timelines
    <3>3. QED BY <1>a, <3>1, <3>2 DEF SharedInv
  <2>2. SharedInv'
    BY <1>a, <1>14, <2>1, TwitterAssumption
    DEF CrashAndRestart, Timelines, SharedInv, AnsweredIsStored, twitterVars
  <2>3. poll' = [p \in Polls |-> Asleep]
    BY <1>14 DEF CrashAndRestart
  <2>4. poll' \in [Polls -> Poll]
        /\ \A p \in Polls : PollInv(poll'[p], memories', answered')
    BY <1>c, <2>3
  <2>5. QED BY <2>2, <2>4 DEF IInv, TypeOK, SharedInv
<1>15. ASSUME UNCHANGED vars PROVE IInv'
  BY <1>15
  DEF vars, IInv, TypeOK, AnsweredIsStored, twitterVars, storeVars,
      historyVars, pathVars
<1>16. QED
  BY <1>1, <1>2, <1>3, <1>4, <1>5, <1>6, <1>7, <1>8, <1>9, <1>10, <1>11,
     <1>12, <1>13, <1>14, <1>15 DEF Next, PollStep

\* A tweet that has been answered is in the database.
THEOREM AnsweredTweetsAreStored == Spec => []AnsweredIsStored
<1>1. IInv => AnsweredIsStored
  BY DEF IInv
<1>2. QED BY <1>1, InitIInv, NextIInv, PTL DEF Spec

\* No tweet answered before a crash is answered again after it, whatever the
\* polls, the faults and the stale lastCheckedTweetId.
THEOREM NoSecondReplyAfterRestart == Spec => NoReplyAfterRestart
<1>1. IInv /\ [Next]_vars
        => [\A t \in answered : replies'[t] = replies[t]]_vars
  <2> SUFFICES ASSUME IInv, Next, NEW t \in answered
               PROVE  replies'[t] = replies[t]
    OBVIOUS
  <2>1. ASSUME NEW p \in Polls, Send(p) PROVE replies'[t] = replies[t]
    BY <2>1 DEF Send, IInv, TypeOK, PollInv, Working
  <2>2. ASSUME NEW p \in Polls, PollStep(p), ~Send(p)
        PROVE  UNCHANGED replies
    BY <2>2
    DEF PollStep, FetchMentions, FetchTargets, NextTweet, CheckMemory,
        LookUp, Store, StoreAncestorRefused, ThreadEnds, Decline,
        Respond, SendFails, Save, Abort, twitterVars
  <2>3. QED
    BY <2>1, <2>2
    DEF Next, StartPoll, Post, StoredByActions, CrashAndRestart, twitterVars
<1>2. QED BY <1>1, InitIInv, NextIInv, PTL DEF Spec, NoReplyAfterRestart

\* What a step does to the replies: only a reply changes them.
LEMMA OnlySendReplies ==
    ASSUME IInv, Next
    PROVE  \/ \E p \in Polls : Send(p)
           \/ UNCHANGED replies
<1>1. ASSUME NEW p \in Polls, PollStep(p), ~Send(p) PROVE UNCHANGED replies
  BY <1>1
  DEF PollStep, FetchMentions, FetchTargets, NextTweet, CheckMemory, LookUp,
      Store, StoreAncestorRefused, ThreadEnds, Decline, Respond, SendFails,
      Save, Abort, twitterVars
<1>2. QED
  BY <1>1
  DEF Next, StartPoll, Post, StoredByActions, CrashAndRestart, PollStep,
      twitterVars

\* The steps after which a poll is not at work on a tweet.
LEMMA RestingSteps ==
    ASSUME poll \in [Polls -> Poll], NEW p \in Polls,
           \/ StartPoll(p) \/ FetchMentions(p) \/ FetchTargets(p) \/ NextTweet(p)
           \/ Decline(p) \/ Send(p) \/ SendFails(p) \/ Save(p) \/ Abort(p)
    PROVE  poll'[p].pc \notin Working
<1>1. CASE StartPoll(p) \/ FetchMentions(p)
  BY <1>1 DEF StartPoll, FetchMentions, Working, Poll
<1>2. CASE FetchTargets(p)
  BY <1>2 DEF FetchTargets, Working, Poll
<1>3. CASE NextTweet(p)
  <2>1. CASE poll' = [poll EXCEPT ![p].pc = "save"]
    BY <2>1 DEF Working, Poll
  <2>2. ASSUME NEW t \in poll[p].todo, NEW where \in {"check", "loop"},
               poll' = [poll EXCEPT ![p].pc = where, ![p].cur = t,
                                    ![p].todo = @ \ {t}]
        PROVE  poll'[p].pc \notin Working
    BY <2>2 DEF Working, Poll
  <2>3. QED BY <1>3, <2>1, <2>2 DEF NextTweet
<1>4. CASE Decline(p) \/ Send(p) \/ SendFails(p)
  BY <1>4 DEF Decline, Send, SendFails, Done, Working, Poll
<1>5. CASE Save(p) \/ Abort(p)
  BY <1>5 DEF Save, Abort, Asleep, Working
<1>6. QED BY <1>1, <1>2, <1>3, <1>4, <1>5

\* A poll that works on a tweet after a step did so before, or has found the
\* tweet missing from the database.
LEMMA WorkGoesOn ==
    ASSUME IInv, [Next]_vars, NEW q \in Polls, poll'[q].pc \in Working
    PROVE  \/ poll[q].pc \in Working /\ poll'[q].cur = poll[q].cur
           \/ poll'[q].cur \notin memories /\ poll'[q].pc = "look"
<1>1. poll \in [Polls -> Poll]
  BY DEF IInv, TypeOK
<1>2. ASSUME NEW p \in Polls, StartPoll(p) \/ PollStep(p)
      PROVE  \/ poll'[q].cur = poll[q].cur /\ poll[q].pc \in Working
             \/ poll'[q].cur \notin memories /\ poll'[q].pc = "look"
  <2>1. CASE q # p
    BY <2>1, <1>1, <1>2
    DEF PollStep, StartPoll, FetchMentions, FetchTargets, NextTweet,
        CheckMemory, LookUp, Store, StoreAncestorRefused, ThreadEnds, Decline,
        Respond, Send, SendFails, Save, Abort, MoveTo, Done
  <2>2. CASE q = p
    <3>1. ASSUME StartPoll(p) \/ FetchMentions(p) \/ FetchTargets(p)
                 \/ NextTweet(p) \/ Decline(p) \/ Send(p) \/ SendFails(p)
                 \/ Save(p) \/ Abort(p)
          PROVE  poll'[p].pc \notin Working
      BY <3>1, <1>1, RestingSteps
    <3>2. CASE CheckMemory(p)
      BY <3>2, <2>2, <1>1 DEF CheckMemory, Working, Poll
    <3>3. CASE LookUp(p) \/ Store(p) \/ StoreAncestorRefused(p)
               \/ ThreadEnds(p) \/ Respond(p)
      BY <3>3, <2>2, <1>1
      DEF LookUp, Store, StoreAncestorRefused, ThreadEnds, Respond, MoveTo,
          Working, Poll
    <3>4. QED BY <3>1, <3>2, <3>3, <2>2, <1>2 DEF PollStep
  <2>3. QED BY <2>1, <2>2
<1>3. ASSUME Post \/ (\E t \in Tweets : StoredByActions(t)) \/ UNCHANGED vars
      PROVE  UNCHANGED poll
  BY <1>3 DEF Post, StoredByActions, vars
<1>4. ASSUME CrashAndRestart PROVE poll'[q].pc \notin Working
  BY <1>4 DEF CrashAndRestart, Asleep, Working
<1>5. QED BY <1>2, <1>3, <1>4 DEF Next

\* What the histories hold they keep.
Explained == decided \cup elsewhere \cup threaded \cup cut

LEMMA StaysExplained ==
    ASSUME [Next]_vars
    PROVE  Explained \subseteq Explained'
<1>1. ASSUME NEW p \in Polls, StartPoll(p) \/ PollStep(p)
      PROVE  Explained \subseteq Explained'
  BY <1>1
  DEF PollStep, StartPoll, FetchMentions, FetchTargets, NextTweet, CheckMemory,
      LookUp, Store, StoreAncestorRefused, ThreadEnds, Decline, Respond, Send,
      SendFails, Save, Abort, historyVars, pathVars, Explained
<1>2. QED
  BY <1>1
  DEF Next, Post, StoredByActions, CrashAndRestart, vars, historyVars, pathVars,
      Explained

\* A poll that moves up the thread of a tweet is still at that tweet.
LEMMA ClimbingIsAtHand ==
    ASSUME IInv, NEW p \in Polls, poll[p].pc \in {"look", "store"},
           NEW t, t = poll[p].cur, MoveTo(p, Up(poll[p].node))
    PROVE  AtHand(p, t)'
<1>1. poll \in [Polls -> Poll] /\ poll[p] \in Poll
  BY DEF IInv, TypeOK
<1>2. poll[p].node \in Tweets /\ poll[p].node \leq poll[p].cur
  BY DEF IInv, PollInv
<1>3. /\ poll'[p].pc = Up(poll[p].node).pc
      /\ poll'[p].node = Up(poll[p].node).node
      /\ poll'[p].cur = poll[p].cur
  BY <1>1 DEF MoveTo, Poll
<1>4. CASE Up(poll[p].node) = [pc |-> "decide", node |-> 0]
  BY <1>3, <1>4 DEF AtHand
<1>5. CASE /\ Up(poll[p].node) = [pc |-> "look", node |-> parent[poll[p].node]]
           /\ parent[poll[p].node] \in Tweets
           /\ parent[poll[p].node] < poll[p].node
  <2>1. poll[p].cur \in Nat
    BY <1>1, TwitterAssumption DEF Poll
  <2>2. parent[poll[p].node] # poll[p].cur
    BY <1>2, <1>5, <2>1 DEF Tweets
  <2>3. QED BY <1>3, <1>5, <2>2 DEF AtHand
<1>6. QED BY <1>2, <1>4, <1>5, UpThread

\* A tweet at hand stays at hand until it is decided on or cut off.
LEMMA HandGoesOn ==
    ASSUME IInv, NEW p \in Polls, NEW t \in Tweets, AtHand(p, t),
           StartPoll(p) \/ PollStep(p)
    PROVE  AtHand(p, t)' \/ t \in Explained'
<1>1. poll \in [Polls -> Poll] /\ poll[p] \in Poll
  BY DEF IInv, TypeOK
<1>2. poll[p].cur = t /\ poll[p].pc \in {"decide", "look", "store"}
  BY DEF AtHand
<1>3. CASE LookUp(p)
  <2>1. CASE poll[p].node \in memories
    BY <1>2, <1>3, <2>1, ClimbingIsAtHand DEF LookUp
  <2>2. CASE poll[p].node \notin memories
    BY <1>1, <1>3, <2>2 DEF LookUp, AtHand, Poll
  <2>3. QED BY <2>1, <2>2
<1>4. CASE Store(p)
  BY <1>2, <1>4, ClimbingIsAtHand DEF Store
<1>5. CASE StoreAncestorRefused(p) \/ ThreadEnds(p)
  <2>1. MoveTo(p, [pc |-> "decide", node |-> 0])
    BY <1>5 DEF StoreAncestorRefused, ThreadEnds
  <2>2. poll'[p].pc = "decide" /\ poll'[p].cur = poll[p].cur
    BY <1>1, <2>1 DEF MoveTo, Poll
  <2>3. QED BY <1>2, <2>2 DEF AtHand
<1>6. CASE Decline(p) \/ Respond(p)
  BY <1>2, <1>6 DEF Decline, Respond, Explained
<1>7. CASE Abort(p)
  BY <1>7 DEF Abort, Explained
<1>8. CASE \/ StartPoll(p) \/ FetchMentions(p) \/ FetchTargets(p)
           \/ NextTweet(p) \/ CheckMemory(p) \/ Send(p) \/ SendFails(p)
           \/ Save(p)
  BY <1>2, <1>8
  DEF StartPoll, FetchMentions, FetchTargets, NextTweet, CheckMemory, Send,
      SendFails, Save
<1>9. QED BY <1>3, <1>4, <1>5, <1>6, <1>7, <1>8 DEF PollStep

\* The other polls stay where they are.
LEMMA OthersStay ==
    ASSUME IInv, NEW p \in Polls, NEW q \in Polls, q # p,
           StartPoll(p) \/ PollStep(p)
    PROVE  poll'[q] = poll[q]
<1>1. poll \in [Polls -> Poll]
  BY DEF IInv, TypeOK
<1>2. QED
  BY <1>1
  DEF PollStep, StartPoll, FetchMentions, FetchTargets, NextTweet, CheckMemory,
      LookUp, Store, StoreAncestorRefused, ThreadEnds, Decline, Respond, Send,
      SendFails, Save, Abort, MoveTo, Done

\* Where a tweet that is new in the database comes from.
LEMMA NewlyStored ==
    ASSUME IInv, [Next]_vars, NEW t \in memories', t \notin memories
    PROVE  t \in Explained' \/ \E p \in Polls : AtHand(p, t)'
<1>1. ASSUME NEW p \in Polls, Store(p)
      PROVE  t \in Explained' \/ AtHand(p, t)'
  <2>1. t = poll[p].node
    BY <1>1 DEF Store
  <2>2. CASE poll[p].node = poll[p].cur
    BY <1>1, <2>1, <2>2, ClimbingIsAtHand DEF Store
  <2>3. CASE poll[p].node # poll[p].cur
    BY <1>1, <2>1, <2>3 DEF Store, Explained
  <2>4. QED BY <2>2, <2>3
<1>2. ASSUME NEW p \in Polls, StartPoll(p) \/ PollStep(p), ~Store(p)
      PROVE  memories' = memories
  BY <1>2
  DEF PollStep, StartPoll, FetchMentions, FetchTargets, NextTweet, CheckMemory,
      LookUp, StoreAncestorRefused, ThreadEnds, Decline, Respond, Send,
      SendFails, Save, Abort, storeVars
<1>3. CASE Post \/ UNCHANGED vars
  BY <1>3 DEF Post, vars, storeVars
<1>4. CASE (\E u \in Tweets : StoredByActions(u)) \/ CrashAndRestart
  BY <1>4 DEF StoredByActions, CrashAndRestart, Explained
<1>5. QED BY <1>1, <1>2, <1>3, <1>4 DEF Next

\* A stored tweet, which the polls will skip from then on, has been decided on,
\* is still in the hands of a poll, or is lost for one of the four reasons.
THEOREM StoredTweetsAreDecided == Spec => []StoredIsDecided
<1>1. Init => StoredIsDecided
  BY DEF Init, StoredIsDecided
<1>2. IInv /\ StoredIsDecided /\ [Next]_vars => StoredIsDecided'
  <2> SUFFICES ASSUME IInv, StoredIsDecided, [Next]_vars, NEW t \in memories'
               PROVE  t \in Explained' \/ \E p \in Polls : AtHand(p, t)'
    BY DEF StoredIsDecided, Explained
  <2>1. CASE t \notin memories
    BY <2>1, NewlyStored
  <2>2. CASE t \in Explained
    BY <2>2, StaysExplained
  <2>3. ASSUME NEW q \in Polls, AtHand(q, t), t \in memories
        PROVE  t \in Explained' \/ AtHand(q, t)'
    <3>1. t \in Tweets
      BY <2>3 DEF IInv, TypeOK
    <3>2. ASSUME NEW p \in Polls, StartPoll(p) \/ PollStep(p)
          PROVE  t \in Explained' \/ AtHand(q, t)'
      <4>1. CASE q = p
        BY <2>3, <3>1, <3>2, <4>1, HandGoesOn
      <4>2. CASE q # p
        BY <2>3, <3>2, <4>2, OthersStay DEF AtHand
      <4>3. QED BY <4>1, <4>2
    <3>3. CASE CrashAndRestart
      BY <2>3, <3>1, <3>3 DEF CrashAndRestart, Explained
    <3>4. CASE Post \/ (\E u \in Tweets : StoredByActions(u)) \/ UNCHANGED vars
      BY <2>3, <3>4 DEF Post, StoredByActions, vars, AtHand
    <3>5. QED BY <3>2, <3>3, <3>4 DEF Next
  <2>4. QED BY <2>1, <2>2, <2>3 DEF StoredIsDecided, Explained
<1>3. QED BY <1>1, <1>2, InitIInv, NextIInv, PTL DEF Spec

\* The polls at work on a tweet.
InHand(t) == {p \in Polls : poll[p].pc \in Working /\ poll[p].cur = t}

\* Each poll that found a tweet missing from the database answers it once at
\* most, and once the tweet is stored no other poll takes it up.
Counted == \A t \in Tweets : replies[t] + Cardinality(InHand(t)) <= Cardinality(Polls)

\* The polls at work on a tweet are finite in number.
LEMMA FewInHand ==
    ASSUME NEW t
    PROVE  /\ IsFiniteSet(InHand(t)) /\ Cardinality(InHand(t)) \in Nat
           /\ IsFiniteSet(InHand(t)') /\ Cardinality(InHand(t)') \in Nat
           /\ Cardinality(InHand(t)') <= Cardinality(Polls)
           /\ Cardinality(InHand(t)) <= Cardinality(Polls)
           /\ Cardinality(Polls) \in Nat
<1>1. InHand(t) \in SUBSET Polls /\ InHand(t)' \in SUBSET Polls
  BY DEF InHand
<1>2. IsFiniteSet(Polls)
  BY TwitterAssumption
<1>3. QED BY <1>1, <1>2, FS_Subset, FS_CardinalityType

\* No tweet has more replies than there were polls that overlapped, over all
\* crashes and restarts; so only one where polls do not overlap.
THEOREM NoMoreRepliesThanPolls == Spec => []OneReplyPerPoll
<1>1. Init => Counted
  <2> SUFFICES ASSUME Init, NEW t \in Tweets
               PROVE  replies[t] + Cardinality(InHand(t)) <= Cardinality(Polls)
    BY DEF Counted
  <2>1. replies[t] = 0
    BY DEF Init
  <2>2. QED BY <2>1, FewInHand
<1>2. IInv /\ Counted /\ [Next]_vars => Counted'
  <2> SUFFICES ASSUME IInv, Counted, [Next]_vars, NEW t \in Tweets
               PROVE  replies'[t] + Cardinality(InHand(t)') <= Cardinality(Polls)
    BY DEF Counted
  <2>1. replies[t] \in Nat /\ replies[t] + Cardinality(InHand(t)) <= Cardinality(Polls)
    BY DEF Counted, IInv, TypeOK
  <2>2. CASE t \notin memories
    <3>1. replies[t] = 0
      BY <2>1, <2>2 DEF IInv, AnsweredIsStored
    <3>2. ASSUME NEW p \in Polls, Send(p) PROVE replies'[t] = replies[t]
      BY <3>2, <2>2 DEF Send, IInv, TypeOK, PollInv
    <3>3. replies'[t] = 0
      BY <3>1, <3>2, OnlySendReplies DEF vars, twitterVars
    <3>4. QED BY <3>3, FewInHand
  <2>3. CASE t \in memories
    <3>1. InHand(t)' \subseteq InHand(t)
      BY <2>3, WorkGoesOn DEF InHand
    <3>2. CASE UNCHANGED replies
      <4>1. Cardinality(InHand(t)') <= Cardinality(InHand(t))
        BY <3>1, FewInHand, FS_Subset
      <4>2. QED BY <4>1, <3>2, <2>1, FewInHand
    <3>3. ASSUME NEW p \in Polls, Send(p)
          PROVE  replies'[t] + Cardinality(InHand(t)') <= Cardinality(Polls)
      <4>1. CASE poll[p].cur # t
        <5>1. replies'[t] = replies[t]
          BY <3>3, <4>1 DEF Send, IInv, TypeOK
        <5>2. Cardinality(InHand(t)') <= Cardinality(InHand(t))
          BY <3>1, FewInHand, FS_Subset
        <5>3. QED BY <5>1, <5>2, <2>1, FewInHand
      <4>2. CASE poll[p].cur = t
        <5>1. replies'[t] = replies[t] + 1
          BY <3>3, <4>2 DEF Send, IInv, TypeOK
        <5>2. p \in InHand(t) /\ p \notin InHand(t)'
          BY <3>3, <4>2 DEF Send, Done, InHand, Working, IInv, TypeOK
        <5>3. InHand(t)' \in SUBSET (InHand(t) \ {p})
          BY <5>2, <3>1
        <5>4. /\ IsFiniteSet(InHand(t) \ {p})
              /\ Cardinality(InHand(t) \ {p}) = Cardinality(InHand(t)) - 1
          BY <5>2, FewInHand, FS_RemoveElement
        <5>5. Cardinality(InHand(t)') <= Cardinality(InHand(t)) - 1
          BY <5>3, <5>4, FS_Subset
        <5>6. QED BY <5>1, <5>5, <2>1, FewInHand
      <4>3. QED BY <4>1, <4>2
    <3>4. QED BY <3>2, <3>3, OnlySendReplies DEF vars, twitterVars
  <2>4. QED BY <2>2, <2>3
<1>3. IInv /\ Counted => OneReplyPerPoll
  <2> SUFFICES ASSUME IInv, Counted, NEW t \in Tweets
               PROVE  replies[t] <= Cardinality(Polls)
    BY DEF OneReplyPerPoll
  <2>1. replies[t] \in Nat /\ replies[t] + Cardinality(InHand(t)) <= Cardinality(Polls)
    BY DEF Counted, IInv, TypeOK
  <2>2. QED BY <2>1, FewInHand
<1>4. QED BY <1>1, <1>2, <1>3, InitIInv, NextIInv, PTL DEF Spec
=============================================================================
