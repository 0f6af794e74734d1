------------------------ MODULE TwitterInteractions -------------------------
(***************************************************************************)
(* client-twitter's TwitterInteractionClient: every TWITTER_POLL_INTERVAL  *)
(* seconds start() fires handleTwitterInteractions() without awaiting it,  *)
(* so a poll that is still talking to the language model or to Twitter     *)
(* overlaps the next one.  All polls share the database (memories), the    *)
(* cache and the client's lastCheckedTweetId; a crash loses the last one   *)
(* and every poll, and a restart reloads it from the cache and stores the  *)
(* tweets it finds (ClientBase.init, populateTimeline).  The memories have *)
(* another writer, TwitterPost's loop of actions, which stores the tweets  *)
(* of the home timeline it has dealt with, mentions included.              *)
(*                                                                         *)
(* A tweet is its id, a number that grows with time; 0 is "null".  Each    *)
(* await of the code is a step boundary.  A memory is kept under a key     *)
(* made of the tweet's id, so the table is the set of stored tweets.       *)
(* The list of candidates is a set taken in ascending order: the code may  *)
(* hold a tweet twice, next to each other, and by the time it comes to the *)
(* second one the tweet is stored and skipped.                             *)
(***************************************************************************)
EXTENDS Naturals, FiniteSets

CONSTANTS
    Polls,        \* the polls that may be in progress together
    MaxTweet,     \* tweets are 1..MaxTweet (bound)
    Mentions,     \* those that mention the bot
    TargetTweets, \* for each user of TWITTER_TARGET_USERS, their tweets
    OwnTweets,    \* those by the bot itself
    parent,       \* the tweet each one replies to, 0 if none
    PageSize,     \* most mentions one search returns (20)
    MaxCrashes,   \* crashes in a behaviour (bound)
    Faulty        \* may database calls, searches and sends fail?

Tweets == 1..MaxTweet

ASSUME TwitterAssumption ==
    /\ IsFiniteSet(Polls)
    /\ MaxTweet \in Nat
    /\ Mentions \subseteq Tweets
    /\ TargetTweets \subseteq SUBSET Tweets
    /\ OwnTweets \subseteq Tweets
    /\ parent \in [Tweets -> 0..MaxTweet]
    /\ \A t \in Tweets : parent[t] < t
    /\ PageSize \in Nat
    /\ MaxCrashes \in Nat
    /\ Faulty \in BOOLEAN

VARIABLES
    posted,       \* Twitter: the newest tweet there is
    replies,      \* Twitter: how many replies of these polls each tweet has
    memories,     \* database: the tweets stored as memories
    cachedId,     \* cache: latest_checked_tweet_id
    lastCheckedTweetId,  \* the client's field
    poll,         \* the polls in progress
    decided,      \* history: tweets a poll took a decision on
    backlog,      \* history: the newest tweet at the last start
    answered,     \* history: tweets answered before the last crash
    elsewhere,    \* history: tweets stored by a start or the loop of actions
    threaded,     \* history: tweets stored as part of another one's thread
    cut,          \* history: tweets that a poll had stored and not decided on
                  \* yet when it failed or the process died
    crashes       \* how often the process has crashed

twitterVars == <<posted, replies>>
storeVars == <<memories, cachedId>>
pathVars == <<elsewhere, threaded, cut>>
historyVars == <<decided, backlog, answered, pathVars, crashes>>
vars == <<twitterVars, storeVars, lastCheckedTweetId, poll, historyVars>>

\* pc: where the poll awaits; todo: candidates not taken yet; cur: the one being
\* handled; node: the tweet of its thread that is being stored.
Poll == [pc: {"idle", "mentions", "targets", "loop", "check", "look", "store",
              "decide", "send", "save"},
         todo: SUBSET Tweets, cur: 0..MaxTweet, node: 0..MaxTweet]

Asleep == [pc |-> "idle", todo |-> {}, cur |-> 0, node |-> 0]

TypeOK ==
    /\ posted \in 0..MaxTweet
    /\ replies \in [Tweets -> Nat]
    /\ memories \subseteq Tweets
    /\ cachedId \in 0..MaxTweet
    /\ lastCheckedTweetId \in 0..MaxTweet
    /\ poll \in [Polls -> Poll]
    /\ decided \subseteq Tweets
    /\ backlog \in 0..MaxTweet
    /\ answered \subseteq Tweets
    /\ elsewhere \subseteq Tweets /\ threaded \subseteq Tweets
    /\ cut \subseteq Tweets
    /\ crashes \in 0..MaxCrashes

\* The mentions a search finds: the newest PageSize ones, or none because it
\* was rate-limited or timed out.
Latest(newest) ==
    LET found == {t \in Mentions : t \leq newest}
    IN  {t \in found : Cardinality({u \in found : u > t}) < PageSize}

Found(newest) == {Latest(newest)} \cup (IF Faulty THEN {{}} ELSE {})

\* What populateTimeline stores at a start: tweets of the home timeline and
\* mentions, as many as the two requests return.
Timelines(newest) == SUBSET {t \in Tweets : t \leq newest}

\* The first start finds tweets already.
Init ==
    /\ posted \in 0..MaxTweet
    /\ replies = [t \in Tweets |-> 0]
    /\ memories \in Timelines(posted)
    /\ cachedId = 0
    /\ lastCheckedTweetId = 0
    /\ poll = [p \in Polls |-> Asleep]
    /\ decided = {}
    /\ backlog = posted
    /\ answered = {}
    /\ elsewhere = memories /\ threaded = {} /\ cut = {}
    /\ crashes = 0

Unchecked(t) == lastCheckedTweetId = 0 \/ t > lastCheckedTweetId
-----------------------------------------------------------------------------
\* The timer fires; no poll in progress is waited for.
StartPoll(p) ==
    /\ poll[p].pc = "idle"
    /\ poll' = [poll EXCEPT ![p].pc = "mentions"]
    /\ UNCHANGED <<twitterVars, storeVars, lastCheckedTweetId, historyVars>>

\* The search for mentions returns.
FetchMentions(p) ==
    /\ poll[p].pc = "mentions"
    /\ \E found \in Found(posted) :
          poll' = [poll EXCEPT ![p].pc = "targets", ![p].todo = found]
    /\ UNCHANGED <<twitterVars, storeVars, lastCheckedTweetId, historyVars>>

\* The searches for the target users return: one tweet of each at most, which
\* is no reply and not processed yet, joins the candidates.  (The filter of own
\* tweets that follows the sort is computed and dropped.)
FetchTargets(p) ==
    /\ poll[p].pc = "targets"
    /\ \E chosen \in SUBSET {t \in UNION TargetTweets :
                              t \leq posted /\ parent[t] = 0 /\ Unchecked(t)} :
          /\ \A user \in TargetTweets : Cardinality(chosen \cap user) \leq 1
          /\ poll' = [poll EXCEPT ![p].pc = "loop", ![p].todo = @ \cup chosen]
    /\ UNCHANGED <<twitterVars, storeVars, lastCheckedTweetId, historyVars>>

\* Mutation of NextTweet: the newest candidate is taken first.
NextTweet_NewestFirst(p) ==
    /\ poll[p].pc = "loop"
    /\ \/ /\ poll[p].todo = {}
          /\ poll' = [poll EXCEPT ![p].pc = "save"]
       \/ \E t \in poll[p].todo :
             /\ \A u \in poll[p].todo : t >= u
             /\ poll' = [poll EXCEPT
                   ![p].pc = IF Unchecked(t) THEN "check" ELSE "loop",
                   ![p].cur = t,
                   ![p].todo = @ \ {t}]
    /\ UNCHANGED <<twitterVars, storeVars, lastCheckedTweetId, historyVars>>

\* The loop takes the next candidate.  One not above lastCheckedTweetId, which
\* other polls may have moved meanwhile, is dropped.
NextTweet(p) ==
    /\ poll[p].pc = "loop"
    /\ \/ /\ poll[p].todo = {}
          /\ poll' = [poll EXCEPT ![p].pc = "save"]
       \/ \E t \in poll[p].todo :
             /\ \A u \in poll[p].todo : t \leq u
             /\ poll' = [poll EXCEPT
                   ![p].pc = IF Unchecked(t) THEN "check" ELSE "loop",
                   ![p].cur = t,
                   ![p].todo = @ \ {t}]
    /\ UNCHANGED <<twitterVars, storeVars, lastCheckedTweetId, historyVars>>

\* Mutation of CheckMemory: the database is not asked.
CheckMemory_Skipped(p) ==
    /\ poll[p].pc = "check"
    /\ poll' = [poll EXCEPT ![p].pc = "look", ![p].node = poll[p].cur]
    /\ UNCHANGED <<twitterVars, storeVars, lastCheckedTweetId, historyVars>>

\* existingResponse: a stored tweet counts as answered and is skipped, without
\* moving lastCheckedTweetId.
CheckMemory(p) ==
    /\ poll[p].pc = "check"
    /\ poll' = [poll EXCEPT ![p] =
         IF poll[p].cur \in memories
         THEN [@ EXCEPT !.pc = "loop"]
         ELSE [@ EXCEPT !.pc = "look", !.node = poll[p].cur]]
    /\ UNCHANGED <<twitterVars, storeVars, lastCheckedTweetId, historyVars>>

\* buildConversationThread: is this tweet of the thread stored already?
\* If so, on to the tweet it replies to; at the root the thread is complete.
Up(t) == IF parent[t] = 0 THEN [pc |-> "decide", node |-> 0]
                          ELSE [pc |-> "look", node |-> parent[t]]

MoveTo(p, where) ==
    poll' = [poll EXCEPT ![p].pc = where.pc, ![p].node = where.node]

LookUp(p) ==
    /\ poll[p].pc = "look"
    /\ IF poll[p].node \in memories
       THEN MoveTo(p, Up(poll[p].node))
       ELSE poll' = [poll EXCEPT ![p].pc = "store"]
    /\ UNCHANGED <<twitterVars, storeVars, lastCheckedTweetId, historyVars>>

\* Mutation of Store: the thread is walked but not stored.
Store_Nothing(p) ==
    /\ poll[p].pc = "store"
    /\ MoveTo(p, Up(poll[p].node))
    /\ UNCHANGED <<twitterVars, storeVars, lastCheckedTweetId, historyVars>>

\* createMemory.  If another poll stored the same tweet since the look-up,
\* createMemory sees it and returns, or its insert meets the other row.
Store(p) ==
    /\ poll[p].pc = "store"
    /\ memories' = memories \cup {poll[p].node}
    /\ MoveTo(p, Up(poll[p].node))
    /\ threaded' = IF poll[p].node = poll[p].cur
                   THEN threaded ELSE threaded \cup {poll[p].node}
    /\ UNCHANGED <<twitterVars, cachedId, lastCheckedTweetId>>
    /\ UNCHANGED <<decided, backlog, answered, elsewhere, cut, crashes>>

\* The insert is refused.  For an ancestor that ends the thread only; for the
\* tweet itself it ends the whole poll (Abort).
StoreAncestorRefused(p) ==
    /\ poll[p].pc = "store"
    /\ poll[p].node # poll[p].cur
    /\ poll[p].node \in memories
    /\ MoveTo(p, [pc |-> "decide", node |-> 0])
    /\ UNCHANGED <<twitterVars, storeVars, lastCheckedTweetId, historyVars>>

\* Mutation of ThreadEnds: the tweet is left with its thread.
ThreadEnds_Drops(p) ==
    /\ poll[p].pc = "look"
    /\ poll[p].node # poll[p].cur
    /\ MoveTo(p, [pc |-> "loop", node |-> 0])
    /\ UNCHANGED <<twitterVars, storeVars, lastCheckedTweetId, historyVars>>

\* The parent cannot be fetched, or lies maxReplies levels up: the thread ends
\* there.  (The depth is not counted; the thread may end at any ancestor.)
ThreadEnds(p) ==
    /\ poll[p].pc = "look"
    /\ poll[p].node # poll[p].cur
    /\ MoveTo(p, [pc |-> "decide", node |-> 0])
    /\ UNCHANGED <<twitterVars, storeVars, lastCheckedTweetId, historyVars>>

\* handleTweet returned: the tweet is done with.
Done(p) ==
    /\ poll' = [poll EXCEPT ![p].pc = "loop"]
    /\ lastCheckedTweetId' = poll[p].cur

\* An own tweet, one without text, generateShouldRespond said no, or the model
\* wrote nothing.
Decline(p) ==
    /\ poll[p].pc = "decide"
    /\ Done(p)
    /\ decided' = decided \cup {poll[p].cur}
    /\ UNCHANGED <<twitterVars, storeVars, backlog, answered, pathVars, crashes>>

\* generateShouldRespond said RESPOND and generateMessageResponse has a text.
Respond(p) ==
    /\ poll[p].pc = "decide"
    /\ poll[p].cur \notin OwnTweets
    /\ poll' = [poll EXCEPT ![p].pc = "send"]
    /\ decided' = decided \cup {poll[p].cur}
    /\ UNCHANGED <<twitterVars, storeVars, lastCheckedTweetId>>
    /\ UNCHANGED <<backlog, answered, pathVars, crashes>>

\* The reply is out.  What fails afterwards is caught in handleTweet.
Send(p) ==
    /\ poll[p].pc = "send"
    /\ replies' = [replies EXCEPT ![poll[p].cur] = @ + 1]
    /\ Done(p)
    /\ UNCHANGED <<posted, storeVars, historyVars>>

\* Twitter refuses the reply, or sendTweet throws: caught as well.
SendFails(p) ==
    /\ Faulty
    /\ poll[p].pc = "send"
    /\ Done(p)
    /\ UNCHANGED <<twitterVars, storeVars, historyVars>>

\* cacheLatestCheckedTweetId, once the loop is through.
Save(p) ==
    /\ poll[p].pc = "save"
    /\ cachedId' = IF lastCheckedTweetId = 0 THEN cachedId
                                             ELSE lastCheckedTweetId
    /\ poll' = [poll EXCEPT ![p] = Asleep]
    /\ UNCHANGED <<twitterVars, memories, lastCheckedTweetId, historyVars>>

\* The poll is past the store of t itself and has not decided on it yet.
AtHand(p, t) ==
    /\ poll[p].cur = t
    /\ \/ poll[p].pc = "decide"
       \/ poll[p].pc \in {"look", "store"} /\ poll[p].node # t

\* A database call or the language model throws: the poll's catch ends it, and
\* nothing is cached.  Also an insert of the tweet itself that is refused.
Abort(p) ==
    /\ \/ Faulty /\ poll[p].pc \in {"check", "look", "store", "decide", "save"}
       \/ poll[p].pc = "store" /\ poll[p].node \in memories
    /\ poll[p].pc \in {"look", "store"} => poll[p].node = poll[p].cur
    /\ poll' = [poll EXCEPT ![p] = Asleep]
    /\ cut' = cut \cup {t \in Tweets : AtHand(p, t)}
    /\ UNCHANGED <<twitterVars, storeVars, lastCheckedTweetId>>
    /\ UNCHANGED <<decided, backlog, answered, elsewhere, threaded, crashes>>

\* TwitterPost's loop of actions (processTweetActions) has dealt with a tweet of
\* the home timeline, or with one that replies to it, and stores it; so does the
\* loop that posts, with a tweet of the agent.
StoredByActions(t) ==
    /\ t \leq posted
    /\ t \notin memories
    /\ memories' = memories \cup {t}
    /\ elsewhere' = elsewhere \cup {t}
    /\ UNCHANGED <<twitterVars, cachedId, lastCheckedTweetId, poll>>
    /\ UNCHANGED <<decided, backlog, answered, threaded, cut, crashes>>

\* Somebody tweets.
Post ==
    /\ posted < MaxTweet
    /\ posted' = posted + 1
    /\ UNCHANGED <<replies, storeVars, lastCheckedTweetId, poll, historyVars>>

\* The process dies and starts again: init() reloads lastCheckedTweetId and
\* populateTimeline() stores the tweets it finds.
CrashAndRestart ==
    /\ crashes < MaxCrashes
    /\ crashes' = crashes + 1
    /\ poll' = [p \in Polls |-> Asleep]
    /\ lastCheckedTweetId' = cachedId
    /\ \E found \in Timelines(posted) :
          /\ memories' = memories \cup found
          /\ elsewhere' = elsewhere \cup (found \ memories)
    /\ backlog' = posted
    /\ answered' = {t \in Tweets : replies[t] > 0}
    /\ cut' = cut \cup {t \in Tweets : \E p \in Polls : AtHand(p, t)}
    /\ UNCHANGED <<twitterVars, cachedId, decided, threaded>>

PollStep(p) ==
    \/ FetchMentions(p) \/ FetchTargets(p) \/ NextTweet(p)
    \/ CheckMemory(p) \/ LookUp(p)
    \/ Store(p) \/ StoreAncestorRefused(p) \/ ThreadEnds(p)
    \/ Decline(p) \/ Respond(p) \/ Send(p) \/ SendFails(p) \/ Save(p)
    \/ Abort(p)

Next ==
    \/ \E p \in Polls : StartPoll(p) \/ PollStep(p)
    \/ \E t \in Tweets : StoredByActions(t)
    \/ Post
    \/ CrashAndRestart

Spec == Init /\ [][Next]_vars

\* The timer keeps firing and every await ends.
FairSpec == Spec /\ \A p \in Polls : WF_vars(StartPoll(p) \/ PollStep(p))

-----------------------------------------------------------------------------
\* A tweet the bot has answered is stored, so that whatever happens later the
\* database knows of it.
AnsweredIsStored == \A t \in Tweets : replies[t] > 0 => t \in memories

\* However often the process crashes, and wherever its polls were, a tweet
\* answered before a crash is not answered again after it: lastCheckedTweetId
\* is usually stale after a restart, the memories are not.
NoReplyAfterRestart ==
    [][\A t \in answered : replies'[t] = replies[t]]_vars

\* What makes it so, for the record r of a poll when stored are the tweets in
\* the database and before those answered before the last crash: a poll that
\* builds or has built a tweet's thread found the tweet missing from the
\* database, which never loses one, since the last restart; and a poll past the
\* tweet's own store knows it is there.
Working == {"look", "store", "decide", "send"}

PollInv(r, stored, before) ==
    /\ r.pc = "check" => r.cur \in Tweets
    /\ r.pc \in Working => r.cur \in Tweets /\ r.cur \notin before
    /\ r.pc \in {"decide", "send"} => r.cur \in stored
    /\ r.pc \in {"look", "store"} =>
          /\ r.node \in Tweets /\ r.node \leq r.cur
          /\ r.node # r.cur => r.cur \in stored

IInv ==
    /\ TypeOK
    /\ AnsweredIsStored
    /\ answered \subseteq memories
    /\ \A p \in Polls : PollInv(poll[p], memories, answered)

\* No tweet is answered twice ("Check if we've already processed this tweet").
OneReplyPerTweet == \A t \in Tweets : replies[t] \leq 1

\* A tweet is answered at most once by each of the polls that were in progress
\* when it was first found, over all restarts; so once if polls do not overlap.
OneReplyPerPoll == \A t \in Tweets : replies[t] \leq Cardinality(Polls)

\* A stored tweet counts as answered for ever, although the store comes before
\* the decision.  No tweet gets into that state unseen: a stored tweet has been
\* decided on, a poll is still at it, or it is one of those the code gives up:
\* stored by a start or the loop of actions, stored as part of the thread of
\* another one, or cut off by an error or a crash between store and decision.
StoredIsDecided ==
    \A t \in memories :
        \/ t \in decided \cup elsewhere \cup threaded \cup cut
        \/ \E p \in Polls : AtHand(p, t)

\* t has fallen off the only page of results that a search reads.
Crowded(t) == Cardinality({u \in Mentions : t < u /\ u \leq posted}) >= PageSize

\* Without faults, crashes and target users each mention posted after the start
\* is decided on, unless the loop of actions stores it or it falls off the page
\* of results; also when the polls overlap, one poll's lastCheckedTweetId passes
\* another's candidates, or two of them collide on the insert of a tweet.
MentionsGetDecision ==
    \A t \in Mentions :
        (backlog < t /\ t \leq posted)
            ~> (t \in decided \cup elsewhere \/ Crowded(t))
=============================================================================
