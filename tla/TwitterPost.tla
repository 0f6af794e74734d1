---------------------------- MODULE TwitterPost ----------------------------
(***************************************************************************)
(* client-twitter's TwitterPostClient.  start() runs two loops side by     *)
(* side: generateNewTweetLoop (called twice, so two of it) posts the       *)
(* agent's own tweets, and processActionsLoop reads the home timeline and  *)
(* likes, retweets, quotes or answers what it finds there, the agent's own *)
(* posts included.  What tells a tweet that was dealt with from a new one  *)
(* is its memory in the database, which the interaction client and the     *)
(* start of the base client store as well.                                 *)
(*                                                                         *)
(* Each await whose result or effect matters is a step boundary; a crash   *)
(* may fall between any two steps.  The order of the timeline is Twitter's *)
(* and left open, and so are the pauses: a loop wakes at some time.        *)
(* TWITTER_DRY_RUN, POST_IMMEDIATELY (a post before the loops start) and   *)
(* the comparison with lastPost, which only withholds a post, are left out.*)
(***************************************************************************)
EXTENDS Naturals

CONSTANTS
    Others,      \* tweets by other users
    Own,         \* tweets the agent may post (bound)
    Loops,       \* the loops that post: start() makes two
    parent,      \* the tweet that each of Others replies to, or NoTweet
    NoTweet,
    Plans,       \* the sets of actions that the language model may choose
    MaxFaults,   \* rounds or tweets given up for an error (bound)
    MaxCrashes   \* crashes in a behaviour (bound)

Tweets == Others \cup Own
Reactions == {"like", "retweet"}
Answers == {"quote", "reply"}
Actions == Reactions \cup Answers

ASSUME TwitterPostAssumption ==
    /\ Others \cap Own = {}
    /\ NoTweet \notin Tweets
    /\ "wait" \notin Own
    /\ parent \in [Others -> Others \cup {NoTweet}]
    /\ Plans \subseteq SUBSET Actions
    /\ MaxFaults \in Nat
    /\ MaxCrashes \in Nat

VARIABLES
    out,          \* Twitter: the agent's posts
    done,         \* Twitter: what the agent did to each tweet
    memories,     \* database: the tweets stored as memories
    posting,      \* the post that each posting loop has sent and not stored
                  \* yet, if it is not waiting
    isProcessing, \* the client's field
    act,          \* where processActionsLoop is
    cut,          \* history: tweets that were left before they were stored
    faults,       \* rounds or tweets given up so far
    crashes       \* crashes so far

historyVars == <<cut, faults, crashes>>
postVars == <<out, posting>>
actVars == <<isProcessing, act, cut>>
vars == <<out, done, memories, posting, isProcessing, act, historyVars>>

\* pc: where the loop awaits; todo: tweets of the timeline not taken yet; cur:
\* the one being handled; plan: the actions on it not tried yet.
Act == [pc: {"round", "timeline", "loop", "decide", "act", "write", "pause"},
        todo: SUBSET Tweets, cur: Tweets \cup {NoTweet}, plan: SUBSET Actions]

Handling == {"decide", "act", "write"}

At(where) == [pc |-> where, todo |-> {}, cur |-> NoTweet, plan |-> {}]

TypeOK ==
    /\ out \subseteq Own
    /\ done \in [Tweets -> SUBSET Actions]
    /\ memories \subseteq Others \cup out
    /\ posting \in [Loops -> {"wait"} \cup out]
    /\ isProcessing \in BOOLEAN
    /\ act \in Act
    /\ act.todo \subseteq Others \cup out
    /\ act.cur \in Others \cup out \cup {NoTweet}
    /\ cut \subseteq Tweets
    /\ faults \in 0..MaxFaults
    /\ crashes \in 0..MaxCrashes

\* ClientBase.init runs before start() and stores some of the home timeline.
Init ==
    /\ out = {}
    /\ done = [t \in Tweets |-> {}]
    /\ memories \in SUBSET Others
    /\ posting = [l \in Loops |-> "wait"]
    /\ isProcessing = FALSE
    /\ act = At("round")
    /\ cut = {}
    /\ faults = 0
    /\ crashes = 0
-----------------------------------------------------------------------------
(* generateNewTweetLoop, generateNewTweet                                  *)

\* The loop wakes, drafts a post and sends it.  A round that it skips because of
\* lastPost, or a draft that fails before it is out, leaves no trace.
PostSent(l) ==
    /\ posting[l] = "wait"
    /\ \E t \in Own \ out :
          /\ out' = out \cup {t}
          /\ posting' = [posting EXCEPT ![l] = t]
    /\ UNCHANGED <<done, memories, actVars, faults, crashes>>

\* lastPost, the tweet cache, the room and, last, the memory are written.
PostStored(l) ==
    /\ posting[l] \in Own
    /\ memories' = memories \cup {posting[l]}
    /\ posting' = [posting EXCEPT ![l] = "wait"]
    /\ UNCHANGED <<out, done, actVars, faults, crashes>>

\* An error between the post and its memory is caught, and the memory is lost.
PostFails(l) ==
    /\ posting[l] # "wait"
    /\ posting' = [posting EXCEPT ![l] = "wait"]
    /\ UNCHANGED <<out, done, memories, actVars, faults, crashes>>

-----------------------------------------------------------------------------
(* processActionsLoop, processTweetActions                                 *)

loopVars == <<postVars, crashes>>

Fault == faults < MaxFaults /\ faults' = faults + 1

\* isProcessing makes the call return null, and the loop calls again at once.
BeginRound ==
    /\ act.pc = "round"
    /\ ~isProcessing
    /\ isProcessing' = TRUE
    /\ act' = At("timeline")
    /\ UNCHANGED <<done, memories, historyVars, postVars>>

\* fetchTimelineForActions: some of the tweets there are.
FetchTimeline ==
    /\ act.pc = "timeline"
    /\ \E found \in SUBSET (Others \cup out) :
          act' = [At("loop") EXCEPT !.todo = found]
    /\ UNCHANGED <<done, memories, isProcessing, historyVars, postVars>>

\* It or ensureUserExists throws; the loop waits for 30 seconds.
RoundFails ==
    /\ act.pc = "timeline"
    /\ Fault
    /\ isProcessing' = FALSE
    /\ act' = At("pause")
    /\ UNCHANGED <<done, memories, cut, loopVars>>

\* Mutation of TakeTweet: the memory is not looked up.
TakeTweet_Unseen ==
    /\ act.pc = "loop"
    /\ \E t \in act.todo :
          act' = [act EXCEPT !.pc = "decide", !.cur = t, !.todo = @ \ {t}]
    /\ UNCHANGED <<done, memories, isProcessing, historyVars, postVars>>

\* Mutation of TakeTweet: a tweet with a memory is looked at again and again.
TakeTweet_SameAgain ==
    /\ act.pc = "loop"
    /\ \E t \in act.todo :
          act' = IF t \in memories
                 THEN act
                 ELSE [act EXCEPT !.pc = "decide", !.cur = t, !.todo = @ \ {t}]
    /\ UNCHANGED <<done, memories, isProcessing, historyVars, postVars>>

\* The next tweet; one with a memory is skipped.
TakeTweet ==
    /\ act.pc = "loop"
    /\ \E t \in act.todo :
          act' = IF t \in memories
                 THEN [act EXCEPT !.todo = @ \ {t}]
                 ELSE [act EXCEPT !.pc = "decide", !.cur = t, !.todo = @ \ {t}]
    /\ UNCHANGED <<done, memories, isProcessing, historyVars, postVars>>

EndRound ==
    /\ act.pc = "loop"
    /\ act.todo = {}
    /\ isProcessing' = FALSE
    /\ act' = At("pause")
    /\ UNCHANGED <<done, memories, historyVars, postVars>>

\* generateTweetActions.
Decide ==
    /\ act.pc = "decide"
    /\ \E plan \in Plans : act' = [act EXCEPT !.pc = "act", !.plan = plan]
    /\ UNCHANGED <<done, memories, isProcessing, historyVars, postVars>>

\* Actions are tried in this order.
Rank == [like |-> 1, retweet |-> 2, quote |-> 3, reply |-> 4]
IsNext(a) == a \in act.plan /\ \A b \in act.plan : Rank[a] \leq Rank[b]

Tried(a) == act' = [act EXCEPT !.pc = "act", !.plan = @ \ {a}]

\* likeTweet, retweet.
React(a) ==
    /\ act.pc = "act"
    /\ a \in Reactions
    /\ IsNext(a)
    /\ done' = [done EXCEPT ![act.cur] = @ \cup {a}]
    /\ Tried(a)
    /\ UNCHANGED <<memories, isProcessing, historyVars, postVars>>

\* Whatever fails in an action is caught, and the next one is tried: the call
\* to Twitter, the thread, an image, the model, or a reply without text.
ActionFails(a) ==
    /\ act.pc \in {"act", "write"}
    /\ IsNext(a)
    /\ Tried(a)
    /\ UNCHANGED <<done, memories, isProcessing, historyVars, postVars>>

ParentOf(t) == IF t \in Others THEN parent[t] ELSE NoTweet

\* The tweets above t in its thread, as far as it can be fetched: each is the
\* parent of t or of another one of them.
ThreadsAbove(t) ==
    {thread \in SUBSET Others :
        \A u \in thread : u \in {ParentOf(v) : v \in thread \cup {t}}}

\* buildConversationThread stores the tweet first and then its ancestors, as
\* far as they can be fetched.
BuildThread(a) ==
    /\ act.pc = "act"
    /\ a \in Answers
    /\ IsNext(a)
    /\ \E thread \in ThreadsAbove(act.cur) :
          memories' = memories \cup {act.cur} \cup thread
    /\ act' = [act EXCEPT !.pc = "write"]
    /\ UNCHANGED <<done, isProcessing, historyVars, postVars>>

\* sendQuoteTweet, sendTweet.
SendAnswer(a) ==
    /\ act.pc = "write"
    /\ a \in Answers
    /\ IsNext(a)
    /\ done' = [done EXCEPT ![act.cur] = @ \cup {a}]
    /\ Tried(a)
    /\ UNCHANGED <<memories, isProcessing, historyVars, postVars>>

\* The model has no text for a quote: processTweetActions returns at once,
\* without results, so the loop does not wait before the next round.
EmptyQuote ==
    /\ act.pc = "write"
    /\ IsNext("quote")
    /\ isProcessing' = FALSE
    /\ act' = At("round")
    /\ UNCHANGED <<done, memories, historyVars, postVars>>

\* Mutation of StoreTweet: the memory is not created.
StoreTweet_Nothing ==
    /\ act.pc = "act"
    /\ act.plan = {}
    /\ act' = [act EXCEPT !.pc = "loop", !.cur = NoTweet]
    /\ UNCHANGED <<done, memories, isProcessing, historyVars, postVars>>

\* All actions tried, the memory is created if there is none.
StoreTweet ==
    /\ act.pc = "act"
    /\ act.plan = {}
    /\ memories' = memories \cup {act.cur}
    /\ act' = [act EXCEPT !.pc = "loop", !.cur = NoTweet]
    /\ UNCHANGED <<done, isProcessing, historyVars, postVars>>

\* Something outside the actions throws: the tweet is given up.
TweetFails ==
    /\ \/ act.pc \in {"loop", "decide"}
       \/ act.pc = "act" /\ act.plan = {}
    /\ Fault
    /\ \/ act.pc # "loop" /\ act' = [act EXCEPT !.pc = "loop", !.cur = NoTweet]
       \/ \E t \in act.todo :
             act.pc = "loop" /\ act' = [act EXCEPT !.todo = @ \ {t}]
    /\ cut' = cut \cup ({act.cur} \ (memories \cup {NoTweet}))
    /\ UNCHANGED <<done, memories, isProcessing, loopVars>>

Wake ==
    /\ act.pc = "pause"
    /\ act' = At("round")
    /\ UNCHANGED <<done, memories, isProcessing, historyVars, postVars>>
-----------------------------------------------------------------------------
\* The interaction client builds a thread with this tweet in it.
StoredByInteractions(t) ==
    /\ t \notin memories
    /\ memories' = memories \cup {t}
    /\ UNCHANGED <<postVars, done, isProcessing, act, historyVars>>

\* The process dies and starts again; populateTimeline stores what it finds.
CrashAndRestart ==
    /\ crashes < MaxCrashes
    /\ crashes' = crashes + 1
    /\ posting' = [l \in Loops |-> "wait"]
    /\ isProcessing' = FALSE
    /\ act' = At("round")
    /\ \E found \in SUBSET (Others \cup out) : memories' = memories \cup found
    /\ cut' = cut \cup ({act.cur} \ (memories \cup {NoTweet}))
    /\ UNCHANGED <<out, done, faults>>

PostStep(l) == PostSent(l) \/ PostStored(l) \/ PostFails(l)

ActStep ==
    \/ BeginRound \/ FetchTimeline \/ RoundFails \/ TakeTweet \/ EndRound
    \/ Decide \/ EmptyQuote \/ StoreTweet \/ TweetFails \/ Wake
    \/ \E a \in Actions :
          React(a) \/ ActionFails(a) \/ BuildThread(a) \/ SendAnswer(a)

Next ==
    \/ \E l \in Loops : PostStep(l)
    \/ ActStep
    \/ \E t \in Others : StoredByInteractions(t)
    \/ CrashAndRestart

Spec == Init /\ [][Next]_vars

\* Every await of the actions loop ends, and its pauses do.
FairSpec == Spec /\ WF_vars(ActStep)
-----------------------------------------------------------------------------
\* Over all rounds, errors and restarts a tweet is quoted at most once and
\* answered at most once by the actions loop: buildConversationThread stores it
\* before anything is sent.
AnsweredOnce ==
    [][\A a \in Answers : SendAnswer(a) => a \notin done[act.cur]]_vars

\* A like or retweet precedes the memory, so it may be repeated, but only on a
\* tweet that an error or a crash cut off before it was stored.
ReactsAgainOnlyAfterLoss ==
    [][\A a \in Reactions :
          (React(a) /\ a \in done[act.cur]) => act.cur \in cut]_vars

\* What makes it so: an action still to be tried was not done before, unless it
\* is a reaction whose memory was lost; and a tweet with something done to it is
\* stored, lost, or being handled, and stored if it was answered.
Pending == IF act.pc = "decide" THEN Actions ELSE act.plan

IInv ==
    /\ TypeOK
    /\ \A t \in Tweets : done[t] \cap Answers # {} => t \in memories
    /\ \A t \in Tweets :
          \/ done[t] = {}
          \/ t \in memories \cup cut
          \/ t = act.cur /\ act.pc \in Handling
    /\ act.pc \in Handling =>
          /\ act.cur # NoTweet
          /\ \A a \in Pending \cap done[act.cur] :
                a \in Reactions /\ act.cur \in cut
    /\ act.pc = "write" => act.cur \in memories

\* Rounds go on, whatever failed before ("finally" and the loop's catch).
RoundsGoOn == []<>(act.pc = "timeline")

\* A tweet that the timeline keeps showing is stored in the end, although a
\* round may be given up at any tweet that the model has no quote for.
ShownIsStored ==
    \A t \in Others : []<>(t \in act.todo) => <>(t \in memories)
=============================================================================
