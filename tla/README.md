# TLA+ models of Solmate / eliza

The repository is a Next.js front end (`frontend/`) and a fork of the eliza
agent framework (`eliza/`): a process that runs one or more *agents*, each with
a character, a database, a cache and a set of clients (Twitter, Telegram,
Discord, HTTP, ...) and plugins (Solana, image, video, transcription, ...).
Everything runs in one Node.js process per agent host, so there are no data
races on memory; what is hard is what happens *between two awaits*: handlers
that were started and not awaited, timers that fire while the previous round is
still talking to a language model, check-then-act over the database, a crash
between two writes, and services that go away and come back.

Paths below are relative to `src/eliza/packages/` unless they start with
`src/`.

## 1. Inventory

| Part | State it keeps | Operations | Interacts with | What is hard | What makes it correct |
|---|---|---|---|---|---|
| **Circuit breaker** `core/src/database/CircuitBreaker.ts` | `state`, `failureCount`, `lastFailureTime`, `halfOpenSuccesses` | `execute`, `handleFailure`, `reset` | wrapped around every database call of `adapter-postgres` | any number of calls in flight; results are judged in the state the circuit is in when they arrive | closed exactly while there are few failures; open long enough; recovers when the service does |
| **PostgreSQL adapter** `adapter-postgres/src/index.ts` | the pool, the breaker | `withDatabase` = breaker around `withRetry` around the statement; some 30 methods | the breaker; PostgreSQL | retries behind an open circuit, methods that swallow errors, methods that nest a second `withDatabase` | bounded load while open, closing means recovery, no livelock |
| **Twitter interactions** `client-twitter/src/interactions.ts`, `utils.ts` | `lastCheckedTweetId`, memories in the database, `latest_checked_tweet_id` in the cache | a poll: search, sort, skip what is stored, build the thread, decide, reply | `ClientBase`, the runtime's memories, Twitter | a timer fires polls without awaiting the last; crash anywhere; stale `lastCheckedTweetId` | no second reply, nothing stored that nobody decides on, every mention gets a decision |
| **Twitter base client** `client-twitter/src/base.ts` | request queue, tweet cache, profile, `lastCheckedTweetId` | `RequestQueue.add/processQueue`, `fetchSearchTweets`, `init`, `populateTimeline` | Twitter, cache, database | the queue's worker goes on and off while requests arrive; searches race a timer | order, one send at a time, no stranded request |
| **Twitter posts, search** `client-twitter/src/post.ts`, `search.ts` | `lastPost` in the cache, `isProcessing`, memories | `generateNewTweet` on a timer, `processTweetActions`, `engageWithSearchTerms` (never started) | base client, cache, the memories the interactions store | the posting loop is started twice; crash between the tweet and `lastPost`; acting first and remembering last | a pause between two posts; nothing answered twice; no tweet starved |
| **Agent runtime** `core/src/runtime.ts` | services, actions, providers, evaluators, clients | `initialize`, `stop`, `processActions`, `evaluate`, `ensure*Exists`, `processCharacterKnowledge` | everything | `stop` does not wait; check-then-act in `ensure*` | clients only after services; each participant once |
| **Knowledge** `core/src/knowledge.ts`, `memory.ts` | documents and fragments as memories | `knowledge.set/get`, `createMemory`, `getMemoryById` | runtime start, database | document first, fragments one by one, each after an embedding call; ids shared by all agents | fragments belong to a document; an agent that started knows its knowledge |
| **Cache** `core/src/cache.ts` | key, value, expiry | `get`, `set`, `delete` | file, database or memory adapter | an expired entry is deleted without awaiting the delete | a value set is not lost to a late delete |
| **Media services** `plugin-node/src/services/{video,transcription,image,llama}.ts` | a queue and a `processing` flag each | `processVideo`, `transcribe`, `describeImage`, `queueTextCompletion` | ffmpeg, yt-dlp, local models | callers that poll the queue and then do the job beside the worker; a job that throws; files shared by jobs | no queue without its worker; every caller is answered; a whole transcript, of its own video |
| **HTTP client, agent start** `client-direct/src/{index,api}.ts`, `agent/src/index.ts` | the map of agents | `registerAgent`, `POST /agents/:id/set`, `startAgent` | the runtime | an agent is stopped before its replacement is known to be valid | an id in the map is a running agent |
| **Trust score, trading** `plugin-solana/src/{providers/trustScoreProvider,providers/simulationSellingService}.ts`, `plugin-trustdb` | recommender metrics, token performance, trades, balances | `createTradePerformance`, `updateSellDetails`, `startListeners`, RabbitMQ consumer | SQLite, chain, RabbitMQ | message acknowledged before the work is done; read-modify-write over HTTP calls | a balance is sold once |
| **SQLite / SQL.js / Supabase adapters** | the database | the `IDatabaseAdapter` methods | - | one-statement methods, SQL | (external to the models: atomic statements) |
| **Discord client** `client-discord/src/messages.ts` | the interest in each channel with its last messages, memories | `handleMessage`, not awaited by discord.js | the runtime (`ensureConnection`, `processActions`), the room actions of `plugin-bootstrap` | handlers of several messages at once read and replace one entry; entries age; calls outside the `try` | interested only when asked; the leader answers the team; no error ends the process |
| **Farcaster and Lens clients** `client-farcaster`, `client-lens` | two timers per client object, memories | two loops that re-arm their timer when a round is over; `stop()` | the network, memories | `stop()` during a round; requests that overlap and leave an object unstopped; one failing call; replies in parts; a thread stored before the decision | each mention answered once; the loops go on |
| **Other clients and chain plugins** (`client-{telegram,slack,github}`, `plugin-*`) | per-client maps, intervals | message handlers, posting loops, chain calls | the runtime | same shapes as the Twitter and Discord clients | - |
| **Front end** `src/frontend` | React state | pages, one chat call | the HTTP client | none | - |

## 2. Plan

Order: the components every other one goes through first, then the client with
the most intricate control, then the parts with a queue or a crash window.

1. `BreakerState` / `CircuitBreaker` / `BreakerContract` and the proofs - done.
2. `PostgresAdapter` (composes `BreakerState` with retries and nesting) and the
   proofs - done.
3. `TwitterInteractions` and the proofs - done.
4. `TwitterQueue` and the proofs - done.
5. `AgentLifecycle` (start, knowledge, registration, replacement) and the proofs
   - done.
6. `TwitterPost` (posting loops and the timeline actions) and the proofs - done.
7. `CastClients` (Farcaster and Lens: loops, `stop()`, replacement of the client
   object, threads, replies in parts) and the proofs - done.
8. `MediaServices` (the video and transcription queues with their files and the
   cache) and the proofs - done.
9. `DiscordTeam` (messages in a team with overlapping handlers, composed with
   `ensureRoomExists`, `processActions` and the room actions) and the proofs -
   done.
10. `WorkQueue`, the abstract specification of an array, a flag and a loop, and the
    proofs that the request queue of Twitter and the two queues of `plugin-node`
    implement it - done.

Left: the team rules of Telegram (`client-telegram/src/messageManager.ts`), which
differ from those of Discord in the order of their checks; the late delete of
`core/src/cache.ts`; the pause between posts; the selling service of
`plugin-solana`.

Every safety property of the passing runs is a theorem. Still worth proving: that
`TwitterInteractions` implements an abstract mention handler (seen, stored,
answered), and that `PostgresAdapter` implements `BreakerContract` where no call is
nested; a nested call settles twice in one step, for which the contract has no
counterpart.

## 3. The modules and the code

In every module a step of the model is what the code does between two awaits
whose outcome or interleaving matters, a crash may fall between any two steps,
and the answers of language models and services are choices. Definitions named
`X_Something` above a definition `X` are mutated forms of it, the kind of slip
the properties are meant to catch; no specification uses them.

### BreakerState, CircuitBreaker, BreakerContract

`BreakerState` holds the four fields of `core/src/database/CircuitBreaker.ts` and
one operator per method or half method: `MustReject` and `EnterExecute` are
`execute()` up to the call of the operation, `OnSuccess` and `handleFailure` what
follows it, `reset` is `reset()`. Only the difference `Date.now() -
lastFailureTime` is observable, so the state has that (`sinceFailure`), up to the
value above which the code cannot tell a difference. `CircuitBreaker` adds the
callers: `Start`, `Resolve` and `Fail` are separate steps, so any number of calls
may be in flight and each is judged in the state in which it *ends*.
`BreakerContract` is the abstract specification (what a user of a circuit breaker
is promised, without failure counts or dates); `CircuitBreaker!Contract` is the
refinement mapping. The action property `StaysOpen` follows from the contract and is
proved beside it, so the run checks the contract alone.

### PostgresAdapter

`withDatabase` = breaker(retry(statement)) around the methods of
`adapter-postgres/src/index.ts`, which fall into four kinds: those that let the
error of a statement out, those that catch it and return `false`, those whose
operation calls `this.query()`, which enters the breaker a second time, and catches
what comes of it (`getCache`), and `createMemory` with an embedding, whose search
for similar memories enters the breaker a second time and is not caught, so that
the search has its own attempts within each attempt of the whole. `AttemptFails`/
`Retry`/`RetriesExhausted` are the loop of `withRetry`; `SearchSucceeds` up to
`ResumeRejected` are `createMemory`'s two loops, one inside the other; `Draining`
expresses that the inner and outer `execute()` of a nested call settle in one drain
of the microtask queue. A statement may fail while the database is up, too (an id
that exists already): the code retries and counts such an error like any other, and
`failureCount` is never cleared while the circuit is closed.

### TwitterInteractions

One record per poll of `handleTwitterInteractions`: where it awaits, the
candidates left, the tweet at hand and the tweet of its thread being stored.
`StartPoll` does not wait for other polls, as `start()` does not. `CheckMemory`
is the look-up of the tweet; `LookUp`, `Store`, `StoreAncestorRefused` and
`ThreadEnds` are `buildConversationThread`; `Decline`, `Respond`, `Send` and
`SendFails` are `handleTweet` with `sendTweet`; `Save` and `CrashAndRestart` write
and reload `latest_checked_tweet_id`. A search returns one page, the newest mentions
(`PageSize`), and a poll adds one tweet for each target user. `StoredByActions` is the
other writer of memories, the loop of actions of `post.ts`, which is on by default:
it stores tweets of the home timeline, which the interactions then take for answered.
Histories remember which tweets were stored elsewhere, stored with a thread, or cut
off by an error or a crash. The splitting of a long reply into several tweets is not
modelled: a reply is one event.

### TwitterQueue

`RequestQueue` of `client-twitter/src/base.ts`: `Add` is `add()`, with the start of
the worker in the same synchronous stretch; `Continue` is the worker after its
pause; `Answer` and `Expire` settle a call. `fetchSearchTweets` starts its timer
before the request is queued, so a search may expire while it waits. The branch of
`processQueue` that puts a request back cannot be reached, since the queued
function never rejects, and is left out. `Start` is the worker's call of the queued
function: a search whose timer is over by then ends at once while its call goes on.
The names of the specification carry the prefix `Queue` (`QueueInit`, `QueueNext`,
`QueueSpec`), because the proofs about it and about `TwitterPost` share a module.

### WorkQueue

The abstract specification behind `RequestQueue`, `VideoService` and
`TranscriptionService`: a line, an item at work, a worker that is on or off, and the
process. `TwitterQueue!Work`, `MediaServices!Videos` and
`MediaServices!Transcriptions` are the refinement mappings. They show what the three
loops have in common behind their differences: the request queue pauses between two
items and lets go of an item whose caller has given up, the video queue hands over
in the step that ends a job, and the transcription queue has no flag of its own in
the model because it is set exactly while a job is at work.

### TwitterPost

`processActionsLoop` as one record (`act`), with `processTweetActions` step by
step: `BeginRound`/`EndRound`/`RoundFails` with `isProcessing`, `TakeTweet` (the
memory look-up), `Decide` (`generateTweetActions`), `React` (like, retweet),
`BuildThread` and `SendAnswer` (quote, reply), `EmptyQuote` (the `return` in the
middle of the timeline), `StoreTweet` (the final `createMemory`) and `TweetFails`.
`PostSent`, `PostStored` and `PostFails` are `generateNewTweet`: a post is on the
timeline before its memory exists, so the actions loop can meet it. Others store
memories as well: the interaction client (`StoredByInteractions`) and
`populateTimeline` at a restart. Two simplifications: the pause that `lastPost`
asks for is an arbitrary wait, and ancestors of a thread are stored in one step
with the tweet (as many of them as one likes, so a thread cut off after any of
them is covered).

### AgentLifecycle

`rt` holds the `AgentRuntime` objects on their way up or running, `agents` is
`DirectClient.agents`. `StartNext`, `Listen` and `BootFails` are `startAgents()`;
`SetAgent`, `SetInvalid`, `RequestFails` and `StopThrows` are
`POST /agents/:id/set`; `CheckDocument` up to `InsertFragment` are
`processCharacterKnowledge`, `knowledge.set` and the two awaits of `createMemory`.
The database is PostgreSQL, whose `INSERT` refuses an id that is present; with
SQLite the look-up and the insert run without an interruption, which is one of
the interleavings checked. An unhandled rejection ends the process (no handler is
installed). `unawaited` says that calls a start does not wait for are under way: the
adapter's test of its connection and the constructor's creation of the agent's room,
account and participant. Their rejection (`UnawaitedRejects`) ends the process, also
in the middle of `startAgents()`, which catches only what it awaits. Documents and
fragments carry the agent that stored them, since `knowledge.get` sees those of its
own agent only: the second agent that knows an item finds the document there, stores
nothing, is registered, and finds nothing of the item. The client objects of the Twitter and Auto clients have no `stop()`,
so that `AgentRuntime.stop()` throws for such agents (`Unstoppable`). A stopped
runtime is forgotten. Clients started before a later one fails, and the foreign
keys of the memories table, are not modelled.

### CastClients

The clients of Farcaster and Lens have the same loops, so one module models both;
`platform` says which one runs and decides how a reply goes out (`SendChunk` and
`SkipChunk`, part by part, or `SendPublication`). A client object has two loops:
`poll` (`handleInteractions`: `Fetch`, `Look`, the thread with `ThreadLook` and
`ThreadInsert`, `Decline`, `Respond`, the sending, `Rearm`) and `post`
(`PostTimer`, `PostDone`). `Fetch` takes one page of notifications, the newest
(`PageSize`, which differs between the platforms in the instance). `registered` is the
object of the runtime in the map of agents: `Stop` stops what is there, clearing a
timer that is armed, and cannot end a round under way; `Request` and `Start` are the
two ends of the request that replaces it, between which another request may do the
same. The history variable `astray` remembers the objects whose loops nobody can end
any more: stopped in the middle of a poll, or replaced in the map by an object of an
overlapping request without having been stopped. `PollFails` and
`InsertRefused` end the interaction loop for good, as the code's error path does,
while the posting loop catches its errors. Outside: the actions a reply may name,
the caches of casts and profiles, and signing in at Lens.

### MediaServices

A *job* is one run of `processVideoFromUrl`, by the worker of the queue or by a
caller: a caller waits until its url has left the queue (`CheckQueue`) and then
runs the same function itself, beside the worker. `Cached`/`Missed` look in the
cache, `FetchInfo` decides between captions and audio, `UseFile`, `TooShort`,
`NoFile`, `OpenFile` and `FileWritten` are the audio file, which is taken as it is
when it exists, `Transcribe` and `Speak` the queue of `TranscriptionService`, `Store` the
cache entry. `Ends` is the end of the process by an error nobody catches:
the worker's (`WorkerFails`), one in a handler of ffmpeg (`TempGone`), one of
Deepgram (`SpeakThrows`). `met` and `cut` are histories: videos two jobs were at
work on at once, and videos whose file was left unfinished.

### DiscordTeam

One channel and one agent of a team, which is the leader or a member. `log` is the
sequence of messages as discord.js hands them over; each has a handler whose place is
`handlers[m].pc`. `Message` is `handleMessage` up to its first await, `Recall` the
look at the agent's last answer, `Look`/`Connect` the look and the insert of
`ensureRoomExists`, `Store` the memory and the entry's list of messages, `Ignore`
and `Gate` are `_shouldIgnore` and the participant's state, `Delay` and `Ask` are
`_shouldRespond`, `Reply` and `Act` the answer and `processActions`. `interest` is
the entry of `interestChannels`, shared by all handlers; of its time stamp the
model keeps the age class (under three minutes, under five, older), which `Tick`
moves. `handlers[m].seen` is the entry object a handler holds across an await,
which may no longer be the one in the map; of an entry that has been replaced the
model keeps what it was when the handler took hold of it, not the messages that were
pushed to it afterwards (`Says` may offer more there than the code does, or less; no
property depends on it). A message *for* the agent mentions it or gives its name
(`ping`); what gets through to a muted room is a mention alone, also of a role or of
everyone (`mentioned` in `GateOf`). `MessageThrows` and `RecallThrows` are
the two errors outside the `try` block: they end the process, since nothing
handles the rejection. `StrictRooms` is the database: PostgreSQL refuses the second
insert of a room, SQLite swallows it.

## 4. The runs

| Run | Instance | Shows |
|---|---|---|
| `breaker` | 3 callers, threshold 2, time-out 2 ticks, quota 2 | the failure count decides the state; the contract is implemented, so an open circuit stays open for its time-out whatever arrives late; it recovers |
| `postgres` | 2 requests, 3 attempts, all kinds of method | at most the retries left over reach the database while the circuit is open, those of `createMemory`'s two loops included; a dead database opens it again and again; it recovers once statements are no longer refused |
| `twitter_overlap` | 2 polls, 3 tweets of which one is a reply, 2 target users, own tweet, page of 2, 1 crash, faults, the loop of actions | answered implies stored; no reply after a restart to what was answered before; at most one reply per overlapping poll; what is stored was decided on, is at hand, or is given up for a known reason |
| `twitter_live` | 2 polls, a thread of 3 mentions, page of 2, no faults, the loop of actions | every mention posted after the start gets a decision although polls overlap, unless that loop stores it or newer ones crowd it out of the page |
| `twitter_double_reply` (violation) | 2 polls, 1 tweet | two polls answer one tweet |
| `twitter_queue` | 2 sends, 2 searches | it is a work queue; order, sends one at a time, everything settles |
| `twitter_post` | 2 tweets in a thread, 1 own post, 1 error, 1 crash, every action may fail | nothing is quoted or answered twice; a like is repeated only after a loss; rounds go on; a tweet shown again and again is dealt with |
| `lifecycle` | 2 agents, 2 items (one shared, one without fragments), 3 runtimes, 1 crash, faults | storing is in order; undisturbed knowledge is complete, has one owner, and that owner is an agent that knows it; the map holds live runtimes; the server comes up unless un-awaited calls reject for ever; starts end |
| `cast_clients` | 2 objects, 2 mentions of which one replies to the other, replies in 2 parts, 1 failing call, 1 crash, pages of 2 (Lens) and 1 (Farcaster) | a mention is answered twice only with an object stopped at work or left unstopped; a stored mention without a decision has a known reason; both loops go on |
| `media` | 3 callers (for three videos, or two for one), an mp4 file, a captioned video, one on YouTube, 1 failing call, 1 crash | both queues are work queues, none is without its worker, a caller is given its own video or one that shares its key; half a transcript and the end of the process have known reasons; every caller is answered |
| `discord` | leader or member, 3 messages of 6 kinds by a user and a mate, 2 handlers at once, 1 failing call | interest is earned; the process dies for known reasons only; the leader answers the team |
| `discord_unmute` (violation) | 2 messages, no fault, SQLite | `UNMUTE_ROOM` runs the mute action |

Why these bounds are enough for what they are used for:

- *Breaker*: the properties need a probe, a call left from before the opening and
  one from an earlier trial at the same time: three callers. Two is the smallest
  threshold and quota that differs from "any". `MaxCount` only caps the failure
  counter above the threshold, where the code cannot tell values apart.
- *PostgresAdapter*: a request that opens the circuit and one with retries left;
  `maxRetries` is the code's own value, so `createMemory` may send up to three
  searches in each of its three attempts. `MaxCount` as above. The bound on late
  attempts is attained: the attempts of the outer loop have to pass the open circuit,
  so behind it there are only the rest of one search and the insert.
- *TwitterInteractions*: a hazard needs a poll that looks, another one that stores,
  and a third tweet whose id lies above; a thread of three has an ancestor of an
  ancestor (in `twitter_live`). `PageSize` is 2 instead of 20, so that a third mention
  falls off the page. The second crash adds nothing the first does not: everything but the
  database is lost in each.
- *TwitterQueue*: one request in progress, one waiting, one abandoned and one
  added while the worker pauses.
- *TwitterPost*: one tweet that is at hand and one that is its ancestor and later
  on the timeline itself; one posting loop, since the second adds only another
  post; one error and one crash, so that a loss may be followed by a second one of
  the other kind.
- *AgentLifecycle*: two agents to share an item, three runtimes so that two
  requests for one agent overlap while the other is up, an item with two fragments
  (a first and a last) and one with none.
- *CastClients*: a second object for the successor of a stopped one; two mentions so
  that a mention is also the ancestor of another; two parts so that a reply can
  fail half way. One fault and one crash each suffice to end a loop or lose a round.
  Two objects are enough for overlapping requests: both may be on their way at once.
  A page of one is one that two mentions overflow, a page of two one they do not.
- *MediaServices*: three callers so that one is in the queue while the worker and
  another caller are at the same video; the three `Asked` cover two callers of one
  direct mp4, two callers of a captioned video beside one on YouTube, and two videos
  without captions, with which two jobs wait while a third is transcribed.
- *DiscordTeam*: one message that leaves interest, one that ends or refreshes it and
  one that finds it; `MaxAtOnce` is 2 because a race is between two handlers.
  `MaxKept` and `RecentCount` are 2 instead of 10 and 3, so that the list is trimmed
  within the bound. `discord` names `MUTE_ROOM` only, since which action is run does
  not matter to its properties; `discord_unmute` names the undoing one.

Deadlock is checked except in `twitter_queue`, `cast_clients`, `media`, `discord` and
`discord_unmute`, where requests, objects, callers or messages are finite in number.

`OneReplyPerPoll` bounds what `twitter_double_reply` shows to happen.
Other behaviour met while modelling bounds the properties in the same way and is
worth knowing: methods that swallow their errors can close a half-open circuit
with the database down (`ClosesOnOutcome` says no more than that something was
heard); a tweet whose thread was stored before a crash counts as answered and
never gets a decision (`MentionsGetDecision` is checked without crashes), and so does
one that the loop of actions has stored or that newer mentions have crowded out of the
page; errors that a working database makes (ids that exist) add up in a closed circuit
until they open it (the premise of `RecoversWithService`); with target users a mention can be passed over, as a newer tweet of theirs moves
`lastCheckedTweetId`; knowledge cut off between its document and its last fragment
is never completed (`RegisteredKnows` speaks of undisturbed items), and of two agents
that share an item one is registered without finding it; a rejection that nobody
awaits ends the process while it starts (the premise of `ServerComesUp`); and two
overlapping updates leave two runtimes of one agent up, of which the map knows one
(`RegisteredIsLive`) and of which the clients answer the same mentions
(`AnsweredTwiceOnlyByAstray`, `SilentOnlyAfterTrouble`).

The two violations are findings about the code, with the lines, in `PROJECT.json`;
the counterexamples are a few steps long and need neither a fault nor a crash. That
of `UndoneWhenAsked` begins in a room that is not muted, in which the prompt would not
offer `UNMUTE_ROOM`; `processActions` does not ask `validate` again, and in a muted room
the step is the same.

Some exceptions in the properties are wide, and what they leave out is not judged:
`HalfOnlyAfterTrouble` excuses videos that two jobs have met on, which is the normal
course when a caller has waited in the queue; `EndsForAReason` excuses any failing call; `InterestIsEarned` is content with any earlier claim, so an entry that
a later mention refreshes is earned; and `LeaderAnswersTeam` speaks of handlers that
found no interest and lost no race for the room.

## 5. Fairness

- *Breaker*: operations settle (pg has time-outs), the clock runs, callers keep
  calling. Nothing is assumed of the service; `RecoversWithService` speaks only of
  behaviours in which it comes back.
- *PostgresAdapter*: the same, and strong fairness of calls of a method that
  throws: while the circuit alternates between open and half-open such a call is
  possible again and again, and the agent's polls use such methods in each round.
- *TwitterInteractions*: the timer fires and every await ends, per poll.
- *TwitterQueue*: the pause ends and Twitter answers or the connection breaks.
  This is needed: a send has no time-out, and a hanging one holds up the queue.
- *TwitterPost*: the awaits of the actions loop end and its sleeps do. Errors and
  crashes are bounded in number and never forced.
- *CastClients*: timers fire and calls end, in success or not. A failing call is
  bounded in number and never forced.
- *MediaServices*: the 100 ms timers fire, ffmpeg, yt-dlp and the transcription end,
  with success or not. Nothing restarts the process by itself.
- *DiscordTeam*: every handler under way goes on; time need not pass and nothing
  needs to fail.
- *AgentLifecycle*: the awaits of a start end and the process is restarted; a
  failure is forced only where the database refuses an insert.

## 6. What is proved

All theorems hold for every value of the constants that satisfies the named
`ASSUME`s, so for any number of callers, polls, tweets, agents, loops, faults and
crashes.

- `CircuitBreakerProofs`: `IInv` (types, `ClosedIffBelowThreshold`,
  `TrialUndecided`, `LastFailureInOpenPeriod`) is inductive. The last part is what
  makes `StaysOpen` provable: the code compares with the *last* failure, the
  property speaks of the opening, and a late failure can only make the former more
  recent. `BreakerImplementsContract` is the refinement: the initial states map
  and each step is a step of the contract or a stutter.
- `TwitterInteractionsProofs`: `IInv` says that a poll which builds or has built a
  thread found its tweet missing since the last restart, and that a poll past the
  tweet's own store knows it to be in the database. From it: answered tweets are
  stored (`AnsweredTweetsAreStored`), and what was answered before a crash is not
  answered after it (`NoSecondReplyAfterRestart`); a stored tweet was decided on, is at
  hand, or was given up in one of the ways the property names
  (`StoredTweetsAreDecided`); and, by counting the replies of a
  tweet together with the polls at work on it, a tweet has at most one reply per
  overlapping poll (`NoMoreRepliesThanPolls`).
- `TwitterClientProofs`, about `TwitterPost`: `IInv` says that an action still pending
  on the tweet at hand was not done before, unless it is a like or retweet and the
  memory was lost, and that whatever was touched is stored, lost or at hand. From it:
  `OneAnswerPerTweet` and `ReactionsRepeatOnlyAfterLoss`. The difference between
  the two kinds of action is the order of the code: a thread is stored before an
  answer is sent, a like is given before anything is stored.
- `TwitterClientProofs`, about `TwitterQueue`: the invariant `QInv` adds to the three
  properties that a worker that is off has nothing at hand and that only searches have
  timers. The second part is needed for `OneSendAtATime`: an expired request is let go
  of while its call goes on, which must never be a send. With it each step maps to a
  step of the work queue (`RequestQueueIsAWorkQueue`): a request added while the worker
  is off finds nothing in line before it, and its timer has not expired yet.
- `PostgresAdapterProofs`: the breaker's invariant, carried through its second
  entry by nested calls. `AdapterClosesOnOutcome` needs that a failure never
  leaves the circuit half-open, so that an outer `execute()` that finds it
  half-open knows the inner one to have succeeded. `AdapterBoundedLoad` is a counting
  argument: the bound on late attempts is not inductive, since it says nothing of
  those still to come. `RetriesLeft` is the set of pairs of a request in progress and a
  number of an attempt it has left; while the circuit is open each late attempt
  takes a pair out of it, and the sum of both stays under the bound
  (`LoadInv`). For `createMemory` the pairs are the rest of its search and the insert
  behind it, and no more: its own loop has to enter the open circuit again.
- `AgentLifecycleProofs`: the invariant `LInv` relates where a storing runtime stands to
  what the database holds (a runtime at fragment *n* has the document and the
  fragments below *n* behind it, whoever stored them) and the map to the runtimes.
  From it: `KnowledgeIsStoredInOrder` and `WhatIsRegisteredRuns`. `KInv` adds who stored
  what: the fragments of an item that nothing disturbed are those of the agent whose
  document it has, they are all there or a runtime is still at them, and a runtime
  that is past an item has its document behind it; and whoever a document or a fragment
  belongs to knows the item (`OwnersKnow`). From it:
  `FragmentsHaveTheirDocument` and `RegisteredAgentsKnow`.
- `CastClientsProofs`: `IInv` joins three facts. An object at work that has not gone
  astray is the one in the map, so there is at most one, whatever requests overlap. A
  mention that was answered is stored, so no later poll takes it up. And nobody but the
  object itself, in the middle of its parts, has answered a mention at hand, objects
  astray apart. From it: `AnsweredOnceUnlessAstray`. A second invariant, `MInv`, gives
  `SilentMentionsHaveReasons`: as long as nothing failed, crashed or went astray, a
  stored mention is decided, at hand, or the parent of one that is shown; and
  what a loop is about to insert is not stored yet, so it is alone in inserting it.
- `MediaServicesProofs`: `IInv` relates the two queues to the jobs (each job that waits
  for a transcription has exactly one place in line) and the cache's keys to the
  videos. The hard steps are those that move two jobs at once: a caller that
  starts the worker, a transcription that hands over to the next. A second invariant,
  `Troubles`, follows the audio: two jobs at work on one video have met, a
  temporary file that is missed was removed by a job that was met, and a file or text
  that is not whole is being written, was cut off, or was shared. From it:
  `HalvesHaveReasons` and `EndHasAReason`. `ServicesAreWorkQueues` is the refinement of the
  work queue by both queues, step by step, from `IInv`.
- `DiscordTeamProofs`: `IInv` adds two facts to the types and to `InterestIsEarned`.
  `StoredInTurn`: a handler has a memory of its message exactly from its store on, so
  the messages of the entry, which are appended in that step, have memories.
  `Unattended`: while the process is up, an interest without messages belongs to a
  message that leaves it so. The error in `isAgentInterested`, which reads the last of
  these messages, is then possible for such a message only, and that is
  `EndsForAReason`. An entry is made or refreshed by a claim on the agent alone, hence
  `OnlyClaimsInterest`. One lemma per action says which part of the entry it may touch.

Every invariant and action property of the passing runs is stated by one of these
theorems. Model-checked only are the liveness properties (`RecoversWithService` of both
modules, `ShedsLoadWhenDown`, `MentionsGetDecision`, `EveryRequestSettles`, `RoundsGoOn`,
`ShownIsStored`, `ServerComesUp`, `StartsEnd`, `LoopsGoOn`, `CallersSettle`,
`LeaderAnswersTeam`): they rest on fairness and `ENABLED`, which these provers do not
reason about.

## 7. What is not modelled, and why

- The components of section 1 without a module in section 3: planned (section 2),
  or without state of their own (front end, prompt building, most plugins).
- The pause between two posts (`lastPost`), in whose place the model has an
  arbitrary wait: what is posted when does not bear on the properties checked, but
  the second start of the posting loop (`client-twitter/src/post.ts:188`) is not
  judged. The splitting of Twitter replies, the search client (the code never
  starts it), login and cookies.
- The file and database cache of `core/src/cache.ts`: the models use it as a store
  of keys; the late delete of an expired entry is not in any of them, since the
  entries modelled never expire.
- Discord: mentions-only mode, bots that are ignored, direct messages, voice, slash
  commands and messages of attachments only. Telegram and Slack have a handler of
  the same shape; GitHub handles one request at a time.
- `plugin-node`: the image queue has the shape of the video queue; text completion,
  browser, pdf and speech are calls of external tools. `downloadMedia`, used by one
  Discord action, is left out.
- `composeState` and `evaluate` of the runtime read, or call what plugins bring.
- SQL and the vector search: a method is one atomic statement with the conflicts
  its keys can cause.
- The trust-score flow: in this version the statements that add a recommendation
  or a token's performance do not match their tables, so the flow stops before it
  reaches balances; the selling service alone is planned.
- JavaScript's numbers: no counter of the modelled code comes near 2^53.
