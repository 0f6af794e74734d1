--------------------------- MODULE MediaServices ----------------------------
(***************************************************************************)
(* The video and transcription services of plugin-node:                    *)
(* plugin-node/src/services/video.ts and transcription.ts.                 *)
(*                                                                         *)
(* processVideo puts a url into a queue, starts the worker of the queue    *)
(* unless it runs, and looks every 100 ms whether the url has left the     *)
(* queue.  Then the caller processes the video itself, beside the worker.  *)
(* What makes a video known is an entry of the cache; the audio is kept in *)
(* a file.  Transcriptions have a queue with a worker of their own.        *)
(*                                                                         *)
(* A job is the worker's or a caller's run of processVideoFromUrl; a step  *)
(* is what it does between two awaits.  An error nobody catches ends the   *)
(* process, as node does with unhandled rejections and exceptions.         *)
(***************************************************************************)
EXTENDS Integers, Sequences, FiniteSets

CONSTANTS
    Callers,     \* calls of processVideo
    Worker,      \* the loop of processQueue in video.ts
    Urls,        \* the videos
    Asked,       \* the videos the callers may ask for, each for one
    YouTube,     \* urls with a video id that getVideoId can tell apart
    Direct,      \* urls of mp4 files, which are fetched into a temporary file
    Captioned,   \* videos with subtitles or captions, or music
    None,
    MaxFaults,   \* bound on failing calls
    MaxCrashes   \* bound on crashes from outside

ASSUME CallersAsk == Asked \subseteq [Callers -> Urls] /\ Worker \notin Callers
ASSUME KindsOfVideo == YouTube \subseteq Urls /\ Direct \subseteq Urls \ YouTube
ASSUME NoneIsNone == None \notin Callers \cup {Worker} \cup Urls
ASSUME BoundsAreNumbers == MaxFaults \in Nat /\ MaxCrashes \in Nat

VARIABLES
    up,          \* the process is there
    queue,       \* VideoService.queue
    processing,  \* VideoService.processing
    job,         \* the worker and the callers
    waiting,     \* TranscriptionService.queue: the jobs whose audio is in it
    speaking,    \* the job whose audio is transcribed, or None
    url,         \* the video each caller asks for
    deepgram,    \* transcription is done by Deepgram
    file,        \* the mp3 file of each video
    temp,        \* videos whose temporary mp4 file exists
    cache,       \* content/video/<id> in the cache
    got,         \* what a caller was given
    met,         \* history: videos two jobs were at work on at once
    cut,         \* history: videos whose mp3 file was left unfinished
    faults, crashes

queues == <<queue, processing, waiting, speaking>>
files == <<file, temp, cache>>
history == <<met, cut, crashes>>
setup == <<url, deepgram>>
vars == <<up, queues, job, setup, files, got, history, faults>>

Jobs == Callers \cup {Worker}
\* getVideoId: the id of a url from which no id can be read is that of "".
Key(u) == IF u \in YouTube THEN u ELSE None
Keys == YouTube \cup {None}
Media == [video : Urls, text : {"captions", "whole", "partial", "failed"}]
NoMedia == [video |-> None, text |-> "none"]

Working == {"cache", "info", "audio", "fetch", "write", "speech", "store"}
Job == [at : Working \cup {"new", "idle", "waits", "done", "failed", "lost"},
        video : Urls \cup {None},
        text : {"none", "captions", "whole", "partial", "failed"}]

TypeOK ==
    /\ up \in BOOLEAN /\ processing \in BOOLEAN /\ url \in Asked /\ deepgram \in BOOLEAN
    /\ queue \in Seq(Urls)
    /\ job \in [Jobs -> Job]
    /\ waiting \in Seq(Jobs) /\ speaking \in Jobs \cup {None}
    /\ file \in [Urls -> {"none", "partial", "whole"}]
    /\ temp \subseteq Urls
    /\ cache \in [Keys -> Media \cup {NoMedia}]
    /\ got \in [Callers -> Media \cup {NoMedia}]
    /\ met \subseteq Urls /\ cut \subseteq Urls
    /\ faults \in 0..MaxFaults /\ crashes \in 0..MaxCrashes

At(place, u) == [at |-> place, video |-> u, text |-> "none"]

Init ==
    /\ up = TRUE /\ processing = FALSE /\ url \in Asked /\ deepgram \in BOOLEAN
    /\ queue = <<>> /\ waiting = <<>> /\ speaking = None
    /\ job = [j \in Jobs |-> IF j = Worker THEN At("idle", None) ELSE At("new", url[j])]
    /\ file = [u \in Urls |-> "none"] /\ temp = {}
    /\ cache = [k \in Keys |-> NoMedia] /\ got = [c \in Callers |-> NoMedia]
    /\ met = {} /\ cut = {} /\ faults = 0 /\ crashes = 0

-----------------------------------------------------------------------------
(* The end of the process and its start.                                   *)

\* What is in memory is gone: the queues, the worker, and the callers with it.
Ends ==
    /\ up' = FALSE
    /\ queue' = <<>> /\ processing' = FALSE /\ waiting' = <<>> /\ speaking' = None
    /\ job' = [j \in Jobs |-> IF j = Worker THEN At("idle", None)
                              ELSE IF job[j].at \in Working \cup {"waits"} THEN At("lost", url[j])
                              ELSE job[j]]
    /\ cut' = cut \cup {job[j].video : j \in {i \in Jobs : job[i].at = "write"}}

Crash ==
    /\ up /\ crashes < MaxCrashes /\ crashes' = crashes + 1
    /\ Ends
    /\ UNCHANGED <<setup, files, got, met, faults>>

Restart ==
    /\ ~up /\ up' = TRUE
    /\ UNCHANGED <<queues, job, setup, files, got, history, faults>>

-----------------------------------------------------------------------------
(* The queue of VideoService.                                              *)

\* The worker takes the next url, or leaves its loop.
Taken(q) == IF q = <<>> THEN At("idle", None) ELSE At("cache", Head(q))
Rest(q) == IF q = <<>> THEN <<>> ELSE Tail(q)

\* processVideo: the url is queued; a worker that is off takes it at once, and
\* then the caller finds it gone from the queue.
ProcessVideo(c) ==
    LET asked == Append(queue, url[c])
        left == IF processing THEN asked ELSE Rest(asked)
        mine == At(IF \E k \in 1..Len(left) : left[k] = url[c] THEN "waits" ELSE "cache", url[c])
    IN
    /\ up /\ job[c].at = "new"
    /\ queue' = left /\ processing' = TRUE
    /\ job' = [job EXCEPT ![c] = mine,
                          ![Worker] = IF processing THEN @ ELSE Taken(asked)]
    /\ UNCHANGED <<up, waiting, speaking, setup, files, got, history, faults>>

\* checkQueue: the url has left the queue, and with it every other request for
\* the same video.
CheckQueue(c) ==
    /\ job[c].at = "waits"
    /\ ~\E k \in 1..Len(queue) : queue[k] = url[c]
    /\ job' = [job EXCEPT ![c] = At("cache", url[c])]
    /\ UNCHANGED <<up, queues, setup, files, got, history, faults>>

\* Finish that leaves processing set.
Finish_StaysOn(j, media) ==
    IF j = Worker
    THEN /\ job' = [job EXCEPT ![Worker] = Taken(queue)]
         /\ queue' = Rest(queue) /\ processing' = TRUE
         /\ UNCHANGED got
    ELSE /\ job' = [job EXCEPT ![j] = At("done", url[j])]
         /\ got' = [got EXCEPT ![j] = media]
         /\ UNCHANGED <<queue, processing>>

\* Finish of a worker that takes one url and no more.
Finish_OneOnly(j, media) ==
    IF j = Worker
    THEN /\ job' = [job EXCEPT ![Worker] = At("idle", None)]
         /\ processing' = FALSE
         /\ UNCHANGED <<queue, got>>
    ELSE /\ job' = [job EXCEPT ![j] = At("done", url[j])]
         /\ got' = [got EXCEPT ![j] = media]
         /\ UNCHANGED <<queue, processing>>

\* The job is over: the caller has its answer, the worker goes on.
Finish(j, media) ==
    IF j = Worker
    THEN /\ job' = [job EXCEPT ![Worker] = Taken(queue)]
         /\ queue' = Rest(queue) /\ processing' = (queue # <<>>)
         /\ UNCHANGED got
    ELSE /\ job' = [job EXCEPT ![j] = At("done", url[j])]
         /\ got' = [got EXCEPT ![j] = media]
         /\ UNCHANGED <<queue, processing>>

-----------------------------------------------------------------------------
(* processVideoFromUrl.                                                    *)

\* The video is in the cache: that is the answer.
Cached(j) ==
    /\ job[j].at = "cache" /\ cache[Key(job[j].video)] # NoMedia
    /\ Finish(j, cache[Key(job[j].video)])
    /\ UNCHANGED <<up, waiting, speaking, setup, files, history, faults>>

AtWorkOn(u) == {j \in Jobs : job[j].at \in Working \ {"cache"} /\ job[j].video = u}

Missed(j) ==
    /\ job[j].at = "cache" /\ cache[Key(job[j].video)] = NoMedia
    /\ job' = [job EXCEPT ![j].at = "info"]
    /\ met' = IF AtWorkOn(job[j].video) # {} THEN met \cup {job[j].video} ELSE met
    /\ UNCHANGED <<up, queues, setup, files, got, cut, crashes, faults>>

\* fetchVideoInfo and what getTranscript makes of it: captions are the
\* transcript, otherwise the audio is needed.
FetchInfo(j) ==
    /\ job[j].at = "info"
    /\ job' = [job EXCEPT ![j] = IF @.video \in Captioned THEN [@ EXCEPT !.at = "store", !.text = "captions"]
                                 ELSE [@ EXCEPT !.at = "audio"]]
    /\ UNCHANGED <<up, queues, setup, files, got, history, faults>>

\* Transcribe with unshift in place of push.
Transcribe_First(j, content) ==
    /\ job' = [job EXCEPT ![j].at = "speech", ![j].text = content]
    /\ IF speaking = None THEN speaking' = j /\ UNCHANGED waiting
       ELSE waiting' = <<j>> \o waiting /\ UNCHANGED speaking
    /\ UNCHANGED <<queue, processing>>

\* The file is read and goes to the transcription service: transcribe() queues
\* it and starts the worker of the queue unless it runs.
Transcribe(j, content) ==
    /\ job' = [job EXCEPT ![j].at = "speech", ![j].text = content]
    /\ IF speaking = None THEN speaking' = j /\ UNCHANGED waiting
       ELSE waiting' = Append(waiting, j) /\ UNCHANGED speaking
    /\ UNCHANGED <<queue, processing>>

\* transcribeAudio: a file that exists is taken as it is.
UseFile(j) ==
    /\ job[j].at = "audio" /\ file[job[j].video] # "none"
    /\ Transcribe(j, file[job[j].video])
    /\ UNCHANGED <<up, setup, files, got, history, faults>>

\* Less than 0.2 seconds of audio: no transcription.
TooShort(j) ==
    /\ job[j].at = "audio" /\ file[job[j].video] = "partial"
    /\ job' = [job EXCEPT ![j].at = "store", ![j].text = "failed"]
    /\ UNCHANGED <<up, queues, setup, files, got, history, faults>>

\* There is no file: it is downloaded ...
NoFile(j) ==
    /\ job[j].at = "audio" /\ file[job[j].video] = "none"
    /\ job' = [job EXCEPT ![j].at = "fetch"]
    /\ UNCHANGED <<up, queues, setup, files, got, history, faults>>

\* OpenFile that does not wait for the download.
OpenFile_NoWait(j) ==
    /\ job[j].at = "fetch"
    /\ file' = [file EXCEPT ![job[j].video] = "partial"]
    /\ Transcribe(j, "partial")
    /\ UNCHANGED <<up, temp, setup, cache, got, history, faults>>

\* OpenFile that leaves the temporary file elsewhere.
OpenFile_NoTemp(j) ==
    /\ job[j].at = "fetch"
    /\ job' = [job EXCEPT ![j].at = "write"]
    /\ file' = [file EXCEPT ![job[j].video] = "partial"]
    /\ UNCHANGED <<up, queues, temp, setup, cache, got, history, faults>>

\* ... into the mp3 file, a direct mp4 by way of a temporary file ...
OpenFile(j) ==
    /\ job[j].at = "fetch"
    /\ job' = [job EXCEPT ![j].at = "write"]
    /\ file' = [file EXCEPT ![job[j].video] = "partial"]
    /\ temp' = IF job[j].video \in Direct THEN temp \cup {job[j].video} ELSE temp
    /\ UNCHANGED <<up, queues, setup, cache, got, history, faults>>

\* ... which is removed when ffmpeg has come to its end.
FileWritten(j) ==
    /\ job[j].at = "write" /\ (job[j].video \in Direct => job[j].video \in temp)
    /\ file' = [file EXCEPT ![job[j].video] = "whole"]
    /\ temp' = temp \ {job[j].video}
    /\ Transcribe(j, "whole")
    /\ UNCHANGED <<up, setup, cache, got, history, faults>>

\* The handler of ffmpeg's end throws if the temporary file is gone.
TempGone(j) ==
    /\ job[j].at = "write" /\ job[j].video \in Direct /\ job[j].video \notin temp
    /\ Ends
    /\ UNCHANGED <<setup, files, got, met, crashes, faults>>

\* The cache gets the entry, whatever the transcript is.
Store(j) ==
    LET media == [video |-> job[j].video, text |-> job[j].text] IN
    /\ job[j].at = "store"
    /\ cache' = [cache EXCEPT ![Key(job[j].video)] = media]
    /\ Finish(j, media)
    /\ UNCHANGED <<up, waiting, speaking, setup, file, temp, history, faults>>

\* A call fails: a caller is told, the worker's error ends the process.
CallerFails(c) ==
    /\ job[c].at \in Working \ {"audio", "speech"}
    /\ faults < MaxFaults /\ faults' = faults + 1
    /\ job' = [job EXCEPT ![c] = At("failed", url[c])]
    /\ cut' = IF job[c].at = "write" THEN cut \cup {url[c]} ELSE cut
    /\ UNCHANGED <<up, queues, setup, files, got, met, crashes>>

WorkerFails ==
    /\ job[Worker].at \in Working \ {"audio", "speech"}
    /\ faults < MaxFaults /\ faults' = faults + 1
    /\ Ends
    /\ UNCHANGED <<setup, files, got, met, crashes>>

-----------------------------------------------------------------------------
(* The queue of TranscriptionService.                                      *)

\* A transcription is over: its job goes on, and the next one begins.
Transcribed(text) ==
    /\ job' = [job EXCEPT ![speaking].at = "store", ![speaking].text = text]
    /\ speaking' = IF waiting = <<>> THEN None ELSE Head(waiting)
    /\ waiting' = Rest(waiting)
    /\ UNCHANGED <<up, queue, processing, setup, files, got, history>>

Speak ==
    /\ speaking # None
    /\ Transcribed(job[speaking].text)
    /\ UNCHANGED faults

\* OpenAI and the local model: an error is caught and the answer is null, which
\* becomes "Transcription failed".
SpeakFails ==
    /\ speaking # None /\ ~deepgram
    /\ faults < MaxFaults /\ faults' = faults + 1
    /\ Transcribed("failed")

\* Deepgram: nobody catches the error of processQueue.
SpeakThrows ==
    /\ speaking # None /\ deepgram
    /\ faults < MaxFaults /\ faults' = faults + 1
    /\ Ends
    /\ UNCHANGED <<setup, files, got, met, crashes>>

-----------------------------------------------------------------------------
Goes(j) == \/ Cached(j) \/ Missed(j) \/ FetchInfo(j) \/ UseFile(j) \/ TooShort(j)
           \/ NoFile(j) \/ OpenFile(j) \/ FileWritten(j) \/ TempGone(j) \/ Store(j)

Next ==
    \/ Crash \/ Restart \/ WorkerFails \/ Speak \/ SpeakFails \/ SpeakThrows
    \/ \E c \in Callers : ProcessVideo(c) \/ CheckQueue(c) \/ CallerFails(c)
    \/ \E j \in Jobs : Goes(j)

Spec == Init /\ [][Next]_vars

\* Timers fire, and every call is answered in the end, with success or not.
Fairness ==
    /\ WF_vars(Speak)
    /\ \A c \in Callers : WF_vars(CheckQueue(c))
    /\ \A j \in Jobs : WF_vars(Goes(j))
FairSpec == Spec /\ Fairness

-----------------------------------------------------------------------------
(* Properties.                                                             *)

InLine(j) == \E k \in 1..Len(waiting) : waiting[k] = j

\* No queue is left without its worker, and no job without its turn: a job that
\* waits for a transcription has exactly one place, which is the one at work or
\* in the queue; what is queued is there only while the worker of the queue is
\* at work; when the process is down nobody is at work.
NobodyForgotten ==
    /\ processing <=> job[Worker].at \in Working
    /\ queue # <<>> => processing
    /\ speaking = None => waiting = <<>>
    /\ \A j \in Jobs : job[j].at = "speech" <=> (speaking = j \/ InLine(j))
    /\ \A j \in Jobs : speaking = j => ~InLine(j)
    /\ \A k, l \in 1..Len(waiting) : waiting[k] = waiting[l] => k = l
    /\ ~up => \A j \in Jobs : job[j].at \notin Working \cup {"waits"}

\* The two queues are work queues: videos are worked on and audio is transcribed
\* one at a time in the order of arrival, the hand-over from one to the next
\* leaves nothing out, and only the end of the process loses anything.
Videos == INSTANCE WorkQueue WITH
    Items  <- Urls,
    line   <- queue,
    atWork <- IF processing THEN job[Worker].video ELSE None,
    on     <- processing

Transcriptions == INSTANCE WorkQueue WITH
    Items  <- Jobs,
    line   <- waiting,
    atWork <- speaking,
    on     <- speaking # None

ImplementsWorkQueues == Videos!Spec /\ Transcriptions!Spec

\* What a caller is given is about its own video, or, as their entries share
\* one key of the cache, about another one that is not on YouTube.
OwnVideo ==
    \A c \in Callers : job[c].at = "done" =>
        \/ got[c].video = url[c]
        \/ got[c].video \notin YouTube /\ url[c] \notin YouTube

\* A transcript of half the audio is given out or kept only of a video whose
\* file two jobs were at work on at once, or whose download was cut off.
HalfOnlyAfterTrouble ==
    \A m \in {got[c] : c \in Callers} \cup {cache[k] : k \in Keys} :
        m.text = "partial" => m.video \in met \cup cut

\* The process does not end unless a call fails or it is killed: or two jobs
\* share the temporary file of a direct mp4.
EndsForAReason == up \/ faults > 0 \/ crashes > 0 \/ met \cap Direct # {}

\* Every caller has its answer in the end, or an error, or the process ends.
CallersSettle ==
    \A c \in Callers : job[c].at = "waits" ~> job[c].at \in {"done", "failed", "lost"}

\* A job at work has its video, and something to store in the end.
JobInv(w) ==
    /\ w.at \in Working => w.video \in Urls
    /\ w.at \in {"speech", "store"} => w.text # "none"

\* NobodyForgotten and OwnVideo with what they rest on: jobs work on the video
\* they are for, and what the cache holds is about a video with that key.
IInv ==
    /\ TypeOK
    /\ NobodyForgotten
    /\ \A c \in Callers : job[c].video = url[c] /\ job[c].at # "idle"
    /\ \A j \in Jobs : JobInv(job[j])
    /\ \A k \in Keys : cache[k] # NoMedia => Key(cache[k].video) = k
    /\ OwnVideo
=============================================================================
