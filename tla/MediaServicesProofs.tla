------------------------ MODULE MediaServicesProofs -------------------------
(***************************************************************************)
(* Proofs about MediaServices for any number of callers, videos, failing   *)
(* calls and crashes.                                                      *)
(***************************************************************************)
EXTENDS MediaServices, TLAPS

\* What the steps of a single job leave alone, or change without a bearing on
\* the queues.
SharedOK ==
    /\ up \in BOOLEAN /\ url \in Asked /\ deepgram \in BOOLEAN
    /\ file \in [Urls -> {"none", "partial", "whole"}]
    /\ temp \subseteq Urls
    /\ met \subseteq Urls /\ cut \subseteq Urls
    /\ faults \in 0..MaxFaults /\ crashes \in 0..MaxCrashes

QueuesOK ==
    /\ processing \in BOOLEAN /\ queue \in Seq(Urls)
    /\ waiting \in Seq(Jobs) /\ speaking \in Jobs \cup {None}

\* What the cache and the callers hold.
MediaOK ==
    /\ cache \in [Keys -> Media \cup {NoMedia}]
    /\ got \in [Callers -> Media \cup {NoMedia}]
    /\ \A k \in Keys : cache[k] # NoMedia => Key(cache[k].video) = k

JobsOK ==
    /\ job \in [Jobs -> Job]
    /\ \A c \in Callers : job[c].video = url[c] /\ job[c].at # "idle"
    /\ \A j \in Jobs : JobInv(job[j])

LEMMA SortedIInv ==
    IInv <=> SharedOK /\ QueuesOK /\ MediaOK /\ JobsOK /\ NobodyForgotten /\ OwnVideo
  BY DEF IInv, TypeOK, SharedOK, QueuesOK, MediaOK, JobsOK

LEMMA SortedIInvNext ==
    SharedOK' /\ QueuesOK' /\ MediaOK' /\ JobsOK' /\ NobodyForgotten' /\ OwnVideo' => IInv'
  BY DEF IInv, TypeOK, SharedOK, QueuesOK, MediaOK, JobsOK

\* None is neither a job nor a video.
LEMMA NoneIsApart == None \notin Jobs /\ None \notin Urls /\ Worker \notin Callers
  BY NoneIsNone, CallersAsk DEF Jobs

\* Two videos with one key are one video, or neither is on YouTube.
LEMMA SameKey ==
    ASSUME NEW u \in Urls, NEW v \in Urls, Key(u) = Key(v)
    PROVE  u = v \/ (u \notin YouTube /\ v \notin YouTube)
  BY NoneIsApart, KindsOfVideo DEF Key

\* Every initial state satisfies the invariant.
LEMMA InitIInv == Init => IInv
<1> SUFFICES ASSUME Init PROVE IInv
  OBVIOUS
<1>1. SharedOK /\ QueuesOK /\ MediaOK
  <2>1. SharedOK
    BY BoundsAreNumbers DEF Init, SharedOK
  <2>2. QueuesOK
    <3>1. processing = FALSE /\ queue = <<>> /\ waiting = <<>> /\ speaking = None
      BY DEF Init
    <3>2. queue \in Seq(Urls) /\ waiting \in Seq(Jobs)
      BY <3>1
    <3>3. QED BY <3>1, <3>2 DEF QueuesOK
  <2>3. MediaOK
    BY DEF Init, MediaOK
  <2>4. QED BY <2>1, <2>2, <2>3
<1>2. ASSUME NEW j \in Jobs
      PROVE  /\ job[j] \in Job /\ job[j].at \in {"idle", "new"}
             /\ j \in Callers => job[j].at = "new" /\ job[j].video = url[j]
  <2>1. CASE j = Worker
    <3>1. job[j] = At("idle", None)
      BY <2>1 DEF Init
    <3>2. QED BY <2>1, <3>1, NoneIsApart DEF At, Job
  <2>2. CASE j \in Callers
    <3>1. job[j] = At("new", url[j]) /\ url[j] \in Urls
      BY <2>2, CallersAsk DEF Init
    <3>2. QED BY <3>1 DEF At, Job
  <2>3. QED BY <2>1, <2>2 DEF Jobs
<1>3. JobsOK
  <2>1. job \in [Jobs -> Job]
    BY <1>2 DEF Init
  <2>2. QED BY <1>2, <2>1 DEF JobsOK, JobInv, Working, Jobs
<1>a. \A j \in Jobs : job[j].at \in {"idle", "new"}
  BY <1>2
<1>4. NobodyForgotten
  <2>1. waiting = <<>> /\ speaking = None /\ queue = <<>> /\ processing = FALSE /\ up = TRUE
    BY DEF Init
  <2>2. \A j \in Jobs : ~InLine(j) /\ speaking # j /\ job[j].at \notin Working
    BY <1>a, <2>1, NoneIsApart DEF InLine, Working
  <2>3. QED BY <2>1, <2>2 DEF NobodyForgotten, Working, Jobs
<1>5. OwnVideo
  BY <1>a DEF OwnVideo, Jobs
<1>6. QED BY <1>1, <1>3, <1>4, <1>5, SortedIInv

\* One job moves on outside of the queues: at work before, it is at work after,
\* or is a caller that has failed; or it is a caller that begins its own run.
LEMMA OneJobMoves ==
    ASSUME IInv, NEW j \in Jobs, NEW w \in Job, JobInv(w), SharedOK',
           job' = [job EXCEPT ![j] = w], w.video = job[j].video,
           UNCHANGED <<queues, url, up, cache, got>>,
           \/ job[j].at \in Working \ {"speech"} /\ w.at \in Working \ {"speech"}
           \/ j \in Callers /\ job[j].at \in Working \ {"speech"} /\ w.at = "failed"
           \/ j \in Callers /\ job[j].at = "waits" /\ w.at = "cache"
    PROVE  IInv'
<1>1. SharedOK /\ QueuesOK /\ MediaOK /\ JobsOK /\ NobodyForgotten /\ OwnVideo
  BY SortedIInv
<1>2. /\ job' \in [Jobs -> Job] /\ job'[j] = w
      /\ \A i \in Jobs \ {j} : job'[i] = job[i]
  BY <1>1 DEF JobsOK
<1>3. QueuesOK' /\ MediaOK'
  BY <1>1 DEF QueuesOK, MediaOK, queues
<1>4. JobsOK'
  <2>1. w.at # "idle"
    BY DEF Working
  <2>2. QED BY <1>1, <1>2, <2>1 DEF JobsOK, Jobs
<1>5. NobodyForgotten'
  <2>1. \A i \in Jobs : InLine(i)' <=> InLine(i)
    BY DEF InLine, queues
  <2>2. \A i \in Jobs : job'[i].at = "speech" <=> job[i].at = "speech"
    BY <1>2 DEF Working
  <2>3. (job'[Worker].at \in Working) <=> (job[Worker].at \in Working)
    BY <1>2, NoneIsApart DEF Jobs
  <2>4. up
    BY <1>1 DEF NobodyForgotten
  <2>5. QED BY <1>1, <2>1, <2>2, <2>3, <2>4 DEF NobodyForgotten, queues
<1>6. OwnVideo'
  <2>1. \A c \in Callers : job'[c].at = "done" => job[c].at = "done"
    BY <1>2 DEF Working, Jobs
  <2>2. url' = url /\ got' = got
    OBVIOUS
  <2>3. QED BY <1>1, <2>1, <2>2 DEF OwnVideo
<1>7. QED BY <1>2, <1>3, <1>4, <1>5, <1>6, SortedIInvNext

\* A job whose audio is at hand gets its place with the transcription service.
LEMMA JobTranscribes ==
    ASSUME IInv, NEW j \in Jobs, job[j].at \in Working \ {"speech"},
           NEW content \in {"partial", "whole"}, Transcribe(j, content), SharedOK',
           UNCHANGED <<up, url, cache, got>>
    PROVE  IInv'
<1> DEFINE w == [job[j] EXCEPT !.at = "speech", !.text = content]
<1>1. SharedOK /\ QueuesOK /\ MediaOK /\ JobsOK /\ NobodyForgotten /\ OwnVideo
  BY SortedIInv
<1>2. /\ w \in Job /\ w.at = "speech" /\ w.text = content /\ w.video = job[j].video
      /\ w.video \in Urls
  BY <1>1 DEF JobsOK, JobInv, Job, Working
<1>3. /\ job' \in [Jobs -> Job] /\ job'[j] = w
      /\ \A i \in Jobs \ {j} : job'[i] = job[i]
  BY <1>1, <1>2 DEF JobsOK, Transcribe
<1> HIDE DEF w
<1>4. UNCHANGED <<queue, processing, up, url, cache, got>>
  BY DEF Transcribe
<1>5. QueuesOK' /\ MediaOK'
  BY <1>1, <1>4 DEF QueuesOK, MediaOK, Transcribe
<1>6. JobsOK'
  BY <1>1, <1>2, <1>3, <1>4 DEF JobsOK, JobInv, Jobs
<1>7. OwnVideo'
  <2>1. \A c \in Callers : job'[c].at = "done" => job[c].at = "done"
    BY <1>2, <1>3 DEF Jobs
  <2>2. url' = url /\ got' = got
    BY <1>4
  <2>3. QED BY <1>1, <2>1, <2>2 DEF OwnVideo
<1>8. ~InLine(j) /\ speaking # j /\ up
  BY <1>1 DEF NobodyForgotten, Working
<1>9. NobodyForgotten'
  <2>1. /\ processing' = processing /\ queue' = queue /\ up' = up
        /\ job'[Worker].at \in Working <=> job[Worker].at \in Working
    BY <1>2, <1>3, <1>4 DEF Working, Jobs
  <2>2. \A i \in Jobs \ {j} : job'[i].at = job[i].at
    BY <1>3
  <2>3. CASE speaking = None
    <3>1. speaking' = j /\ waiting' = waiting /\ waiting = <<>>
      BY <1>1, <2>3 DEF Transcribe, NobodyForgotten
    <3>2. \A i \in Jobs : ~InLine(i) /\ ~InLine(i)' /\ speaking # i
      BY <2>3, <3>1, NoneIsApart DEF InLine
    <3>3. QED BY <1>1, <1>2, <1>3, <1>8, <2>1, <2>2, <3>1, <3>2, NoneIsApart DEF NobodyForgotten
  <2>4. CASE speaking # None
    <3>1. speaking' = speaking /\ waiting' = Append(waiting, j)
      BY <2>4 DEF Transcribe
    <3>2. /\ waiting \in Seq(Jobs) /\ Len(waiting') = Len(waiting) + 1
          /\ waiting'[Len(waiting) + 1] = j
          /\ \A k \in 1..Len(waiting) : waiting'[k] = waiting[k]
      BY <1>1, <3>1 DEF QueuesOK
    <3>3. InLine(j)' /\ \A i \in Jobs \ {j} : InLine(i)' <=> InLine(i)
      BY <3>2 DEF InLine
    <3>4. \A k, l \in 1..Len(waiting') : waiting'[k] = waiting'[l] => k = l
      BY <1>1, <1>8, <3>2 DEF NobodyForgotten, InLine
    <3>5. \A i \in Jobs : job'[i].at = "speech" <=> (speaking' = i \/ InLine(i)')
      BY <1>1, <1>2, <1>3, <3>1, <3>3 DEF NobodyForgotten
    <3>6. \A i \in Jobs : speaking' = i => ~InLine(i)'
      BY <1>1, <1>8, <3>1, <3>3 DEF NobodyForgotten
    <3>7. QED BY <1>1, <1>8, <2>1, <2>4, <3>1, <3>4, <3>5, <3>6 DEF NobodyForgotten
  <2>5. QED BY <2>3, <2>4
<1>10. QED BY <1>3, <1>5, <1>6, <1>7, <1>9, SortedIInvNext

\* A transcription is over.
LEMMA SpeakerMoves ==
    ASSUME IInv, NEW j, j = speaking, speaking # None, NEW text \in {"captions", "whole", "partial", "failed"},
           Transcribed(text), SharedOK'
    PROVE  IInv'
<1> DEFINE w == [job[j] EXCEPT !.at = "store", !.text = text]
<1>1. SharedOK /\ QueuesOK /\ MediaOK /\ JobsOK /\ NobodyForgotten /\ OwnVideo
  BY SortedIInv
<1>2. j \in Jobs /\ job[j].at = "speech" /\ ~InLine(j) /\ up
  BY <1>1 DEF QueuesOK, NobodyForgotten, Working
<1>3. /\ w \in Job /\ w.at = "store" /\ w.text = text /\ w.video = job[j].video
      /\ w.video \in Urls
  BY <1>1, <1>2 DEF JobsOK, JobInv, Job, Working
<1>4. /\ job' \in [Jobs -> Job] /\ job'[j] = w
      /\ \A i \in Jobs \ {j} : job'[i] = job[i]
  BY <1>1, <1>2, <1>3 DEF JobsOK, Transcribed
<1> HIDE DEF w
<1>5. /\ UNCHANGED <<queue, processing, up, url, cache, got>>
      /\ speaking' = (IF waiting = <<>> THEN None ELSE Head(waiting))
      /\ waiting' = Rest(waiting)
  BY DEF Transcribed, setup, files
<1>6. MediaOK' /\ JobsOK'
  BY <1>1, <1>3, <1>4, <1>5 DEF MediaOK, JobsOK, JobInv, Jobs
<1>7. OwnVideo'
  <2>1. \A c \in Callers : job'[c].at = "done" => job[c].at = "done"
    BY <1>3, <1>4 DEF Jobs
  <2>2. url' = url /\ got' = got
    BY <1>5
  <2>3. QED BY <1>1, <2>1, <2>2 DEF OwnVideo
<1>8. /\ processing' = processing /\ queue' = queue /\ up' = up
      /\ job'[Worker].at \in Working <=> job[Worker].at \in Working
      /\ \A i \in Jobs \ {j} : job'[i].at = job[i].at
      /\ job'[j].at = "store"
  BY <1>2, <1>3, <1>4, <1>5 DEF Working, Jobs
<1>9. CASE waiting = <<>>
  <2>1. speaking' = None /\ waiting' = <<>>
    BY <1>5, <1>9 DEF Rest
  <2>2. \A i \in Jobs : ~InLine(i) /\ ~InLine(i)' /\ speaking' # i
    BY <1>9, <2>1, NoneIsApart DEF InLine
  <2>3. QueuesOK'
    <3>1. processing' \in BOOLEAN /\ queue' \in Seq(Urls) /\ waiting' \in Seq(Jobs)
      BY <1>1, <1>5, <2>1 DEF QueuesOK
    <3>2. QED BY <2>1, <3>1 DEF QueuesOK
  <2>4. \A i \in Jobs : job'[i].at # "speech"
    BY <1>1, <1>8, <2>2 DEF NobodyForgotten
  <2>5. NobodyForgotten'
    BY <1>1, <1>2, <1>8, <2>1, <2>2, <2>4 DEF NobodyForgotten
  <2>6. QED BY <1>4, <1>6, <1>7, <2>3, <2>5, SortedIInvNext
<1>10. CASE waiting # <<>>
  <2>1. speaking' = Head(waiting) /\ waiting' = Tail(waiting)
    BY <1>5, <1>10 DEF Rest
  <2>2. /\ waiting \in Seq(Jobs) /\ Len(waiting) \in Nat /\ Len(waiting) > 0
        /\ Head(waiting) = waiting[1] /\ Head(waiting) \in Jobs
        /\ Tail(waiting) \in Seq(Jobs) /\ Len(Tail(waiting)) = Len(waiting) - 1
        /\ \A k \in 1..(Len(waiting) - 1) : Tail(waiting)[k] = waiting[k + 1]
    BY <1>1, <1>10 DEF QueuesOK
  <2>3. QueuesOK'
    BY <1>1, <1>5, <2>1, <2>2 DEF QueuesOK
  <2>4. ASSUME NEW i \in Jobs
        PROVE  InLine(i) <=> (i = Head(waiting) \/ InLine(i)')
    <3>1. ASSUME InLine(i) PROVE i = Head(waiting) \/ InLine(i)'
      <4>1. PICK k \in 1..Len(waiting) : waiting[k] = i
        BY <3>1 DEF InLine
      <4>2. CASE k = 1
        BY <2>2, <4>1, <4>2
      <4>3. CASE k # 1
        <5>1. k - 1 \in 1..Len(Tail(waiting)) /\ Tail(waiting)[k - 1] = i
          BY <2>2, <4>1, <4>3
        <5>2. QED BY <2>1, <5>1 DEF InLine
      <4>4. QED BY <4>2, <4>3
    <3>2. ASSUME i = Head(waiting) PROVE InLine(i)
      BY <2>2, <3>2 DEF InLine
    <3>3. ASSUME InLine(i)' PROVE InLine(i)
      <4>1. PICK k \in 1..Len(Tail(waiting)) : Tail(waiting)[k] = i
        BY <2>1, <3>3 DEF InLine
      <4>2. k + 1 \in 1..Len(waiting) /\ waiting[k + 1] = i
        BY <2>2, <4>1
      <4>3. QED BY <4>2 DEF InLine
    <3>4. QED BY <3>1, <3>2, <3>3
  <2>a. PICK h \in Jobs : h = Head(waiting)
    BY <2>2
  <2>5. ~InLine(h)'
    <3> SUFFICES ASSUME NEW k \in 1..Len(Tail(waiting)), Tail(waiting)[k] = h
                 PROVE  FALSE
      BY <2>1 DEF InLine
    <3>1. k + 1 \in 1..Len(waiting) /\ 1 \in 1..Len(waiting) /\ waiting[k + 1] = waiting[1]
      BY <2>2, <2>a
    <3>2. QED BY <1>1, <3>1 DEF NobodyForgotten
  <2>6. \A k, l \in 1..Len(waiting') : waiting'[k] = waiting'[l] => k = l
    <3> SUFFICES ASSUME NEW k \in 1..Len(Tail(waiting)), NEW l \in 1..Len(Tail(waiting)),
                        Tail(waiting)[k] = Tail(waiting)[l]
                 PROVE  k = l
      BY <2>1
    <3>1. /\ k + 1 \in 1..Len(waiting) /\ l + 1 \in 1..Len(waiting)
          /\ waiting[k + 1] = waiting[l + 1]
      BY <2>2
    <3>2. k + 1 = l + 1
      BY <1>1, <3>1 DEF NobodyForgotten
    <3>3. QED BY <2>2, <3>2
  <2>7. \A i \in Jobs : job'[i].at = "speech" <=> (speaking' = i \/ InLine(i)')
    <3>1. ~InLine(j)' /\ j # Head(waiting)
      BY <1>2, <2>4
    <3>2. QED BY <1>1, <1>8, <2>1, <2>4, <3>1 DEF NobodyForgotten
  <2>8. \A i \in Jobs : speaking' = i => ~InLine(i)'
    BY <2>1, <2>5, <2>a
  <2>9. NobodyForgotten'
    BY <1>1, <1>2, <1>8, <2>1, <2>2, <2>6, <2>7, <2>8, NoneIsApart DEF NobodyForgotten
  <2>10. QED BY <1>4, <1>6, <1>7, <2>3, <2>9, SortedIInvNext
<1>11. QED BY <1>9, <1>10

\* What the worker takes from a queue is a job of its own.
LEMMA TakenJob ==
    ASSUME NEW q \in Seq(Urls)
    PROVE  /\ Taken(q) \in Job /\ JobInv(Taken(q)) /\ Rest(q) \in Seq(Urls)
           /\ Taken(q).at \in {"idle", "cache"}
           /\ Taken(q).at \in Working <=> q # <<>>
           /\ q = <<>> => Rest(q) = <<>>
<1>1. CASE q = <<>>
  <2>1. Taken(q) = [at |-> "idle", video |-> None, text |-> "none"] /\ Rest(q) = <<>>
    BY <1>1 DEF Taken, At, Rest
  <2>2. Taken(q) \in Job /\ JobInv(Taken(q)) /\ Taken(q).at \notin Working /\ Taken(q).at = "idle"
    BY <2>1 DEF Job, JobInv, Working
  <2>3. QED BY <1>1, <2>1, <2>2
<1>2. CASE q # <<>>
  <2>1. Head(q) \in Urls /\ Tail(q) \in Seq(Urls)
    BY <1>2
  <2>2. Taken(q) = [at |-> "cache", video |-> Head(q), text |-> "none"] /\ Rest(q) = Tail(q)
    BY <1>2 DEF Taken, At, Rest
  <2>3. QED BY <1>2, <2>1, <2>2 DEF Job, JobInv, Working
<1>3. QED BY <1>1, <1>2

\* A job is over: the caller has what it asked for, the worker goes on.
LEMMA JobFinishes ==
    ASSUME IInv, NEW j \in Jobs, job[j].at \in Working \ {"speech"}, NEW media \in Media,
           Finish(j, media), SharedOK', UNCHANGED <<up, waiting, speaking, url>>,
           Key(media.video) = Key(job[j].video),
           cache' \in [Keys -> Media \cup {NoMedia}],
           \A k \in Keys : cache'[k] # NoMedia => Key(cache'[k].video) = k
    PROVE  IInv'
<1>1. SharedOK /\ QueuesOK /\ MediaOK /\ JobsOK /\ NobodyForgotten /\ OwnVideo
  BY SortedIInv
<1>2. /\ \A i \in Jobs : InLine(i)' <=> InLine(i)
      /\ up /\ up' = up /\ speaking' = speaking /\ waiting' = waiting /\ url' = url
  BY <1>1 DEF InLine, NobodyForgotten
<1>3. job[j].video \in Urls
  BY <1>1 DEF JobsOK, JobInv
<1>4. CASE j = Worker
  <2>1. /\ job' = [job EXCEPT ![Worker] = Taken(queue)] /\ queue' = Rest(queue)
        /\ processing' = (queue # <<>>) /\ got' = got
    BY <1>4 DEF Finish
  <2>2. /\ Taken(queue) \in Job /\ JobInv(Taken(queue)) /\ Rest(queue) \in Seq(Urls)
        /\ Taken(queue).at \in {"idle", "cache"}
        /\ Taken(queue).at \in Working <=> queue # <<>>
        /\ queue = <<>> => Rest(queue) = <<>>
    BY <1>1, TakenJob DEF QueuesOK
  <2>3. /\ job' \in [Jobs -> Job] /\ job'[Worker] = Taken(queue)
        /\ \A i \in Callers : job'[i] = job[i]
    BY <1>1, <2>1, <2>2, NoneIsApart DEF JobsOK, Jobs
  <2>4. QueuesOK' /\ MediaOK'
    BY <1>1, <1>2, <2>1, <2>2 DEF QueuesOK, MediaOK
  <2>5. JobsOK'
    BY <1>1, <1>2, <2>2, <2>3 DEF JobsOK, Jobs
  <2>6. \A i \in Jobs : job'[i].at = "speech" <=> job[i].at = "speech"
    BY <1>4, <2>2, <2>3 DEF Jobs
  <2>7. NobodyForgotten'
    <3>1. (processing' <=> job'[Worker].at \in Working) /\ (queue' # <<>> => processing')
      BY <2>1, <2>2, <2>3
    <3>2. QED BY <1>1, <1>2, <2>6, <3>1 DEF NobodyForgotten
  <2>8. OwnVideo'
    BY <1>1, <1>2, <2>1, <2>3 DEF OwnVideo
  <2>9. QED BY <2>4, <2>5, <2>7, <2>8, SortedIInvNext
<1>5. CASE j \in Callers
  <2>1. /\ job' = [job EXCEPT ![j] = At("done", url[j])] /\ got' = [got EXCEPT ![j] = media]
        /\ queue' = queue /\ processing' = processing
    BY <1>5, NoneIsApart DEF Finish
  <2>2. job[j].video = url[j]
    BY <1>1, <1>5 DEF JobsOK
  <2>3. /\ At("done", url[j]) \in Job /\ At("done", url[j]).at = "done"
        /\ At("done", url[j]).video = url[j] /\ JobInv(At("done", url[j]))
    <3>1. At("done", url[j]) = [at |-> "done", video |-> url[j], text |-> "none"]
      BY DEF At
    <3>2. QED BY <1>3, <2>2, <3>1 DEF Job, JobInv, Working
  <2>4. /\ job' \in [Jobs -> Job] /\ job'[j].at = "done" /\ job'[j].video = url[j]
        /\ JobInv(job'[j]) /\ \A i \in Jobs \ {j} : job'[i] = job[i]
    BY <1>1, <2>1, <2>3 DEF JobsOK
  <2>5. QueuesOK' /\ MediaOK'
    BY <1>1, <1>2, <1>5, <2>1 DEF QueuesOK, MediaOK
  <2>6. JobsOK'
    BY <1>1, <1>2, <2>4 DEF JobsOK, Jobs
  <2>7. /\ \A i \in Jobs : job'[i].at = "speech" <=> job[i].at = "speech"
        /\ job'[Worker] = job[Worker]
    BY <1>5, <2>4, NoneIsApart DEF Jobs
  <2>8. NobodyForgotten'
    BY <1>1, <1>2, <2>1, <2>7 DEF NobodyForgotten
  <2>9. OwnVideo'
    <3> SUFFICES ASSUME NEW c \in Callers, job'[c].at = "done"
                 PROVE  \/ got'[c].video = url[c]
                        \/ got'[c].video \notin YouTube /\ url[c] \notin YouTube
      BY <1>2 DEF OwnVideo
    <3>1. CASE c = j
      <4>1. got'[c] = media
        BY <1>1, <1>5, <2>1, <3>1 DEF MediaOK
      <4>2. media.video \in Urls /\ Key(media.video) = Key(url[c])
        BY <2>2, <3>1 DEF Media
      <4>3. QED BY <1>3, <2>2, <3>1, <4>1, <4>2, SameKey
    <3>2. CASE c # j
      <4>1. got'[c] = got[c] /\ job[c].at = "done"
        BY <1>1, <2>1, <2>4, <3>2 DEF MediaOK, Jobs
      <4>2. QED BY <1>1, <4>1 DEF OwnVideo
    <3>3. QED BY <3>1, <3>2
  <2>10. QED BY <2>5, <2>6, <2>8, <2>9, SortedIInvNext
<1>6. QED BY <1>4, <1>5 DEF Jobs

\* The process ends: nobody is at work any more.
LEMMA EndsKeepsIInv ==
    ASSUME IInv, Ends, UNCHANGED <<setup, files, got, met>>,
           faults' \in 0..MaxFaults, crashes' \in 0..MaxCrashes
    PROVE  IInv'
<1>1. SharedOK /\ QueuesOK /\ MediaOK /\ JobsOK /\ NobodyForgotten /\ OwnVideo
  BY SortedIInv
<1>2. /\ up' = FALSE /\ queue' = <<>> /\ processing' = FALSE /\ waiting' = <<>>
      /\ speaking' = None /\ url' = url /\ deepgram' = deepgram /\ got' = got
      /\ cache' = cache /\ file' = file /\ temp' = temp /\ met' = met
  BY DEF Ends, setup, files
<1>3. ASSUME NEW i \in Jobs
      PROVE  /\ job'[i] \in Job /\ job'[i].at \notin Working \cup {"waits"}
             /\ i \in Callers => job'[i].video = url[i] /\ job'[i].at # "idle"
             /\ i \in Callers /\ job'[i].at = "done" => job[i].at = "done"
  <2>1. job[i] \in Job
    BY <1>1 DEF JobsOK
  <2>2. CASE i = Worker
    <3>1. job'[i] = At("idle", None)
      BY <2>2 DEF Ends
    <3>2. QED BY <2>2, <3>1, NoneIsApart DEF At, Job, Working
  <2>3. CASE i # Worker /\ job[i].at \in Working \cup {"waits"}
    <3>1. job'[i] = At("lost", url[i]) /\ url[i] = job[i].video
      BY <1>1, <2>3 DEF Ends, JobsOK, Jobs
    <3>2. job[i].video \in Urls \cup {None}
      BY <2>1 DEF Job
    <3>3. QED BY <3>1, <3>2 DEF At, Job, Working
  <2>4. CASE i # Worker /\ job[i].at \notin Working \cup {"waits"}
    <3>1. job'[i] = job[i]
      BY <2>4 DEF Ends
    <3>2. QED BY <1>1, <2>1, <2>4, <3>1 DEF JobsOK
  <2>5. QED BY <2>2, <2>3, <2>4
<1>4. cut' \subseteq Urls
  <2>1. \A j \in Jobs : job[j].at = "write" => job[j].video \in Urls
    BY <1>1 DEF JobsOK, JobInv, Working
  <2>2. QED BY <1>1, <2>1 DEF Ends, SharedOK
<1>5. SharedOK' /\ MediaOK'
  BY <1>1, <1>2, <1>4 DEF SharedOK, MediaOK
<1>6. QueuesOK'
  <2>1. queue' \in Seq(Urls) /\ waiting' \in Seq(Jobs)
    BY <1>2
  <2>2. QED BY <1>2, <2>1 DEF QueuesOK
<1>7. JobsOK'
  <2>1. job' = [i \in Jobs |-> job'[i]]
    BY DEF Ends
  <2>2. job' \in [Jobs -> Job]
    BY <1>3, <2>1
  <2>3. \A i \in Jobs : JobInv(job'[i])
    BY <1>3 DEF JobInv, Working
  <2>4. \A c \in Callers : c \in Jobs
    BY DEF Jobs
  <2>5. QED BY <1>2, <1>3, <2>2, <2>3, <2>4 DEF JobsOK
<1>8. NobodyForgotten'
  <2>1. \A i \in Jobs : ~InLine(i)' /\ speaking' # i /\ job'[i].at \notin Working \cup {"waits"}
    BY <1>2, <1>3, NoneIsApart DEF InLine
  <2>2. Worker \in Jobs /\ "speech" \in Working
    BY DEF Jobs, Working
  <2>3. QED BY <1>2, <2>1, <2>2 DEF NobodyForgotten
<1>9. OwnVideo'
  <2>1. \A c \in Callers : job'[c].at = "done" => job[c].at = "done"
    BY <1>3 DEF Jobs
  <2>2. QED BY <1>1, <1>2, <2>1 DEF OwnVideo
<1>10. QED BY <1>5, <1>6, <1>7, <1>8, <1>9, SortedIInvNext

\* A call: its url is queued, and a worker that is off takes it at once.
LEMMA CallKeepsIInv ==
    ASSUME IInv, NEW c \in Callers, ProcessVideo(c)
    PROVE  IInv'
<1> DEFINE asked == Append(queue, url[c])
<1> DEFINE left == IF processing THEN asked ELSE Rest(asked)
<1> DEFINE mine == At(IF \E k \in 1..Len(left) : left[k] = url[c] THEN "waits" ELSE "cache", url[c])
<1>1. SharedOK /\ QueuesOK /\ MediaOK /\ JobsOK /\ NobodyForgotten /\ OwnVideo
  BY SortedIInv
<1>2. /\ c \in Jobs /\ Worker \in Jobs /\ c # Worker /\ url[c] \in Urls
  BY <1>1, NoneIsApart, CallersAsk DEF Jobs, SharedOK
<1>3. asked \in Seq(Urls) /\ asked # <<>>
  BY <1>1, <1>2 DEF QueuesOK
<1>4. /\ Taken(asked) \in Job /\ JobInv(Taken(asked)) /\ Rest(asked) \in Seq(Urls)
      /\ Taken(asked).at = "cache"
  BY <1>3, TakenJob DEF Working
<1>5. mine \in Job /\ JobInv(mine) /\ mine.at \in {"waits", "cache"} /\ mine.video = url[c]
  <2>1. PICK place \in {"waits", "cache"} : mine = [at |-> place, video |-> url[c], text |-> "none"]
    BY DEF At
  <2>2. QED BY <1>2, <2>1 DEF Job, JobInv, Working
<1>6. /\ queue' = left /\ processing' = TRUE /\ job[c].at = "new" /\ up
      /\ job' = [job EXCEPT ![c] = mine, ![Worker] = IF processing THEN @ ELSE Taken(asked)]
      /\ UNCHANGED <<up, waiting, speaking, setup, files, got, history, faults>>
  BY DEF ProcessVideo
<1> HIDE DEF mine, asked
<1>7. /\ job' \in [Jobs -> Job] /\ job'[c] = mine
      /\ job'[Worker] = (IF processing THEN job[Worker] ELSE Taken(asked))
      /\ \A i \in Jobs \ {c, Worker} : job'[i] = job[i]
  BY <1>1, <1>2, <1>4, <1>5, <1>6 DEF JobsOK
<1>8. SharedOK' /\ MediaOK'
  BY <1>1, <1>6 DEF SharedOK, MediaOK, setup, files, history
<1>9. QueuesOK'
  BY <1>1, <1>3, <1>4, <1>6 DEF QueuesOK
<1>10. JobsOK'
  <2>1. \A i \in Jobs : JobInv(job'[i])
    <3>1. JobInv(job'[c])
      BY <1>5, <1>7
    <3>2. JobInv(job'[Worker])
      <4>1. CASE processing
        BY <1>1, <1>2, <1>7, <4>1 DEF JobsOK
      <4>2. CASE ~processing
        BY <1>4, <1>7, <4>2
      <4>3. QED BY <4>1, <4>2
    <3>3. ASSUME NEW i \in Jobs \ {c, Worker} PROVE JobInv(job'[i])
      BY <1>1, <1>7, <3>3 DEF JobsOK
    <3>4. QED BY <3>1, <3>2, <3>3
  <2>2. \A i \in Callers : job'[i].video = url[i] /\ job'[i].at # "idle"
    <3>1. job'[c].video = url[c] /\ job'[c].at # "idle"
      BY <1>5, <1>7
    <3>2. ASSUME NEW i \in Callers \ {c} PROVE job'[i] = job[i]
      BY <1>2, <1>7, NoneIsApart DEF Jobs
    <3>3. QED BY <1>1, <3>1, <3>2 DEF JobsOK
  <2>3. QED BY <1>6, <1>7, <2>1, <2>2 DEF JobsOK, setup
<1>11. NobodyForgotten'
  <2>1. job'[Worker].at \in Working
    BY <1>1, <1>4, <1>7 DEF NobodyForgotten, Working
  <2>2. \A i \in Jobs : InLine(i)' <=> InLine(i)
    BY <1>6 DEF InLine
  <2>3. \A i \in Jobs : job'[i].at = "speech" <=> job[i].at = "speech"
    <3>1. job'[c].at # "speech" /\ job[c].at # "speech"
      BY <1>5, <1>6, <1>7
    <3>2. job'[Worker].at = "speech" <=> job[Worker].at = "speech"
      <4>1. CASE processing
        BY <1>7, <4>1
      <4>2. CASE ~processing
        BY <1>1, <1>4, <1>7, <4>2 DEF NobodyForgotten, Working
      <4>3. QED BY <4>1, <4>2
    <3>3. QED BY <1>7, <3>1, <3>2
  <2>4. QED BY <1>1, <1>6, <2>1, <2>2, <2>3 DEF NobodyForgotten
<1>12. OwnVideo'
  <2>1. \A i \in Callers : job'[i].at = "done" => job[i].at = "done"
    BY <1>2, <1>5, <1>7, NoneIsApart DEF Jobs
  <2>2. url' = url /\ got' = got
    BY <1>6 DEF setup
  <2>3. QED BY <1>1, <2>1, <2>2 DEF OwnVideo
<1>13. QED BY <1>8, <1>9, <1>10, <1>11, <1>12, SortedIInvNext

\* A step of processVideoFromUrl.
LEMMA GoesKeepsIInv ==
    ASSUME IInv, NEW j \in Jobs, Goes(j)
    PROVE  IInv'
<1>1. /\ SharedOK /\ QueuesOK /\ MediaOK /\ JobsOK /\ NobodyForgotten /\ OwnVideo
      /\ job[j] \in Job /\ JobInv(job[j])
  BY SortedIInv DEF JobsOK
<1>a. ASSUME NEW w \in Job, job' = [job EXCEPT ![j] = w], JobInv(w), w.video = job[j].video,
             job[j].at \in Working \ {"speech"}, w.at \in Working \ {"speech"},
             UNCHANGED <<queues, setup, up, cache, got>>, SharedOK'
      PROVE  IInv'
  <2>1. UNCHANGED <<queues, url, up, cache, got>>
    BY <1>a DEF setup
  <2>2. QED BY <1>a, <2>1, OneJobMoves
<1>2. CASE Cached(j)
  <2>1. job[j].at = "cache" /\ job[j].video \in Urls
    BY <1>1, <1>2 DEF Cached, JobInv, Working
  <2>2. Key(job[j].video) \in Keys
    BY <2>1 DEF Key, Keys
  <2>3. PICK media : media = cache[Key(job[j].video)]
    OBVIOUS
  <2>4. /\ media \in Media /\ Key(media.video) = Key(job[j].video) /\ Finish(j, media)
    BY <1>1, <1>2, <2>2, <2>3 DEF Cached, MediaOK
  <2>5. SharedOK' /\ UNCHANGED <<up, waiting, speaking, url, cache>>
    BY <1>1, <1>2 DEF Cached, SharedOK, setup, files, history
  <2>6. "cache" \in Working \ {"speech"}
    BY DEF Working
  <2>7. /\ cache' \in [Keys -> Media \cup {NoMedia}]
        /\ \A k \in Keys : cache'[k] # NoMedia => Key(cache'[k].video) = k
    BY <1>1, <2>5 DEF MediaOK
  <2>8. QED BY <2>1, <2>4, <2>5, <2>6, <2>7, JobFinishes
<1>3. CASE Missed(j)
  <2> DEFINE w == [job[j] EXCEPT !.at = "info"]
  <2>1. /\ w \in Job /\ JobInv(w) /\ w.video = job[j].video
        /\ w.at \in Working \ {"speech"} /\ job[j].at \in Working \ {"speech"}
        /\ job[j].video \in Urls
    BY <1>1, <1>3 DEF Missed, Job, JobInv, Working
  <2>2. job' = [job EXCEPT ![j] = w]
    BY <1>3 DEF Missed
  <2>3. SharedOK'
    BY <1>1, <1>3, <2>1 DEF Missed, SharedOK, setup, files
  <2>4. QED BY <1>3, <1>a, <2>1, <2>2, <2>3 DEF Missed, files
<1>4. CASE FetchInfo(j)
  <2> DEFINE w == IF job[j].video \in Captioned
                  THEN [job[j] EXCEPT !.at = "store", !.text = "captions"]
                  ELSE [job[j] EXCEPT !.at = "audio"]
  <2>1. /\ w \in Job /\ JobInv(w) /\ w.video = job[j].video
        /\ w.at \in Working \ {"speech"} /\ job[j].at \in Working \ {"speech"}
    BY <1>1, <1>4 DEF FetchInfo, Job, JobInv, Working
  <2>2. job' = [job EXCEPT ![j] = w]
    BY <1>1, <1>4 DEF FetchInfo, JobsOK
  <2>3. SharedOK'
    BY <1>1, <1>4 DEF FetchInfo, SharedOK, setup, files, history
  <2>4. QED BY <1>4, <1>a, <2>1, <2>2, <2>3 DEF FetchInfo, files
<1>5. CASE UseFile(j)
  <2>1. job[j].at \in Working \ {"speech"} /\ job[j].video \in Urls
    BY <1>1, <1>5 DEF UseFile, JobInv, Working
  <2>2. file[job[j].video] \in {"partial", "whole"}
    BY <1>1, <1>5, <2>1 DEF UseFile, SharedOK
  <2>3. PICK content : content = file[job[j].video]
    OBVIOUS
  <2>4. Transcribe(j, content) /\ UNCHANGED <<up, url, cache, got>>
    BY <1>5, <2>3 DEF UseFile, setup, files
  <2>5. SharedOK'
    BY <1>1, <1>5 DEF UseFile, SharedOK, setup, files, history
  <2>6. QED BY <2>1, <2>2, <2>3, <2>4, <2>5, JobTranscribes
<1>6. CASE TooShort(j)
  <2> DEFINE w == [job[j] EXCEPT !.at = "store", !.text = "failed"]
  <2>1. /\ w \in Job /\ JobInv(w) /\ w.video = job[j].video
        /\ w.at \in Working \ {"speech"} /\ job[j].at \in Working \ {"speech"}
    BY <1>1, <1>6 DEF TooShort, Job, JobInv, Working
  <2>2. job' = [job EXCEPT ![j] = w]
    BY <1>6 DEF TooShort
  <2>3. SharedOK'
    BY <1>1, <1>6 DEF TooShort, SharedOK, setup, files, history
  <2>4. QED BY <1>6, <1>a, <2>1, <2>2, <2>3 DEF TooShort, files
<1>7. CASE NoFile(j)
  <2> DEFINE w == [job[j] EXCEPT !.at = "fetch"]
  <2>1. /\ w \in Job /\ JobInv(w) /\ w.video = job[j].video
        /\ w.at \in Working \ {"speech"} /\ job[j].at \in Working \ {"speech"}
    BY <1>1, <1>7 DEF NoFile, Job, JobInv, Working
  <2>2. job' = [job EXCEPT ![j] = w]
    BY <1>7 DEF NoFile
  <2>3. SharedOK'
    BY <1>1, <1>7 DEF NoFile, SharedOK, setup, files, history
  <2>4. QED BY <1>7, <1>a, <2>1, <2>2, <2>3 DEF NoFile, files
<1>8. CASE OpenFile(j)
  <2> DEFINE w == [job[j] EXCEPT !.at = "write"]
  <2>1. /\ w \in Job /\ JobInv(w) /\ w.video = job[j].video /\ job[j].video \in Urls
        /\ w.at \in Working \ {"speech"} /\ job[j].at \in Working \ {"speech"}
    BY <1>1, <1>8 DEF OpenFile, Job, JobInv, Working
  <2>2. job' = [job EXCEPT ![j] = w]
    BY <1>8 DEF OpenFile
  <2>3. SharedOK'
    BY <1>1, <1>8, <2>1 DEF OpenFile, SharedOK, setup, history
  <2>4. QED BY <1>8, <1>a, <2>1, <2>2, <2>3 DEF OpenFile
<1>9. CASE FileWritten(j)
  <2>1. job[j].at \in Working \ {"speech"} /\ job[j].video \in Urls
    BY <1>1, <1>9 DEF FileWritten, JobInv, Working
  <2>2. Transcribe(j, "whole") /\ UNCHANGED <<up, url, cache, got>>
    BY <1>9 DEF FileWritten, setup
  <2>3. SharedOK'
    BY <1>1, <1>9, <2>1 DEF FileWritten, SharedOK, setup, history
  <2>4. QED BY <2>1, <2>2, <2>3, JobTranscribes
<1>10. CASE TempGone(j)
  <2>1. faults' \in 0..MaxFaults /\ crashes' \in 0..MaxCrashes
    BY <1>1, <1>10 DEF TempGone, SharedOK
  <2>2. QED BY <1>10, <2>1, EndsKeepsIInv DEF TempGone
<1>11. CASE Store(j)
  <2>1. PICK media : media = [video |-> job[j].video, text |-> job[j].text]
    OBVIOUS
  <2>2. /\ media \in Media /\ media.video = job[j].video /\ job[j].video \in Urls
        /\ job[j].at \in Working \ {"speech"}
    BY <1>1, <1>11, <2>1 DEF Store, Job, JobInv, Media, Working
  <2>3. /\ Finish(j, media) /\ cache' = [cache EXCEPT ![Key(job[j].video)] = media]
        /\ UNCHANGED <<up, waiting, speaking, url>>
    BY <1>11, <2>1 DEF Store, setup
  <2>4. SharedOK'
    BY <1>1, <1>11 DEF Store, SharedOK, setup, history
  <2>5. /\ cache' \in [Keys -> Media \cup {NoMedia}]
        /\ \A k \in Keys : cache'[k] # NoMedia => Key(cache'[k].video) = k
    BY <1>1, <2>2, <2>3 DEF MediaOK
  <2>6. QED BY <2>2, <2>3, <2>4, <2>5, JobFinishes
<1>12. QED
  BY <1>2, <1>3, <1>4, <1>5, <1>6, <1>7, <1>8, <1>9, <1>10, <1>11 DEF Goes

\* Every step keeps the invariant.
LEMMA NextIInv == IInv /\ [Next]_vars => IInv'
<1> SUFFICES ASSUME IInv, [Next]_vars PROVE IInv'
  OBVIOUS
<1>1. SharedOK /\ QueuesOK /\ MediaOK /\ JobsOK /\ NobodyForgotten /\ OwnVideo
  BY SortedIInv
<1>2. CASE Crash
  <2>1. faults' \in 0..MaxFaults /\ crashes' \in 0..MaxCrashes
    BY <1>1, <1>2, BoundsAreNumbers DEF Crash, SharedOK
  <2>2. QED BY <1>2, <2>1, EndsKeepsIInv DEF Crash
<1>3. CASE Restart
  <2>1. /\ SharedOK' /\ QueuesOK' /\ MediaOK' /\ JobsOK'
    BY <1>1, <1>3 DEF Restart, SharedOK, QueuesOK, MediaOK, JobsOK, queues, setup, files, history
  <2>2. NobodyForgotten'
    BY <1>1, <1>3 DEF Restart, NobodyForgotten, InLine, queues
  <2>3. OwnVideo'
    BY <1>1, <1>3 DEF Restart, OwnVideo, setup
  <2>4. QED BY <2>1, <2>2, <2>3, SortedIInvNext
<1>4. CASE WorkerFails
  <2>1. faults' \in 0..MaxFaults /\ crashes' \in 0..MaxCrashes
    BY <1>1, <1>4, BoundsAreNumbers DEF WorkerFails, SharedOK
  <2>2. QED BY <1>4, <2>1, EndsKeepsIInv DEF WorkerFails
<1>5. CASE Speak
  <2>1. PICK j : j = speaking
    OBVIOUS
  <2>2. PICK text : text = job[speaking].text
    OBVIOUS
  <2>3. text \in {"captions", "whole", "partial", "failed"}
    <3>1. speaking \in Jobs /\ job[speaking].at = "speech"
      BY <1>1, <1>5 DEF Speak, QueuesOK, NobodyForgotten
    <3>2. QED BY <1>1, <2>2, <3>1 DEF JobsOK, JobInv, Job
  <2>4. SharedOK'
    BY <1>1, <1>5 DEF Speak, Transcribed, SharedOK, setup, files, history
  <2>5. Transcribed(text) /\ speaking # None
    BY <1>5, <2>2 DEF Speak
  <2>6. QED BY <2>1, <2>3, <2>4, <2>5, SpeakerMoves
<1>6. CASE SpeakFails
  <2>1. PICK j : j = speaking
    OBVIOUS
  <2>2. SharedOK'
    BY <1>1, <1>6, BoundsAreNumbers DEF SpeakFails, Transcribed, SharedOK, setup, files, history
  <2>3. QED BY <1>6, <2>1, <2>2, SpeakerMoves DEF SpeakFails
<1>7. CASE SpeakThrows
  <2>1. faults' \in 0..MaxFaults /\ crashes' \in 0..MaxCrashes
    BY <1>1, <1>7, BoundsAreNumbers DEF SpeakThrows, SharedOK
  <2>2. QED BY <1>7, <2>1, EndsKeepsIInv DEF SpeakThrows
<1>8. ASSUME NEW c \in Callers, CheckQueue(c) PROVE IInv'
  <2> DEFINE w == At("cache", url[c])
  <2>1. c \in Jobs /\ job[c].video = url[c] /\ url[c] \in Urls
    BY <1>1, CallersAsk DEF JobsOK, Jobs, SharedOK
  <2>2. w \in Job /\ JobInv(w) /\ w.video = job[c].video /\ w.at = "cache"
    BY <2>1 DEF At, Job, JobInv, Working
  <2>3. SharedOK' /\ UNCHANGED <<queues, url, up, cache, got>>
    BY <1>1, <1>8 DEF CheckQueue, SharedOK, setup, files, history
  <2>4. job' = [job EXCEPT ![c] = w] /\ job[c].at = "waits"
    BY <1>8 DEF CheckQueue
  <2>5. QED BY <2>1, <2>2, <2>3, <2>4, OneJobMoves
<1>9. ASSUME NEW c \in Callers, CallerFails(c) PROVE IInv'
  <2> DEFINE w == At("failed", url[c])
  <2>1. c \in Jobs /\ job[c].video = url[c] /\ url[c] \in Urls
    BY <1>1, CallersAsk DEF JobsOK, Jobs, SharedOK
  <2>2. w \in Job /\ JobInv(w) /\ w.video = job[c].video /\ w.at = "failed"
    BY <2>1 DEF At, Job, JobInv, Working
  <2>3. SharedOK' /\ UNCHANGED <<queues, url, up, cache, got>>
    BY <1>1, <1>9, <2>1, BoundsAreNumbers DEF CallerFails, SharedOK, setup, files
  <2>4. job' = [job EXCEPT ![c] = w] /\ job[c].at \in Working \ {"speech"}
    BY <1>9 DEF CallerFails
  <2>5. QED BY <2>1, <2>2, <2>3, <2>4, OneJobMoves
<1>10. CASE UNCHANGED vars
  <2>1. SharedOK' /\ QueuesOK' /\ MediaOK' /\ JobsOK'
    BY <1>1, <1>10 DEF vars, SharedOK, QueuesOK, MediaOK, JobsOK, queues, setup, files, history
  <2>2. NobodyForgotten' /\ OwnVideo'
    BY <1>1, <1>10 DEF vars, NobodyForgotten, InLine, queues, setup, OwnVideo
  <2>3. QED BY <2>1, <2>2, SortedIInvNext
<1>11. QED
  BY <1>2, <1>3, <1>4, <1>5, <1>6, <1>7, <1>8, <1>9, <1>10, CallKeepsIInv, GoesKeepsIInv
  DEF Next

\* IInv holds for any number of callers, videos, failing calls and crashes: no
\* queue of the services is left without its worker, each job that waits for a
\* transcription has one place, and a caller of processVideo is given its own
\* video, or one that shares its key of the cache.
THEOREM MediaInvariant == Spec => []IInv
<1>1. QED BY InitIInv, NextIInv, PTL DEF Spec

-----------------------------------------------------------------------------
(* Half transcripts and the end of the process.                            *)

Busy == Working \ {"cache"}

\* Two jobs at work on a video have met; a temporary file that is missed was
\* removed by a job that was met; a file that is not whole is being written, or
\* was cut off, or two jobs met over it; and so for the text of a job.
Meetings == \A i, j \in Jobs :
    i # j /\ job[i].at \in Busy /\ job[j].at \in Busy /\ job[i].video = job[j].video
      => job[i].video \in met
TempFiles == \A j \in Jobs :
    job[j].at = "write" /\ job[j].video \in Direct => job[j].video \in temp \cup met
HalfFiles == \A u \in Urls :
    file[u] = "partial" => \/ u \in met \cup cut
                           \/ \E j \in Jobs : job[j].at = "write" /\ job[j].video = u
Half(w) == w.at \in {"speech", "store"} /\ w.text = "partial"
HalfTexts == \A j \in Jobs : Half(job[j]) => job[j].video \in met \cup cut

Troubles == Meetings /\ TempFiles /\ HalfFiles /\ HalfTexts

\* What a step has to be like that takes no job to work, opens and finishes no
\* file, and reads none.
LEMMA QuietStep ==
    ASSUME Troubles, met \subseteq met', cut \subseteq cut', temp \subseteq temp', file' = file,
           \A i \in Jobs : job'[i].at \in Busy =>
               job[i].at \in Busy /\ job'[i].video = job[i].video,
           \A i \in Jobs : job'[i].at = "write" => job[i].at = "write",
           \A i \in Jobs : job[i].at = "write" =>
               \/ job'[i].at = "write" /\ job'[i].video = job[i].video
               \/ job[i].video \in cut',
           \A i \in Jobs : Half(job'[i]) => Half(job[i])
    PROVE  Troubles'
<1>1. Meetings'
  BY DEF Troubles, Meetings
<1>2. TempFiles'
  BY DEF Troubles, TempFiles, Busy, Working
<1>3. HalfFiles'
  <2> SUFFICES ASSUME NEW u \in Urls, file[u] = "partial", u \notin met' \cup cut'
               PROVE  \E j \in Jobs : job'[j].at = "write" /\ job'[j].video = u
    BY DEF HalfFiles
  <2>1. PICK j \in Jobs : job[j].at = "write" /\ job[j].video = u
    BY DEF Troubles, HalfFiles
  <2>2. QED BY <2>1
<1>4. HalfTexts'
  BY DEF Troubles, HalfTexts, Half, Busy, Working
<1>5. QED BY <1>1, <1>2, <1>3, <1>4 DEF Troubles

\* When the process ends nobody is at work, and what was written is cut off.
LEMMA EndsQuietly ==
    ASSUME IInv, Troubles, Ends, UNCHANGED <<files, met>>
    PROVE  Troubles'
<1>1. \A i \in Jobs : job'[i].at \notin Working
  BY SortedIInv DEF Ends, JobsOK, At, Working, Jobs
<1>2. /\ cut \subseteq cut'
      /\ \A i \in Jobs : job[i].at = "write" => job[i].video \in cut'
  BY DEF Ends
<1>3. QED BY <1>1, <1>2, QuietStep DEF files, Busy, Half, Working

\* A step of a single job outside of the files, in which it stays at work or
\* leaves.
LEMMA QuietJob ==
    ASSUME IInv, Troubles, NEW j \in Jobs, NEW w, job' = [job EXCEPT ![j] = w],
           w.at \in Busy => job[j].at \in Busy /\ w.video = job[j].video,
           w.at # "write", job[j].at = "write" => job[j].video \in cut',
           Half(w) => Half(job[j]),
           UNCHANGED <<file, temp, met>>, cut \subseteq cut'
    PROVE  Troubles'
<1>1. job'[j] = w /\ \A i \in Jobs \ {j} : job'[i] = job[i]
  BY SortedIInv DEF JobsOK
<1>2. QED BY <1>1, QuietStep

\* The end of a job leaves the files alone.
LEMMA FinishQuietly ==
    ASSUME IInv, Troubles, NEW j \in Jobs, NEW media, Finish(j, media),
           job[j].at # "write", UNCHANGED <<file, temp, met, cut>>
    PROVE  Troubles'
<1>1. PICK w : job' = [job EXCEPT ![j] = w] /\ w.at \in {"idle", "cache", "done"}
  <2>1. CASE j = Worker
    <3>1. job' = [job EXCEPT ![j] = Taken(queue)]
      BY <2>1 DEF Finish
    <3>2. Taken(queue).at \in {"idle", "cache"}
      BY DEF Taken, At
    <3>3. QED BY <3>1, <3>2
  <2>2. CASE j # Worker
    <3>1. job' = [job EXCEPT ![j] = At("done", url[j])]
      BY <2>2 DEF Finish
    <3>2. At("done", url[j]).at = "done"
      BY DEF At
    <3>3. QED BY <3>1, <3>2
  <2>3. QED BY <2>1, <2>2
<1>2. w.at \notin Busy /\ w.at # "write" /\ ~Half(w)
  BY <1>1 DEF Busy, Working, Half
<1>3. QED BY <1>1, <1>2, QuietJob

\* A job that misses the cache has met the jobs at work on its video.
LEMMA MissedMeets ==
    ASSUME IInv, Troubles, NEW j \in Jobs, Missed(j)
    PROVE  Troubles'
<1>1. /\ job'[j].at = "info" /\ job'[j].video = job[j].video /\ job'[j].text = job[j].text
      /\ \A i \in Jobs \ {j} : job'[i] = job[i]
      /\ job[j].at = "cache"
  BY SortedIInv DEF Missed, JobsOK, Job
<1>2. /\ UNCHANGED <<file, temp, cut>> /\ met \subseteq met'
      /\ AtWorkOn(job[j].video) # {} => job[j].video \in met'
  BY DEF Missed, files
<1>3. Meetings'
  <2> SUFFICES ASSUME NEW i \in Jobs, NEW k \in Jobs, i # k, job'[i].at \in Busy,
                      job'[k].at \in Busy, job'[i].video = job'[k].video
               PROVE  job'[i].video \in met'
    BY DEF Meetings
  <2>1. CASE i # j /\ k # j
    BY <2>1, <1>1, <1>2 DEF Troubles, Meetings
  <2>2. CASE i = j \/ k = j
    <3>1. PICK l \in {i, k} : l # j
      OBVIOUS
    <3>2. l \in AtWorkOn(job[j].video)
      BY <3>1, <2>2, <1>1 DEF AtWorkOn, Busy
    <3>3. QED BY <3>2, <2>2, <1>1, <1>2
  <2>3. QED BY <2>1, <2>2
<1>4. TempFiles'
  BY <1>1, <1>2 DEF Troubles, TempFiles
<1>5. HalfFiles'
  <2> SUFFICES ASSUME NEW u \in Urls, file[u] = "partial", u \notin met' \cup cut'
               PROVE  \E i \in Jobs : job'[i].at = "write" /\ job'[i].video = u
    BY <1>2 DEF HalfFiles
  <2>1. PICK i \in Jobs : job[i].at = "write" /\ job[i].video = u
    BY <1>2 DEF Troubles, HalfFiles
  <2>2. QED BY <2>1, <1>1
<1>6. HalfTexts'
  BY <1>1, <1>2 DEF Troubles, HalfTexts, Half
<1>7. QED BY <1>3, <1>4, <1>5, <1>6 DEF Troubles

\* A job that takes a file as it is gets half of it only after trouble: the job
\* that writes the file is another one.
LEMMA FileTaken ==
    ASSUME IInv, Troubles, NEW j \in Jobs, UseFile(j)
    PROVE  Troubles'
<1>1. /\ job'[j].at = "speech" /\ job'[j].video = job[j].video
      /\ job'[j].text = file[job[j].video]
      /\ \A i \in Jobs \ {j} : job'[i] = job[i]
      /\ job[j].at = "audio" /\ job[j].video \in Urls
      /\ UNCHANGED <<file, temp, met, cut>>
  BY SortedIInv DEF UseFile, Transcribe, JobsOK, Job, JobInv, Working, files, history
<1>2. Meetings'
  BY <1>1 DEF Troubles, Meetings, Busy, Working
<1>3. TempFiles'
  BY <1>1 DEF Troubles, TempFiles
<1>4. HalfFiles'
  <2> SUFFICES ASSUME NEW u \in Urls, file[u] = "partial", u \notin met \cup cut
               PROVE  \E i \in Jobs : job'[i].at = "write" /\ job'[i].video = u
    BY <1>1 DEF HalfFiles
  <2>1. PICK i \in Jobs : job[i].at = "write" /\ job[i].video = u
    BY DEF Troubles, HalfFiles
  <2>2. QED BY <2>1, <1>1
<1>5. HalfTexts'
  <2>1. file[job[j].video] = "partial" => job[j].video \in met \cup cut
    <3> SUFFICES ASSUME NEW i \in Jobs, job[i].at = "write", job[i].video = job[j].video
                 PROVE  job[j].video \in met
      BY <1>1 DEF Troubles, HalfFiles
    <3>1. QED BY <1>1 DEF Troubles, Meetings, Busy, Working
  <2>2. QED BY <2>1, <1>1 DEF Troubles, HalfTexts, Half
<1>6. QED BY <1>2, <1>3, <1>4, <1>5 DEF Troubles

\* A job that begins to write a file has its temporary file.
LEMMA FileOpened ==
    ASSUME IInv, Troubles, NEW j \in Jobs, OpenFile(j)
    PROVE  Troubles'
<1>1. /\ job'[j].at = "write" /\ job'[j].video = job[j].video
      /\ \A i \in Jobs \ {j} : job'[i] = job[i]
      /\ job[j].at = "fetch" /\ job[j].video \in Urls
      /\ UNCHANGED <<met, cut>> /\ temp \subseteq temp'
      /\ job[j].video \in Direct => job[j].video \in temp'
      /\ \A u \in Urls \ {job[j].video} : file'[u] = file[u]
  BY SortedIInv DEF OpenFile, JobsOK, SharedOK, Job, JobInv, Working, history
<1>2. Meetings'
  BY <1>1 DEF Troubles, Meetings, Busy, Working
<1>3. TempFiles'
  BY <1>1 DEF Troubles, TempFiles
<1>4. HalfFiles'
  <2> SUFFICES ASSUME NEW u \in Urls, file'[u] = "partial", u \notin met \cup cut
               PROVE  \E i \in Jobs : job'[i].at = "write" /\ job'[i].video = u
    BY <1>1 DEF HalfFiles
  <2>1. CASE u = job[j].video
    BY <2>1, <1>1
  <2>2. CASE u # job[j].video
    <3>1. PICK i \in Jobs : job[i].at = "write" /\ job[i].video = u
      BY <2>2, <1>1 DEF Troubles, HalfFiles
    <3>2. QED BY <3>1, <1>1
  <2>3. QED BY <2>1, <2>2
<1>5. HalfTexts'
  BY <1>1 DEF Troubles, HalfTexts, Half
<1>6. QED BY <1>2, <1>3, <1>4, <1>5 DEF Troubles

\* The job that has written a file takes the temporary file away, from a job
\* that it has met.
LEMMA FileDone ==
    ASSUME IInv, Troubles, NEW j \in Jobs, FileWritten(j)
    PROVE  Troubles'
<1>1. /\ job'[j].at = "speech" /\ job'[j].video = job[j].video /\ job'[j].text = "whole"
      /\ \A i \in Jobs \ {j} : job'[i] = job[i]
      /\ job[j].at = "write" /\ job[j].video \in Urls
      /\ UNCHANGED <<met, cut>> /\ temp' = temp \ {job[j].video}
      /\ file'[job[j].video] = "whole"
      /\ \A u \in Urls \ {job[j].video} : file'[u] = file[u]
  BY SortedIInv DEF FileWritten, Transcribe, JobsOK, SharedOK, Job, JobInv, Working, history
<1>2. Meetings'
  BY <1>1 DEF Troubles, Meetings, Busy, Working
<1>3. TempFiles'
  BY <1>1 DEF Troubles, TempFiles, Meetings, Busy, Working
<1>4. HalfFiles'
  <2> SUFFICES ASSUME NEW u \in Urls, file'[u] = "partial", u \notin met \cup cut
               PROVE  \E i \in Jobs : job'[i].at = "write" /\ job'[i].video = u
    BY <1>1 DEF HalfFiles
  <2>1. u # job[j].video
    BY <1>1
  <2>2. PICK i \in Jobs : job[i].at = "write" /\ job[i].video = u
    BY <2>1, <1>1 DEF Troubles, HalfFiles
  <2>3. QED BY <2>1, <2>2, <1>1
<1>5. HalfTexts'
  BY <1>1 DEF Troubles, HalfTexts, Half
<1>6. QED BY <1>2, <1>3, <1>4, <1>5 DEF Troubles

\* A transcription that is over, with its text or without.
LEMMA SpokenQuietly ==
    ASSUME IInv, Troubles, speaking # None, NEW text, text \in {job[speaking].text, "failed"},
           Transcribed(text)
    PROVE  Troubles'
<1>1. speaking \in Jobs /\ job[speaking].at = "speech" /\ job[speaking] \in Job
  BY SortedIInv DEF QueuesOK, NobodyForgotten, JobsOK
<1> DEFINE w == [job[speaking] EXCEPT !.at = "store", !.text = text]
<1>2. job' = [job EXCEPT ![speaking] = w] /\ UNCHANGED <<file, temp, met, cut>>
  BY DEF Transcribed, files, history
<1>3. w.at = "store" /\ w.video = job[speaking].video /\ w.text = text
  BY <1>1 DEF Job
<1>4. Half(w) => Half(job[speaking])
  BY <1>1, <1>3 DEF Half
<1>5. QED BY <1>1, <1>2, <1>3, <1>4, QuietJob DEF Busy, Working

\* A call of processVideo puts nobody to work on a file yet.
LEMMA CalledQuietly ==
    ASSUME IInv, Troubles, NEW c \in Callers, ProcessVideo(c)
    PROVE  Troubles'
<1>1. c \in Jobs /\ Worker \in Jobs /\ c # Worker
  BY NoneIsApart DEF Jobs
<1>2. /\ job'[c].at \in {"waits", "cache"}
      /\ job'[Worker] = job[Worker] \/ job'[Worker].at \in {"idle", "cache"}
      /\ \A i \in Jobs \ {c, Worker} : job'[i] = job[i]
      /\ job[c].at = "new"
  BY <1>1, SortedIInv DEF ProcessVideo, At, Taken, JobsOK
<1>3. UNCHANGED <<file, temp, met, cut>>
  BY DEF ProcessVideo, files, history
<1>4. processing <=> job[Worker].at \in Working
  BY SortedIInv DEF NobodyForgotten
<1>5. job'[Worker] # job[Worker] => job[Worker].at \notin Working
  BY <1>1, <1>4, SortedIInv DEF ProcessVideo, JobsOK
<1>6. \A i \in Jobs : job'[i] = job[i] \/ (job[i].at \notin Working
                                          /\ job'[i].at \in {"waits", "cache", "idle"})
  BY <1>2, <1>5 DEF Working
<1>7. QED BY <1>3, <1>6, QuietStep DEF Busy, Half, Working

\* Every step keeps the four.
LEMMA NextTroubles == IInv /\ Troubles /\ [Next]_vars => Troubles'
<1> SUFFICES ASSUME IInv, Troubles, [Next]_vars PROVE Troubles'
  OBVIOUS
<1>1. CASE Crash \/ WorkerFails \/ SpeakThrows
  BY <1>1, EndsQuietly DEF Crash, WorkerFails, SpeakThrows
<1>2. CASE Restart \/ UNCHANGED vars
  BY <1>2 DEF Restart, vars, queues, files, history, Troubles, Meetings, TempFiles,
      HalfFiles, HalfTexts
<1>3. CASE Speak \/ SpeakFails
  <2>1. PICK text \in {job[speaking].text, "failed"} : speaking # None /\ Transcribed(text)
    BY <1>3 DEF Speak, SpeakFails
  <2>2. QED BY <2>1, SpokenQuietly
<1>4. ASSUME NEW c \in Callers, CheckQueue(c) PROVE Troubles'
  <2>1. /\ job' = [job EXCEPT ![c] = At("cache", url[c])] /\ job[c].at = "waits"
        /\ UNCHANGED <<file, temp, met, cut>>
    BY <1>4 DEF CheckQueue, files, history
  <2>2. At("cache", url[c]).at = "cache"
    BY DEF At
  <2>3. QED BY <2>1, <2>2, QuietJob DEF Jobs, Busy, Half, Working
<1>5. ASSUME NEW c \in Callers, CallerFails(c) PROVE Troubles'
  <2>1. /\ job' = [job EXCEPT ![c] = At("failed", url[c])]
        /\ UNCHANGED <<file, temp, met>> /\ cut \subseteq cut'
        /\ job[c].at = "write" => job[c].video \in cut'
    BY <1>5, SortedIInv DEF CallerFails, files, JobsOK
  <2>2. At("failed", url[c]).at = "failed"
    BY DEF At
  <2>3. QED BY <2>1, <2>2, QuietJob DEF Jobs, Busy, Half, Working
<1>6. ASSUME NEW c \in Callers, ProcessVideo(c) PROVE Troubles'
  BY <1>6, CalledQuietly
<1>7. ASSUME NEW j \in Jobs, Goes(j) PROVE Troubles'
  <2>1. CASE Cached(j)
    BY <2>1, FinishQuietly DEF Cached, files, history
  <2>2. CASE Store(j)
    <3>1. PICK media : Finish(j, media)
      BY <2>2 DEF Store
    <3>2. job[j].at = "store" /\ UNCHANGED <<file, temp, met, cut>>
      BY <2>2 DEF Store, history
    <3>3. QED BY <3>1, <3>2, FinishQuietly
  <2>3. CASE FetchInfo(j) \/ TooShort(j) \/ NoFile(j)
    <3>1. PICK w : /\ job' = [job EXCEPT ![j] = w] /\ w.video = job[j].video
                   /\ w.at \in {"store", "audio", "fetch"} /\ (w.at = "store" => w.text # "partial")
      <4> DEFINE captions == [job[j] EXCEPT !.at = "store", !.text = "captions"]
                 audio == [job[j] EXCEPT !.at = "audio"]
                 failed == [job[j] EXCEPT !.at = "store", !.text = "failed"]
                 fetch == [job[j] EXCEPT !.at = "fetch"]
      <4>1. job[j] \in Job /\ job \in [Jobs -> Job]
        BY SortedIInv DEF JobsOK
      <4>2. \/ job' = [job EXCEPT ![j] = captions] \/ job' = [job EXCEPT ![j] = audio]
            \/ job' = [job EXCEPT ![j] = failed] \/ job' = [job EXCEPT ![j] = fetch]
        BY <2>3, <4>1 DEF FetchInfo, TooShort, NoFile
      <4>3. /\ captions.video = job[j].video /\ captions.at = "store" /\ captions.text = "captions"
            /\ audio.video = job[j].video /\ audio.at = "audio"
            /\ failed.video = job[j].video /\ failed.at = "store" /\ failed.text = "failed"
            /\ fetch.video = job[j].video /\ fetch.at = "fetch"
        BY <4>1 DEF Job
      <4>4. CASE job' = [job EXCEPT ![j] = captions]
        BY <4>3, <4>4
      <4>5. CASE job' = [job EXCEPT ![j] = audio]
        BY <4>3, <4>5
      <4>6. CASE job' = [job EXCEPT ![j] = failed]
        BY <4>3, <4>6
      <4>7. CASE job' = [job EXCEPT ![j] = fetch]
        BY <4>3, <4>7
      <4>8. QED BY <4>2, <4>4, <4>5, <4>6, <4>7
    <3>2. /\ job[j].at \in {"info", "audio"}
          /\ UNCHANGED <<file, temp, met, cut>>
      BY <2>3 DEF FetchInfo, TooShort, NoFile, files, history
    <3>3. QED BY <3>1, <3>2, QuietJob DEF Busy, Half, Working
  <2>4. CASE TempGone(j)
    BY <2>4, EndsQuietly DEF TempGone
  <2>5. QED
    BY <1>7, <2>1, <2>2, <2>3, <2>4, MissedMeets, FileTaken, FileOpened, FileDone DEF Goes
<1>8. QED BY <1>1, <1>2, <1>3, <1>4, <1>5, <1>6, <1>7 DEF Next

LEMMA InitTroubles == Init => Troubles
<1> SUFFICES ASSUME Init PROVE Troubles
  OBVIOUS
<1>1. \A j \in Jobs : job[j].at \in {"idle", "new"}
  BY DEF Init, At
<1>2. QED
  BY <1>1 DEF Init, Troubles, Meetings, TempFiles, HalfFiles, HalfTexts, Half, Busy, Working

\* A transcript of half the audio is given out or kept only of a video whose file
\* two jobs were at work on at once, or whose download was cut off.
THEOREM HalvesHaveReasons == Spec => []HalfOnlyAfterTrouble
<1>1. Init => HalfOnlyAfterTrouble
  BY DEF Init, HalfOnlyAfterTrouble, NoMedia
<1>2. IInv /\ Troubles /\ HalfOnlyAfterTrouble /\ [Next]_vars => HalfOnlyAfterTrouble'
  <2> SUFFICES ASSUME IInv, Troubles, HalfOnlyAfterTrouble, [Next]_vars
               PROVE  HalfOnlyAfterTrouble'
    OBVIOUS
  <2>1. met \subseteq met' /\ cut \subseteq cut'
    BY DEF Next, Crash, Restart, WorkerFails, Speak, SpeakFails, SpeakThrows, ProcessVideo,
        CheckQueue, CallerFails, Goes, Cached, Missed, FetchInfo, UseFile, TooShort, NoFile,
        OpenFile, FileWritten, TempGone, Store, Ends, Transcribed, history, vars
  <2>2. CASE UNCHANGED <<got, cache>>
    BY <2>1, <2>2 DEF HalfOnlyAfterTrouble
  <2>3. ASSUME NEW j \in Jobs, NEW media, Finish(j, media), UNCHANGED cache,
               media.text = "partial" => media.video \in met' \cup cut'
        PROVE  HalfOnlyAfterTrouble'
    <3>1. \A c \in Callers : got'[c] = got[c] \/ got'[c] = media
      BY <2>3, SortedIInv DEF Finish, MediaOK
    <3>2. QED BY <2>1, <2>3, <3>1 DEF HalfOnlyAfterTrouble
  <2>4. ASSUME NEW j \in Jobs, Cached(j) PROVE HalfOnlyAfterTrouble'
    <3>1. job[j].video \in Urls
      BY <2>4, SortedIInv DEF Cached, JobsOK, JobInv, Working
    <3>2. Key(job[j].video) \in Keys
      BY <3>1 DEF Key, Keys
    <3>3. QED BY <2>1, <2>3, <2>4, <3>2 DEF Cached, HalfOnlyAfterTrouble, files
  <2>5. ASSUME NEW j \in Jobs, Store(j) PROVE HalfOnlyAfterTrouble'
    <3> DEFINE media == [video |-> job[j].video, text |-> job[j].text]
    <3>1. /\ job[j].at = "store" /\ Finish(j, media)
          /\ cache' = [cache EXCEPT ![Key(job[j].video)] = media]
      BY <2>5 DEF Store
    <3>2. media.text = "partial" => media.video \in met' \cup cut'
      BY <2>1, <3>1 DEF Troubles, HalfTexts, Half
    <3>3. /\ \A c \in Callers : got'[c] = got[c] \/ got'[c] = media
          /\ \A k \in Keys : cache'[k] = cache[k] \/ cache'[k] = media
      BY <3>1, SortedIInv DEF Finish, MediaOK
    <3>4. QED BY <2>1, <3>2, <3>3 DEF HalfOnlyAfterTrouble
  <2>6. (\E j \in Jobs : Cached(j) \/ Store(j)) \/ UNCHANGED <<got, cache>>
    BY DEF Next, Crash, Restart, WorkerFails, Speak, SpeakFails, SpeakThrows, ProcessVideo,
        CheckQueue, CallerFails, Goes, Missed, FetchInfo, UseFile, TooShort, NoFile,
        OpenFile, FileWritten, TempGone, Transcribed, files, vars
  <2>7. QED BY <2>2, <2>4, <2>5, <2>6
<1>3. QED
  BY <1>1, <1>2, InitTroubles, NextTroubles, InitIInv, NextIInv, PTL DEF Spec

\* The process ends only of a failing call, a crash, or a temporary file that two
\* jobs of one direct mp4 shared.
THEOREM EndHasAReason == Spec => []EndsForAReason
<1>1. Init => EndsForAReason
  BY DEF Init, EndsForAReason
<1>2. IInv /\ Troubles /\ EndsForAReason /\ [Next]_vars => EndsForAReason'
  <2> SUFFICES ASSUME IInv, Troubles, EndsForAReason, [Next]_vars PROVE EndsForAReason'
    OBVIOUS
  <2>1. ASSUME NEW j \in Jobs, TempGone(j) PROVE EndsForAReason'
    BY <2>1 DEF TempGone, Troubles, TempFiles, EndsForAReason
  <2>2. faults \in Nat /\ crashes \in Nat
    BY SortedIInv, BoundsAreNumbers DEF SharedOK
  <2>3. CASE Crash \/ WorkerFails \/ SpeakThrows \/ SpeakFails
    BY <2>2, <2>3 DEF Crash, WorkerFails, SpeakThrows, SpeakFails, EndsForAReason
  <2>4. CASE Restart
    BY <2>4 DEF Restart, EndsForAReason
  <2>5. ASSUME NEW c \in Callers, CallerFails(c) PROVE EndsForAReason'
    BY <2>2, <2>5 DEF CallerFails, EndsForAReason
  <2>6. CASE \/ UNCHANGED vars \/ Speak
             \/ \E c \in Callers : ProcessVideo(c) \/ CheckQueue(c)
             \/ \E j \in Jobs : Goes(j) /\ ~TempGone(j)
    <3>1. UNCHANGED <<up, faults, crashes>> /\ met \subseteq met'
      BY <2>6
      DEF Speak, Transcribed, ProcessVideo, CheckQueue, Goes, Cached, Missed, FetchInfo, UseFile,
          TooShort, NoFile, OpenFile, FileWritten, Store, history, vars
    <3>2. QED BY <3>1 DEF EndsForAReason
  <2>7. QED BY <2>1, <2>3, <2>4, <2>5, <2>6 DEF Next
<1>3. QED
  BY <1>1, <1>2, InitTroubles, NextTroubles, InitIInv, NextIInv, PTL DEF Spec

-----------------------------------------------------------------------------
(* The queues as work queues.                                              *)

\* The end of the process empties both queues and takes both workers.
LEMMA EndLosesBoth ==
    ASSUME up, Ends
    PROVE  Videos!Lost /\ Transcriptions!Lost
  BY DEF Ends, Videos!Lost, Transcriptions!Lost

\* Who is at work knows that the process is there.
LEMMA AtWorkIsUp ==
    ASSUME IInv
    PROVE  /\ \A j \in Jobs : job[j].at \in Working \cup {"waits"} => up
           /\ speaking # None => up /\ speaking \in Jobs
<1>1. QueuesOK /\ NobodyForgotten
  BY SortedIInv
<1>2. \A j \in Jobs : job[j].at \in Working \cup {"waits"} => up
  BY <1>1 DEF NobodyForgotten
<1>3. ASSUME speaking # None PROVE up /\ speaking \in Jobs
  <2>1. speaking \in Jobs
    BY <1>1, <1>3 DEF QueuesOK
  <2>2. job[speaking].at = "speech"
    BY <1>1, <2>1 DEF NobodyForgotten
  <2>3. QED BY <1>2, <2>1, <2>2 DEF Working
<1>4. QED BY <1>2, <1>3

\* A caller's url joins the line, or brings a worker, which begins with it.
LEMMA CallIsJoin ==
    ASSUME IInv, NEW c \in Callers, ProcessVideo(c)
    PROVE  Videos!Join(url[c]) \/ Videos!Begin(url[c])
<1>1. QueuesOK /\ JobsOK /\ NobodyForgotten
  BY SortedIInv
<1>2. c \in Jobs /\ Worker \in Jobs /\ c # Worker
  BY NoneIsApart DEF Jobs
<1>3. up /\ up' = up /\ processing' = TRUE
  BY DEF ProcessVideo
<1>4. CASE processing
  <2>1. queue' = Append(queue, url[c])
    BY <1>4 DEF ProcessVideo
  <2>2. job'[Worker] = job[Worker]
    BY <1>1, <1>2, <1>4 DEF ProcessVideo, JobsOK
  <2>3. QED BY <1>3, <1>4, <2>1, <2>2 DEF Videos!Join
<1>5. CASE ~processing
  <2>1. queue = <<>>
    BY <1>1, <1>5 DEF NobodyForgotten
  <2>2. Append(queue, url[c]) = <<url[c]>>
    BY <2>1
  <2>3. queue' = <<>>
    BY <1>5, <2>2 DEF ProcessVideo, Rest
  <2>4. job'[Worker] = Taken(<<url[c]>>)
    BY <1>1, <1>2, <1>5, <2>2 DEF ProcessVideo, JobsOK
  <2>5. job'[Worker].video = url[c]
    BY <2>4 DEF Taken, At
  <2>6. QED BY <1>3, <1>5, <2>1, <2>3, <2>5 DEF Videos!Begin
<1>6. QED BY <1>4, <1>5

\* The worker that is done takes the first in line, or goes off.
LEMMA FinishIsTurn ==
    ASSUME IInv, NEW j \in Jobs, job[j].at \in Working, NEW media, Finish(j, media), up' = up
    PROVE  Videos!Turn \/ Videos!GoOff \/ UNCHANGED Videos!workVars
<1>1. QueuesOK /\ JobsOK /\ NobodyForgotten /\ Worker \in Jobs
  BY SortedIInv DEF Jobs
<1>2. CASE j = Worker
  <2>1. processing /\ processing' = (queue # <<>>) /\ queue' = Rest(queue)
    BY <1>1, <1>2 DEF Finish, NobodyForgotten
  <2>2. job'[Worker] = Taken(queue)
    BY <1>1, <1>2 DEF Finish, JobsOK
  <2>3. CASE queue = <<>>
    BY <2>1, <2>3 DEF Rest, Videos!GoOff
  <2>4. CASE queue # <<>>
    <3>1. job'[Worker].video = Head(queue) /\ queue' = Tail(queue)
      BY <2>1, <2>2, <2>4 DEF Taken, At, Rest
    <3>2. QED BY <2>1, <2>4, <3>1 DEF Videos!Turn
  <2>5. QED BY <2>3, <2>4
<1>3. CASE j # Worker
  <2>1. UNCHANGED <<queue, processing>>
    BY <1>3 DEF Finish
  <2>2. job'[Worker] = job[Worker]
    BY <1>1, <1>3 DEF Finish, JobsOK
  <2>3. QED BY <2>1, <2>2 DEF Videos!workVars
<1>4. QED BY <1>2, <1>3

\* What else a job does leaves the line of videos alone, and the worker at its
\* video.
LEMMA OtherVideosKept ==
    ASSUME IInv, UNCHANGED <<up, queue, processing>>,
           NEW j \in Jobs, NEW w, job' = [job EXCEPT ![j] = w],
           j # Worker \/ w.video = job[j].video
    PROVE  UNCHANGED Videos!workVars
<1>1. JobsOK /\ Worker \in Jobs
  BY SortedIInv DEF Jobs
<1>2. job'[Worker].video = job[Worker].video
  BY <1>1 DEF JobsOK
<1>3. QED BY <1>2 DEF Videos!workVars

\* Each step of a job as the queue of videos sees it.
LEMMA GoesIsWork ==
    ASSUME IInv, NEW j \in Jobs, Goes(j)
    PROVE  [Videos!Next]_(Videos!workVars)
<1>1. JobsOK
  BY SortedIInv
<1>2. ASSUME NEW media, Finish(j, media), job[j].at \in Working, up' = up
      PROVE  [Videos!Next]_(Videos!workVars)
  BY <1>2, FinishIsTurn DEF Videos!Next
<1>3. CASE Cached(j)
  BY <1>2, <1>3 DEF Cached, Working
<1>4. CASE Store(j)
  BY <1>2, <1>4 DEF Store, Working
<1>5. CASE TempGone(j)
  <2>1. up
    BY <1>5, AtWorkIsUp DEF TempGone, Working
  <2>2. QED BY <1>5, <2>1, EndLosesBoth DEF TempGone, Videos!Next
<1>6. CASE Missed(j) \/ FetchInfo(j) \/ TooShort(j) \/ NoFile(j) \/ OpenFile(j)
  <2>1. UNCHANGED <<up, queue, processing>>
    BY <1>6 DEF Missed, FetchInfo, TooShort, NoFile, OpenFile, queues
  <2>2. PICK w : job' = [job EXCEPT ![j] = w] /\ w.video = job[j].video
    <3>1. CASE Missed(j)
      <4>1. [job[j] EXCEPT !.at = "info"].video = job[j].video
        BY <1>1 DEF JobsOK, Job
      <4>2. QED BY <3>1, <4>1 DEF Missed
    <3>2. CASE FetchInfo(j)
      <4>1. CASE job[j].video \in Captioned
        <5>1. [job[j] EXCEPT !.at = "store", !.text = "captions"].video = job[j].video
          BY <1>1 DEF JobsOK, Job
        <5>2. QED BY <3>2, <4>1, <5>1 DEF FetchInfo
      <4>2. CASE job[j].video \notin Captioned
        <5>1. [job[j] EXCEPT !.at = "audio"].video = job[j].video
          BY <1>1 DEF JobsOK, Job
        <5>2. QED BY <3>2, <4>2, <5>1 DEF FetchInfo
      <4>3. QED BY <4>1, <4>2
    <3>3. CASE TooShort(j)
      <4>1. [job[j] EXCEPT !.at = "store", !.text = "failed"].video = job[j].video
        BY <1>1 DEF JobsOK, Job
      <4>2. QED BY <3>3, <4>1 DEF TooShort
    <3>4. CASE NoFile(j)
      <4>1. [job[j] EXCEPT !.at = "fetch"].video = job[j].video
        BY <1>1 DEF JobsOK, Job
      <4>2. QED BY <3>4, <4>1 DEF NoFile
    <3>5. CASE OpenFile(j)
      <4>1. [job[j] EXCEPT !.at = "write"].video = job[j].video
        BY <1>1 DEF JobsOK, Job
      <4>2. QED BY <3>5, <4>1 DEF OpenFile
    <3>6. QED BY <1>6, <3>1, <3>2, <3>3, <3>4, <3>5
  <2>3. QED BY <2>1, <2>2, OtherVideosKept
<1>7. CASE UseFile(j) \/ FileWritten(j)
  <2>1. PICK content : Transcribe(j, content) /\ up' = up
    BY <1>7 DEF UseFile, FileWritten
  <2>2. [job[j] EXCEPT !.at = "speech", !.text = content].video = job[j].video
    BY <1>1 DEF JobsOK, Job
  <2>3. /\ job' = [job EXCEPT ![j] = [job[j] EXCEPT !.at = "speech", !.text = content]]
        /\ UNCHANGED <<queue, processing>>
    BY <2>1 DEF Transcribe
  <2>4. QED BY <2>1, <2>2, <2>3, OtherVideosKept
<1>8. QED BY <1>3, <1>4, <1>5, <1>6, <1>7 DEF Goes

\* Every step is a step of the queue of videos or leaves it alone.
LEMMA StepIsVideoWork ==
    IInv /\ [Next]_vars => [Videos!Next]_(Videos!workVars)
<1> SUFFICES ASSUME IInv, [Next]_vars PROVE [Videos!Next]_(Videos!workVars)
  OBVIOUS
<1>1. JobsOK /\ SharedOK /\ Worker \in Jobs
  BY SortedIInv DEF Jobs
<1>2. CASE Crash \/ WorkerFails \/ SpeakThrows
  <2>1. up
    BY <1>1, <1>2, AtWorkIsUp DEF Crash, WorkerFails, SpeakThrows
  <2>2. QED BY <1>2, <2>1, EndLosesBoth DEF Crash, WorkerFails, SpeakThrows, Videos!Next
<1>3. CASE Restart
  BY <1>3 DEF Restart, queues, Videos!Restart, Videos!Next
<1>4. ASSUME NEW c \in Callers, ProcessVideo(c)
      PROVE  [Videos!Next]_(Videos!workVars)
  <2>1. url[c] \in Urls
    BY <1>1, CallersAsk DEF SharedOK
  <2>2. QED BY <1>4, <2>1, CallIsJoin DEF Videos!Next
<1>5. ASSUME NEW c \in Callers, CheckQueue(c) \/ CallerFails(c)
      PROVE  [Videos!Next]_(Videos!workVars)
  <2>1. c \in Jobs /\ c # Worker
    BY NoneIsApart DEF Jobs
  <2>2. /\ UNCHANGED <<up, queue, processing>>
        /\ \E w : job' = [job EXCEPT ![c] = w]
    BY <1>5 DEF CheckQueue, CallerFails, queues
  <2>3. QED BY <2>1, <2>2, OtherVideosKept
<1>6. CASE Speak \/ SpeakFails
  <2>1. PICK text : Transcribed(text) /\ speaking # None
    BY <1>6 DEF Speak, SpeakFails
  <2>2. speaking \in Jobs
    BY <2>1, AtWorkIsUp
  <2>3. [job[speaking] EXCEPT !.at = "store", !.text = text].video = job[speaking].video
    BY <1>1, <2>2 DEF JobsOK, Job
  <2>4. /\ job' = [job EXCEPT ![speaking] = [job[speaking] EXCEPT !.at = "store", !.text = text]]
        /\ UNCHANGED <<up, queue, processing>>
    BY <2>1 DEF Transcribed
  <2>5. QED BY <2>2, <2>3, <2>4, OtherVideosKept
<1>7. CASE UNCHANGED vars
  BY <1>7 DEF vars, queues, Videos!workVars
<1>8. QED
  BY <1>2, <1>3, <1>4, <1>5, <1>6, <1>7, GoesIsWork DEF Next

\* A job whose audio is read joins the line, or is transcribed at once.
LEMMA TranscribeIsJoin ==
    ASSUME IInv, NEW j \in Jobs, job[j].at \in Working, NEW content, Transcribe(j, content), up' = up
    PROVE  Transcriptions!Join(j) \/ Transcriptions!Begin(j)
<1>1. up /\ NobodyForgotten
  BY AtWorkIsUp, SortedIInv
<1>2. CASE speaking = None
  <2>1. speaking' = j /\ waiting' = waiting /\ waiting = <<>>
    BY <1>1, <1>2 DEF Transcribe, NobodyForgotten
  <2>2. QED BY <1>1, <1>2, <2>1, NoneIsApart DEF Transcriptions!Begin
<1>3. CASE speaking # None
  BY <1>1, <1>3 DEF Transcribe, Transcriptions!Join
<1>4. QED BY <1>2, <1>3

\* A transcription that is over hands over to the next, or nothing is left.
LEMMA TranscribedIsTurn ==
    ASSUME IInv, NEW text, speaking # None, Transcribed(text)
    PROVE  Transcriptions!Turn \/ Transcriptions!GoOff
<1>1. QueuesOK
  BY SortedIInv
<1>2. CASE waiting = <<>>
  BY <1>2 DEF Transcribed, Rest, Transcriptions!GoOff
<1>3. CASE waiting # <<>>
  <2>1. Head(waiting) # None
    BY <1>1, <1>3, NoneIsApart DEF QueuesOK
  <2>2. speaking' = Head(waiting) /\ waiting' = Tail(waiting) /\ up' = up
    BY <1>3 DEF Transcribed, Rest
  <2>3. QED BY <1>3, <2>1, <2>2 DEF Transcriptions!Turn
<1>4. QED BY <1>2, <1>3

\* Every step is a step of the queue of transcriptions or leaves it alone.
LEMMA StepIsTranscriptionWork ==
    IInv /\ [Next]_vars => [Transcriptions!Next]_(Transcriptions!workVars)
<1> SUFFICES ASSUME IInv, [Next]_vars
             PROVE  [Transcriptions!Next]_(Transcriptions!workVars)
  OBVIOUS
<1>1. Worker \in Jobs
  BY DEF Jobs
<1>2. CASE Crash \/ WorkerFails \/ SpeakThrows
  <2>1. up
    BY <1>1, <1>2, AtWorkIsUp DEF Crash, WorkerFails, SpeakThrows
  <2>2. QED
    BY <1>2, <2>1, EndLosesBoth DEF Crash, WorkerFails, SpeakThrows, Transcriptions!Next
<1>3. CASE Restart
  BY <1>3 DEF Restart, queues, Transcriptions!Restart, Transcriptions!Next
<1>4. CASE Speak \/ SpeakFails
  <2>1. PICK text : Transcribed(text) /\ speaking # None
    BY <1>4 DEF Speak, SpeakFails
  <2>2. QED BY <2>1, TranscribedIsTurn DEF Transcriptions!Next
<1>5. ASSUME NEW j \in Jobs, TempGone(j)
      PROVE  [Transcriptions!Next]_(Transcriptions!workVars)
  <2>1. up
    BY <1>5, AtWorkIsUp DEF TempGone, Working
  <2>2. QED BY <1>5, <2>1, EndLosesBoth DEF TempGone, Transcriptions!Next
<1>6. ASSUME NEW j \in Jobs, UseFile(j) \/ FileWritten(j)
      PROVE  [Transcriptions!Next]_(Transcriptions!workVars)
  <2>1. PICK content : Transcribe(j, content) /\ up' = up
    BY <1>6 DEF UseFile, FileWritten
  <2>2. job[j].at \in Working
    BY <1>6 DEF UseFile, FileWritten, Working
  <2>3. QED BY <2>1, <2>2, TranscribeIsJoin DEF Transcriptions!Next
<1>7. ASSUME NEW j \in Jobs, \/ Cached(j) \/ Missed(j) \/ FetchInfo(j) \/ TooShort(j)
                             \/ NoFile(j) \/ OpenFile(j) \/ Store(j)
      PROVE  UNCHANGED Transcriptions!workVars
  BY <1>7 DEF Cached, Missed, FetchInfo, TooShort, NoFile, OpenFile, Store, queues,
              Transcriptions!workVars
<1>8. ASSUME NEW c \in Callers, ProcessVideo(c) \/ CheckQueue(c) \/ CallerFails(c)
      PROVE  UNCHANGED Transcriptions!workVars
  BY <1>8 DEF ProcessVideo, CheckQueue, CallerFails, queues, Transcriptions!workVars
<1>9. CASE UNCHANGED vars
  BY <1>9 DEF vars, queues, Transcriptions!workVars
<1>10. QED
  BY <1>2, <1>3, <1>4, <1>5, <1>6, <1>7, <1>8, <1>9 DEF Next, Goes

\* VideoService and TranscriptionService implement the work queue, for any number
\* of callers, videos and failures: turns are taken in the order of arrival, one
\* at a time, and only the end of the process loses anything.
THEOREM ServicesAreWorkQueues == Spec => ImplementsWorkQueues
<1>1. Init => Videos!Init /\ Transcriptions!Init
  BY DEF Init, Videos!Init, Transcriptions!Init
<1>2. Spec => Videos!Spec
  BY <1>1, InitIInv, NextIInv, StepIsVideoWork, PTL DEF Spec, Videos!Spec
<1>3. Spec => Transcriptions!Spec
  BY <1>1, InitIInv, NextIInv, StepIsTranscriptionWork, PTL DEF Spec, Transcriptions!Spec
<1>4. QED BY <1>2, <1>3 DEF ImplementsWorkQueues
=============================================================================
