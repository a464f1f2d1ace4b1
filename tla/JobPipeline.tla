---------------------------- MODULE JobPipeline -----------------------------
(***************************************************************************)
(* What happens to a recording after its capture session closed: the job   *)
(* table, the temporary files, the two listeners and worker pools          *)
(* (internal/service/transcoding.go, uploader.go, job.go and               *)
(* internal/utils/pool.go), the process that runs them, and the storage    *)
(* service as far as the uploader can tell.                                *)
(*                                                                         *)
(* Each statement on the table and each removal of files is a step of its  *)
(* own: the process may die, its context may be cancelled and the database *)
(* may refuse between any two of them.                                     *)
(***************************************************************************)
EXTENDS TempFiles, Sequences

CONSTANTS
    TranscodingWorkers,   \* goroutines of the transcoding pool
    UploadWorkers,        \* goroutines of the upload pool
    QueueSize,            \* capacity of each pool's channel
    MaxRetry,             \* --transcoding-max-retry, --uploader-max-retry
    MaxRestarts,          \* bound: how often the process may end
    MaxDbErrors           \* bound: statements the database may refuse

ASSUME PipelineAssumption ==
    /\ TranscodingWorkers \cap UploadWorkers = {}
    /\ QueueSize \in [Stages -> Nat]
    /\ MaxRetry \in [Stages -> Nat]
    /\ MaxRestarts \in Nat
    /\ MaxDbErrors \in Nat

VARIABLES
    batch,      \* per stage: jobs the listener fetched and has not handed over
    queue,      \* per stage: the pool's channel
    cur,        \* per worker: the job it executes
    phase,      \* per worker: where in Execute it is
    dropping,   \* recordings whose CreateJob failed, files not yet deleted
    proc,       \* the process: "up", "stopping" (context cancelled), "down"
    restarts,   \* how often it has been started again
    dbErrors,   \* statements refused so far
    sent,       \* per recording: uploads that ran to CloseSend without error
    stored      \* recordings the storage service really keeps

memVars   == <<batch, queue, cur, phase, dropping>>
faultVars == <<proc, restarts, dbErrors>>
sentVars  == <<sent, stored>>
vars      == <<rowVars, fileVars, memVars, faultVars, sentVars>>

Workers == TranscodingWorkers \cup UploadWorkers

PoolOf(st) == IF st = "transcoding" THEN TranscodingWorkers ELSE UploadWorkers
StageOf(w) == IF w \in TranscodingWorkers THEN "transcoding" ELSE "upload"

\* model.Job as a worker holds it: a copy of the row made when it was fetched,
\* with Retry incremented by the listener.
Tasks  == [id : Jobs, retry : Nat, path : Nat]
NoTask == [id |-> -1, retry |-> 0, path |-> 0]

Phases == {"free", "start", "ffmpeg", "release", "update",
           "sending", "failed", "cleanup", "delete"}

Limit(st) == QueueSize[st] + Cardinality(PoolOf(st))

Init ==
    /\ StoreInit
    /\ FilesInit
    /\ batch = [st \in Stages |-> {}]
    /\ queue = [st \in Stages |-> <<>>]
    /\ cur = [w \in Workers |-> NoTask]
    /\ phase = [w \in Workers |-> "free"]
    /\ dropping = {}
    /\ proc = "up"
    /\ restarts = 0
    /\ dbErrors = 0
    /\ sent = [j \in Jobs |-> 0]
    /\ stored = {}

-----------------------------------------------------------------------------
(* The database as the running process sees it.                            *)

DbAnswers == proc = "up" /\ UNCHANGED faultVars

\* A statement fails because the database refuses it, or because the context
\* every statement runs under was cancelled.
DbRefuses ==
    /\ UNCHANGED <<proc, restarts>>
    /\ \/ proc = "up" /\ dbErrors < MaxDbErrors /\ dbErrors' = dbErrors + 1
       \/ proc = "stopping" /\ UNCHANGED dbErrors

-----------------------------------------------------------------------------
(* stopVideoSession hands a closed recording to the pipeline.              *)

\* The capture session left the raw files of the recording's tracks behind.
Captured(j, track) ==
    /\ NextId(j)
    /\ jobTrack' = [jobTrack EXCEPT ![j] = track]
    /\ rawFiles' = IF track = "none" THEN rawFiles ELSE rawFiles \cup {j}
    /\ UNCHANGED <<outFiles, batch, queue, cur, phase, sentVars>>

SubmitRecording(j, track) ==
    /\ Captured(j, track)
    /\ Create(j)
    /\ DbAnswers
    /\ UNCHANGED dropping

\* CreateJob reports an error.  The insert did not commit, or it did and only
\* the answer was lost.
SubmitFails(j, track) ==
    /\ Captured(j, track)
    /\ DbRefuses
    /\ dropping' = dropping \cup {j}
    /\ \/ /\ jobState' = [jobState EXCEPT ![j] = "refused"]
          /\ UNCHANGED <<jobType, jobRetry, jobPath>>
       \/ Create(j)

\* ... and the session's files are deleted.
DropRecording(j) ==
    /\ j \in dropping
    /\ dropping' = dropping \ {j}
    /\ DeleteFile(j, 0)
    /\ UNCHANGED <<rowVars, batch, queue, cur, phase, faultVars, sentVars>>

-----------------------------------------------------------------------------
(* The listeners and the pools.                                            *)

\* A tick of the listener: it fetches only when every job of the previous batch
\* was handed over, for Exec blocks it until then.
Poll(st) ==
    /\ batch[st] = {}
    /\ \E S \in SUBSET IdleOf(st) :
          /\ Oldest(S, st, Limit(st))
          /\ Fetch(S)
          /\ \/ /\ DbAnswers
                /\ batch' = [batch EXCEPT ![st] =
                      {[id |-> j, retry |-> jobRetry[j] + 1, path |-> jobPath[j]] : j \in S}]
             \/ \* committed, and the answer was lost: nobody holds these rows
                S # {} /\ DbRefuses /\ UNCHANGED batch
    /\ UNCHANGED <<fileVars, queue, cur, phase, dropping, sentVars>>

\* p.tasks <- task, into the buffer.  The update returns its rows in no
\* particular order.
Exec(st) ==
    /\ \E t \in batch[st] :
          /\ Len(queue[st]) < QueueSize[st]
          /\ batch' = [batch EXCEPT ![st] = @ \ {t}]
          /\ queue' = [queue EXCEPT ![st] = Append(@, t)]
    /\ UNCHANGED <<rowVars, fileVars, cur, phase, dropping, faultVars, sentVars>>

\* p.tasks <- task, to a worker that already waits on the empty channel.
HandOver(w) ==
    LET st == StageOf(w) IN
    /\ phase[w] = "free"
    /\ queue[st] = <<>>
    /\ \E t \in batch[st] :
          /\ batch' = [batch EXCEPT ![st] = @ \ {t}]
          /\ cur' = [cur EXCEPT ![w] = t]
    /\ phase' = [phase EXCEPT ![w] = "start"]
    /\ UNCHANGED <<rowVars, fileVars, queue, dropping, faultVars, sentVars>>

\* task := <-p.tasks.  A worker may still win this case of its select after the
\* context was cancelled.
Take(w) ==
    LET st == StageOf(w) IN
    /\ phase[w] = "free"
    /\ queue[st] # <<>>
    /\ cur' = [cur EXCEPT ![w] = Head(queue[st])]
    /\ queue' = [queue EXCEPT ![st] = Tail(@)]
    /\ phase' = [phase EXCEPT ![w] = "start"]
    /\ UNCHANGED <<rowVars, fileVars, batch, dropping, faultVars, sentVars>>

-----------------------------------------------------------------------------
(* Steps of a worker inside Execute.                                       *)

\* Worker w goes from one of the phases in from to phase to, holding its job.
Move(w, from, to) ==
    /\ phase[w] \in from
    /\ phase' = [phase EXCEPT ![w] = to]
    /\ UNCHANGED <<batch, queue, cur, dropping>>

\* Worker w returns from Execute.
Return(w, from) ==
    /\ phase[w] = from
    /\ phase' = [phase EXCEPT ![w] = "free"]
    /\ cur' = [cur EXCEPT ![w] = NoTask]
    /\ UNCHANGED <<batch, queue, dropping>>

\* Without audio or video there are no output arguments and TranscodingByPath
\* returns success without having run ffmpeg.
SkipTranscoding(w) ==
    /\ w \in TranscodingWorkers
    /\ Move(w, {"start"}, "release")
    /\ jobTrack[cur[w].id] # "media"
    /\ UNCHANGED <<rowVars, fileVars, faultVars, sentVars>>

\* ffmpeg opens its inputs before it creates its output.
StartFfmpeg(w) ==
    /\ w \in TranscodingWorkers
    /\ Move(w, {"start"}, "ffmpeg")
    /\ jobTrack[cur[w].id] = "media"
    /\ outFiles' = IF cur[w].id \in rawFiles
                   THEN outFiles \cup {<<cur[w].id, cur[w].retry>>}
                   ELSE outFiles
    /\ UNCHANGED <<rowVars, rawFiles, faultVars, sentVars>>

FfmpegDone(w) ==
    /\ Move(w, {"ffmpeg"}, "release")
    /\ <<cur[w].id, cur[w].retry>> \in outFiles
    /\ UNCHANGED <<rowVars, fileVars, faultVars, sentVars>>

\* DeleteFile(&mp4File): the copy of the job's file still lists its tracks.
FfmpegFails(w) ==
    /\ Move(w, {"ffmpeg"}, "failed")
    /\ DeleteFile(cur[w].id, cur[w].retry)
    /\ UNCHANGED <<rowVars, faultVars, sentVars>>

\* Mutant of ReleaseSources: it deletes the new file along with the old one.
ReleaseEverything(w) ==
    /\ Move(w, {"release"}, "update")
    /\ DeleteFile(cur[w].id, cur[w].retry)
    /\ UNCHANGED <<rowVars, faultVars, sentVars>>

\* successJob deletes the raw files first ...
ReleaseSources(w) ==
    /\ Move(w, {"release"}, "update")
    /\ DeleteFile(cur[w].id, cur[w].path)
    /\ UNCHANGED <<rowVars, faultVars, sentVars>>

\* Mutant of PromoteJob: uploadJob.Retry = 0 is missing.
PromoteKeepsRetry(w) ==
    /\ Return(w, "update")
    /\ \/ DbAnswers /\ Update(cur[w].id, "upload", cur[w].retry, cur[w].retry)
       \/ DbRefuses /\ UNCHANGED rowVars
    /\ UNCHANGED <<fileVars, sentVars>>

\* ... and then makes the row an upload job of the new file.
PromoteJob(w) ==
    /\ Return(w, "update")
    /\ \/ DbAnswers /\ Update(cur[w].id, "upload", cur[w].retry, 0)
       \/ DbRefuses /\ UNCHANGED rowVars
    /\ UNCHANGED <<fileVars, sentVars>>

\* The file opens and the storage service accepts a stream.
OpenUpload(w) ==
    /\ w \in UploadWorkers
    /\ Move(w, {"start"}, "sending")
    /\ proc = "up"
    /\ <<cur[w].id, cur[w].path>> \in outFiles
    /\ UNCHANGED <<rowVars, fileVars, faultVars, sentVars>>

\* Opening, connecting, sending or reading fails.  A read error also ends the stream
\* with CloseSend: what the service then has is cut short, and neither sent nor stored
\* counts it.
UploadFails(w) ==
    /\ w \in UploadWorkers
    /\ Move(w, {"start", "sending"}, "failed")
    /\ UNCHANGED <<rowVars, fileVars, faultVars, sentVars>>

\* Mutant of FinishUpload: io.EOF is not turned into nil.
FinishWithEof(w) ==
    /\ Move(w, {"sending"}, "failed")
    /\ sent' = [sent EXCEPT ![cur[w].id] = @ + 1]
    /\ stored' \in {stored, stored \cup {cur[w].id}}
    /\ UNCHANGED <<rowVars, fileVars, faultVars>>

\* CloseSend ends the stream; its error and the service's answer are not read,
\* so the service may or may not have kept the file.
FinishUpload(w) ==
    /\ Move(w, {"sending"}, "cleanup")
    /\ sent' = [sent EXCEPT ![cur[w].id] = @ + 1]
    /\ stored' \in {stored, stored \cup {cur[w].id}}
    /\ UNCHANGED <<rowVars, fileVars, faultVars>>

\* Mutant of CleanupDue: > instead of >=.
CleanupDueLate(w) ==
    \/ phase[w] = "cleanup"
    \/ phase[w] = "failed" /\ cur[w].retry > MaxRetry[StageOf(w)]

\* errorJob at the last attempt, or a successful upload: cleanup deletes the
\* files first ...
CleanupDue(w) ==
    \/ phase[w] = "cleanup"
    \/ phase[w] = "failed" /\ cur[w].retry >= MaxRetry[StageOf(w)]

\* Mutant of CleanupFiles: only the tracks are removed.
CleanupTracksOnly(w) ==
    /\ CleanupDue(w)
    /\ Move(w, {"failed", "cleanup"}, "delete")
    /\ DeleteFile(cur[w].id, 0)
    /\ UNCHANGED <<rowVars, faultVars, sentVars>>

CleanupFiles(w) ==
    /\ CleanupDue(w)
    /\ Move(w, {"failed", "cleanup"}, "delete")
    /\ DeleteFile(cur[w].id, cur[w].path)
    /\ UNCHANGED <<rowVars, faultVars, sentVars>>

\* ... and then the row.
DeleteJob(w) ==
    /\ Return(w, "delete")
    /\ \/ DbAnswers /\ Delete(cur[w].id)
       \/ DbRefuses /\ UNCHANGED rowVars
    /\ UNCHANGED <<fileVars, sentVars>>

\* errorJob before the last attempt.
RetryLater(w) ==
    /\ Return(w, "failed")
    /\ ~ CleanupDue(w)
    /\ \/ DbAnswers /\ SetError(cur[w].id)
       \/ DbRefuses /\ UNCHANGED rowVars
    /\ UNCHANGED <<fileVars, sentVars>>

-----------------------------------------------------------------------------
(* The process.                                                            *)

\* apiCmd cancels the context before it shuts the application down.
CancelContext ==
    /\ proc = "up" /\ restarts < MaxRestarts
    /\ proc' = "stopping"
    /\ UNCHANGED <<rowVars, fileVars, memVars, restarts, dbErrors, sentVars>>

\* A crash, or the end of a shutdown: nobody waits for the pools.
ProcessEnds ==
    /\ proc \in {"up", "stopping"} /\ restarts < MaxRestarts
    /\ proc' = "down"
    /\ batch' = [st \in Stages |-> {}]
    /\ queue' = [st \in Stages |-> <<>>]
    /\ cur' = [w \in Workers |-> NoTask]
    /\ phase' = [w \in Workers |-> "free"]
    /\ dropping' = {}
    /\ UNCHANGED <<rowVars, fileVars, restarts, dbErrors, sentVars>>

\* Mutant of StartProcess: NewFileJobStore does not call Reset.
StartWithoutReset ==
    /\ proc = "down"
    /\ proc' = "up"
    /\ restarts' = restarts + 1
    /\ UNCHANGED <<rowVars, fileVars, memVars, dbErrors, sentVars>>

\* NewFileJobStore resets the instance's rows before a listener starts; a failed
\* Reset is only logged.
StartProcess ==
    /\ proc = "down"
    /\ proc' = "up"
    /\ restarts' = restarts + 1
    /\ \/ Reset /\ UNCHANGED dbErrors
       \/ dbErrors < MaxDbErrors /\ dbErrors' = dbErrors + 1 /\ UNCHANGED rowVars
    /\ UNCHANGED <<fileVars, memVars, sentVars>>

-----------------------------------------------------------------------------

Execute(w) ==
    \/ SkipTranscoding(w) \/ StartFfmpeg(w) \/ FfmpegDone(w) \/ FfmpegFails(w)
    \/ ReleaseSources(w) \/ PromoteJob(w)
    \/ OpenUpload(w) \/ UploadFails(w) \/ FinishUpload(w)
    \/ CleanupFiles(w) \/ DeleteJob(w) \/ RetryLater(w)

Next ==
    \/ \E j \in Jobs, track \in TrackKinds :
          SubmitRecording(j, track) \/ SubmitFails(j, track)
    \/ \E j \in Jobs : DropRecording(j)
    \/ \E st \in Stages : Poll(st) \/ Exec(st)
    \/ \E w \in Workers : HandOver(w) \/ Take(w) \/ Execute(w)
    \/ CancelContext \/ ProcessEnds \/ StartProcess

Spec == Init /\ [][Next]_vars

\* The ticker keeps polling, a goroutine that can run runs, ffmpeg and the
\* storage service answer in the end, and a supervisor starts the process again.
Fairness ==
    /\ \A st \in Stages : WF_vars(Poll(st)) /\ WF_vars(Exec(st))
    /\ \A w \in Workers : WF_vars(HandOver(w) \/ Take(w) \/ Execute(w))
    /\ WF_vars(proc = "stopping" /\ ProcessEnds)
    /\ WF_vars(StartProcess)

FairSpec == Spec /\ Fairness

-----------------------------------------------------------------------------
(* Properties.                                                             *)

\* Every variable has its type, and the bound on restarts always leaves room for
\* the one that is due.
TypeOK ==
    /\ StoreTypeOK
    /\ FilesTypeOK
    /\ batch \in [Stages -> SUBSET Tasks]
    /\ queue \in [Stages -> Seq(Tasks)]
    /\ cur \in [Workers -> Tasks \cup {NoTask}]
    /\ phase \in [Workers -> Phases]
    /\ dropping \subseteq Jobs
    /\ proc \in {"up", "stopping", "down"}
    /\ restarts \in 0 .. MaxRestarts
    /\ proc # "up" => restarts < MaxRestarts
    /\ dbErrors \in 0 .. MaxDbErrors
    /\ sent \in [Jobs -> Nat]
    /\ stored \subseteq Jobs

\* Task t of stage st is the claim on an active row: the copy still agrees with
\* the row in everything the worker acts on.
Claims(t, st) ==
    /\ jobState[t.id] = "active"
    /\ jobType[t.id] = st
    /\ jobRetry[t.id] = t.retry
    /\ jobPath[t.id] = t.path

Queued(st) == {queue[st][i] : i \in 1 .. Len(queue[st])}
Busy == {w \in Workers : phase[w] # "free"}

\* Whatever a listener, a channel or a worker holds is backed by an active row
\* with the same attempt number and file (listen and Execute act on copies long
\* after Fetch returned them) ...
ClaimsHold ==
    /\ \A st \in Stages : \A t \in batch[st] \cup Queued(st) : Claims(t, st)
    /\ \A w \in Busy : Claims(cur[w], StageOf(w))

\* ... and no recording is held twice, so no two goroutines ever transcode,
\* upload or clean up the same files.
HeldOnce ==
    /\ \A st \in Stages : \A t, u \in batch[st] : t.id = u.id => t = u
    /\ \A st \in Stages : \A t \in batch[st], u \in Queued(st) : t.id # u.id
    /\ \A st \in Stages : \A i, k \in 1 .. Len(queue[st]) :
          queue[st][i].id = queue[st][k].id => i = k
    /\ \A w \in Busy : \A t \in batch[StageOf(w)] \cup Queued(StageOf(w)) :
          cur[w].id # t.id
    /\ \A v, w \in Busy : cur[v].id = cur[w].id => v = w

\* The state and the retry column, across fetches, lost answers, crashes and
\* Reset, keep every claim exclusive and accurate.
SingleClaim == ClaimsHold /\ HeldOnce

\* A row is attempted at most MaxRetry times per stage (once when MaxRetry is
\* 0), and one time more for each restart: Reset revives a row whose last
\* attempt did not get as far as deleting it.
AttemptLimit(st) == IF MaxRetry[st] = 0 THEN 1 ELSE MaxRetry[st]

AttemptBound ==
    \A j \in Jobs : Exists(j) =>
        /\ jobRetry[j] <= AttemptLimit(jobType[j]) + restarts
        /\ jobState[j] = "idle" => jobRetry[j] < AttemptLimit(jobType[j]) + restarts

\* As long as an upload job has not sent its file and has attempts left, the
\* transcoded file it names is on disk, whatever crashed or failed before.
UploadKeepsOutput ==
    \A j \in Jobs :
        /\ Exists(j)
        /\ jobType[j] = "upload"
        /\ jobTrack[j] = "media"
        /\ sent[j] = 0
        /\ jobRetry[j] < MaxRetry["upload"]
        => <<j, jobPath[j]>> \in outFiles

\* A deleted row never leaves raw track files behind: after it is gone nothing
\* in the program knows their names.
RawReleased == \A j \in Jobs : jobState[j] = "gone" => j \notin rawFiles

\* While nothing failed, every file in the temporary directory has an owner
\* that will still delete it: a row, a worker, or a session dropping it.
Owned(j, k) ==
    \/ Exists(j) /\ jobType[j] = "upload" /\ jobPath[j] = k
    \/ \E w \in TranscodingWorkers :
          /\ cur[w].id = j /\ cur[w].retry = k
          /\ phase[w] \in {"ffmpeg", "release", "update"}

NoLeakWithoutFaults ==
    proc = "up" /\ restarts = 0 /\ dbErrors = 0 =>
        /\ \A f \in outFiles : Owned(f[1], f[2])
        /\ \A j \in rawFiles : Exists(j) /\ jobType[j] = "transcoding"

\* One life of the process sends a recording at most once: a job whose upload
\* ended is not uploaded again before a restart, even when deleting its row
\* failed.
SentOncePerLife == \A j \in Jobs : sent[j] <= 1 + restarts

\* A listener, a channel or a worker has recording j in its hands.
InHand(j) ==
    \/ \E st \in Stages : \E t \in batch[st] \cup Queued(st) : t.id = j
    \/ \E w \in Busy : cur[w].id = j

\* Until the database fails for the first time, no row of a living process is forgotten
\* in the active state, where Fetch does not see it: what a shutdown or a crash let fall
\* in an earlier life Reset has made idle again, and Execute never returns without having
\* changed its row.
NoRowForgotten ==
    proc = "up" /\ dbErrors = 0 =>
        \A j \in Jobs : jobState[j] = "active" => InHand(j)

\* Every accepted recording leaves the table in the end, as long as the database
\* answers: no row is forgotten in the active state, whenever the process ends.
Settles == \A j \in Jobs : Exists(j) ~> jobState[j] = "gone"

\* What the pipeline promises, stated without workers, files or faults: the
\* stage a recording is in, the attempts begun there, and whether it was sent.
StageNow == [j \in Jobs |-> IF jobState[j] = "absent" THEN "new"
                            ELSE IF Exists(j) THEN jobType[j] ELSE "settled"]
TriesNow == [j \in Jobs |-> IF Exists(j) THEN jobRetry[j] ELSE 0]
SentNow  == [j \in Jobs |-> sent[j] > 0]

Lifecycle == INSTANCE JobLifecycle WITH
    stage <- StageNow, tries <- TriesNow, delivered <- SentNow

\* The pipeline implements the life cycle.
ImplementsLifecycle == Lifecycle!Spec

-----------------------------------------------------------------------------
(* What makes these properties inductive.                                  *)

\* Nothing in memory survives the process.
MemoryLost ==
    proc = "down" =>
        /\ \A st \in Stages : batch[st] = {} /\ queue[st] = <<>>
        /\ \A w \in Workers : phase[w] = "free"

\* A worker that executes holds a job, and is only where its pool's Execute
\* takes it.
InExecute ==
    /\ \A w \in Busy : cur[w] \in Tasks
    /\ \A w \in TranscodingWorkers : phase[w] \notin {"sending", "cleanup"}
    /\ \A w \in UploadWorkers : phase[w] \notin {"ffmpeg", "release", "update"}

\* What the columns of a row say together.
RowsConsistent ==
    \A j \in Jobs :
        /\ jobState[j] = "absent" => jobType[j] = "transcoding" /\ jobRetry[j] = 0
        /\ jobState[j] = "active" => jobRetry[j] > 0
        /\ jobType[j] = "transcoding" <=> jobPath[j] = 0

\* A successful transcoding still has its output when it makes the row an upload
\* job, and a worker deletes a row only when it may.
HandsFull ==
    /\ \A w \in TranscodingWorkers :
          /\ phase[w] \in {"release", "update"}
          /\ jobTrack[cur[w].id] = "media"
          => <<cur[w].id, cur[w].retry>> \in outFiles
    /\ \A w \in Workers : phase[w] = "cleanup" => sent[cur[w].id] > 0
    /\ \A w \in Workers : phase[w] = "delete" =>
          \/ cur[w].retry >= MaxRetry[StageOf(w)]
          \/ StageOf(w) = "upload" /\ sent[cur[w].id] > 0

IInv == /\ TypeOK /\ SingleClaim /\ MemoryLost /\ InExecute /\ RowsConsistent
        /\ AttemptBound /\ HandsFull /\ UploadKeepsOutput

-----------------------------------------------------------------------------
(* What the documentation says and the code does not do.                   *)

\* README: a failed transcoding is tried again up to --transcoding-max-retry
\* times.  A row waiting for its next transcoding attempt has something to
\* transcode.
RetryHasSources ==
    \A j \in Jobs :
        /\ jobState[j] = "idle"
        /\ jobType[j] = "transcoding"
        /\ jobTrack[j] = "media"
        => j \in rawFiles

\* README: the result is uploaded to the file storage.  A recording whose upload
\* ended without an error is kept by the storage service when its row and its
\* only copy are deleted.
SuccessMeansStored ==
    \A j \in Jobs : jobState[j] = "gone" /\ sent[j] > 0 => j \in stored
=============================================================================
