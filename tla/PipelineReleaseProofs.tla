------------------------ MODULE PipelineReleaseProofs -----------------------
(***************************************************************************)
(* What the pipeline leaves behind: a deleted row leaves no raw file       *)
(* (RawReleased), without faults every file has an owner                   *)
(* (NoLeakWithoutFaults), and one life of the process sends a recording at *)
(* most once (SentOncePerLife).                                            *)
(***************************************************************************)
EXTENDS PipelineOutcomeProofs

\* Files belong to recordings that were captured: raw files to one that lists a
\* track, outputs to one with audio or video.  DeleteFile does remove them.
FilesKnown ==
    /\ \A j \in rawFiles : jobState[j] # "absent" /\ jobTrack[j] # "none"
    /\ \A f \in outFiles : jobState[f[1]] # "absent" /\ jobTrack[f[1]] = "media"

\* A worker that has deleted its job's files and not yet changed the row finds none.
HandsEmpty ==
    \A w \in Workers :
        /\ phase[w] \in {"update", "delete"} => cur[w].id \notin rawFiles
        /\ phase[w] = "delete" => <<cur[w].id, cur[w].path>> \notin outFiles

ReleaseInv == /\ ClaimInv /\ RowsConsistent /\ FilesKnown /\ HandsEmpty
              /\ RawReleased /\ NoLeakWithoutFaults

\* Whoever may still send a recording in this life of the process (its row is idle, a
\* listener or a channel holds it, or a worker has not come to the end of the file)
\* finds it sent at most once per earlier life.
Unsent ==
    /\ \A j \in Jobs : jobState[j] \in {"absent", "idle"} => sent[j] <= restarts
    /\ \A st \in Stages : \A t \in batch[st] \cup Queued(st) : sent[t.id] <= restarts
    /\ \A w \in Workers : phase[w] \notin {"free", "cleanup", "delete"}
                          => sent[cur[w].id] <= restarts

SentInv == ClaimInv /\ RowsConsistent /\ Unsent /\ SentOncePerLife
-----------------------------------------------------------------------------
(* Files.                                                                  *)

\* DeleteFile only removes, and what it is told to remove is gone: a recording
\* without tracks, for which it does nothing, has no file.
LEMMA FilesRemoved ==
    ASSUME TypeOK, FilesKnown, NEW j, NEW path, DeleteFile(j, path)
    PROVE  /\ rawFiles' \subseteq rawFiles /\ outFiles' \subseteq outFiles
           /\ j \notin rawFiles' /\ <<j, path>> \notin outFiles'
BY DEF DeleteFile, fileVars, FilesKnown, TypeOK, FilesTypeOK

\* Removing files, and changing rows that exist, adds no unknown file.
LEMMA FilesKept ==
    ASSUME TypeOK, FilesKnown, jobTrack' = jobTrack,
           rawFiles' \subseteq rawFiles, outFiles' \subseteq outFiles,
           \A j \in Jobs : jobState[j] # "absent" => jobState'[j] # "absent"
    PROVE  FilesKnown'
BY DEF FilesKnown, TypeOK, FilesTypeOK

\* No worker comes to its statement with files left, if those that get there have
\* deleted them.
LEMMA HandsKept ==
    ASSUME HandsEmpty, rawFiles' \subseteq rawFiles, outFiles' \subseteq outFiles,
           \A w \in Workers :
              \/ phase'[w] = phase[w] /\ cur'[w] = cur[w]
              \/ phase'[w] \notin {"update", "delete"}
              \/ /\ cur'[w].id \notin rawFiles'
                 /\ <<cur'[w].id, cur'[w].path>> \notin outFiles'
    PROVE  HandsEmpty'
BY DEF HandsEmpty

\* Steps that delete no row.
LEMMA RawKept ==
    ASSUME RawReleased, rawFiles' \subseteq rawFiles,
           \A j \in Jobs : jobState'[j] = "gone" => jobState[j] = "gone" \/ j \notin rawFiles
    PROVE  RawReleased'
BY DEF RawReleased

Calm == proc = "up" /\ restarts = 0 /\ dbErrors = 0

\* Calm ends with the first fault and does not come back.
LEMMA CalmBefore ==
    ASSUME TypeOK, [Next]_vars, Calm'
    PROVE  Calm
<1> USE DEF Calm, TypeOK
<1>1. restarts \in Nat /\ dbErrors \in Nat
  BY PipelineAssumption
<1>2. CASE StartProcess
  BY <1>1, <1>2 DEF StartProcess
<1>3. CASE CancelContext \/ ProcessEnds
  BY <1>3 DEF CancelContext, ProcessEnds
<1>4. CASE DbAnswers \/ DbRefuses \/ UNCHANGED faultVars
  BY <1>1, <1>4 DEF DbAnswers, DbRefuses, faultVars
<1>5. ASSUME NEW w \in Workers, Execute(w)
      PROVE  DbAnswers \/ DbRefuses \/ UNCHANGED faultVars
  BY <1>5 DEF Execute, SkipTranscoding, StartFfmpeg, FfmpegDone, FfmpegFails,
     ReleaseSources, PromoteJob, OpenUpload, UploadFails, FinishUpload, CleanupFiles,
     DeleteJob, RetryLater
<1> QED
  BY <1>2, <1>3, <1>4, <1>5 DEF Next, SubmitRecording, SubmitFails, DropRecording, Poll,
     Exec, HandOver, Take, vars

\* In a calm step no statement is refused.
LEMMA CalmAnswers ==
    ASSUME TypeOK, Calm', DbRefuses
    PROVE  FALSE
<1>1. dbErrors \in Nat
  BY PipelineAssumption DEF TypeOK
<1> QED
  BY <1>1 DEF Calm, DbRefuses

Making == {"ffmpeg", "release", "update"}

\* Every file keeps its owner when rows keep theirs and a worker that stops making an
\* output has removed it.
LEMMA OwnersKept ==
    ASSUME TypeOK, \A f \in outFiles : Owned(f[1], f[2]),
           outFiles' \subseteq outFiles,
           UNCHANGED <<jobType, jobPath>>,
           \A j \in Jobs : Exists(j) => Exists(j)',
           \A w \in TranscodingWorkers :
              phase[w] \in Making =>
                 \/ phase'[w] \in Making /\ cur'[w] = cur[w]
                 \/ <<cur[w].id, cur[w].retry>> \notin outFiles'
    PROVE  \A f \in outFiles' : Owned(f[1], f[2])'
<1> SUFFICES ASSUME NEW f \in outFiles' PROVE Owned(f[1], f[2])'
  OBVIOUS
<1>1. f \in outFiles /\ f[1] \in Jobs /\ f = <<f[1], f[2]>>
  BY DEF TypeOK, FilesTypeOK
<1>2. Owned(f[1], f[2])
  BY <1>1
<1>3. CASE Exists(f[1]) /\ jobType[f[1]] = "upload" /\ jobPath[f[1]] = f[2]
  BY <1>1, <1>3 DEF Owned
<1>4. ASSUME NEW w \in TranscodingWorkers, cur[w].id = f[1], cur[w].retry = f[2],
             phase[w] \in Making
      PROVE  Owned(f[1], f[2])'
  <2>1. phase'[w] \in Making /\ cur'[w] = cur[w]
    BY <1>1, <1>4
  <2> QED
    BY <1>4, <2>1 DEF Owned, Making
<1> QED
  BY <1>2, <1>3, <1>4 DEF Owned, Making

\* Without faults: the rows stay, so the raw files keep their row too.
LEMMA LeakKept ==
    ASSUME TypeOK, NoLeakWithoutFaults, Calm' => Calm,
           rawFiles' \subseteq rawFiles, outFiles' \subseteq outFiles,
           UNCHANGED <<jobType, jobPath>>,
           \A j \in Jobs : Exists(j) => Exists(j)',
           \A w \in TranscodingWorkers :
              phase[w] \in Making =>
                 \/ phase'[w] \in Making /\ cur'[w] = cur[w]
                 \/ <<cur[w].id, cur[w].retry>> \notin outFiles'
                 \/ ~ Calm'
    PROVE  NoLeakWithoutFaults'
<1> SUFFICES ASSUME Calm'
             PROVE  /\ \A f \in outFiles' : Owned(f[1], f[2])'
                    /\ \A j \in rawFiles' : Exists(j)' /\ jobType'[j] = "transcoding"
  BY DEF NoLeakWithoutFaults, Calm
<1>1. /\ \A f \in outFiles : Owned(f[1], f[2])
      /\ \A j \in rawFiles : Exists(j) /\ jobType[j] = "transcoding"
  BY DEF NoLeakWithoutFaults, Calm
<1>2. \A j \in rawFiles' : Exists(j)' /\ jobType'[j] = "transcoding"
  BY <1>1 DEF TypeOK, FilesTypeOK
<1> QED
  BY <1>1, <1>2, OwnersKept

\* A worker that goes on: nothing but its phase and the files it deletes changes.
LEMMA MoveReleases ==
    ASSUME ReleaseInv, Calm' => Calm, NEW w \in Workers, NEW from, NEW to,
           Move(w, from, to), UNCHANGED rowVars,
           rawFiles' \subseteq rawFiles, outFiles' \subseteq outFiles,
           to \in {"update", "delete"} =>
              cur[w].id \notin rawFiles' /\ <<cur[w].id, cur[w].path>> \notin outFiles',
           w \in TranscodingWorkers /\ phase[w] \in Making =>
              to \in Making \/ <<cur[w].id, cur[w].retry>> \notin outFiles'
    PROVE  FilesKnown' /\ HandsEmpty' /\ RawReleased' /\ NoLeakWithoutFaults'
<1> USE DEF ReleaseInv
<1>1. /\ TypeOK /\ phase'[w] = to /\ cur' = cur
      /\ \A v \in Workers \ {w} : phase'[v] = phase[v]
  BY DEF Move, ClaimInv, TypeOK
<1>2. FilesKnown'
  BY <1>1, FilesKept DEF rowVars
<1>3. HandsEmpty'
  BY <1>1, HandsKept
<1>4. RawReleased'
  BY RawKept DEF rowVars
<1>5. NoLeakWithoutFaults'
  <2>1. \A v \in TranscodingWorkers : phase[v] \in Making =>
           \/ phase'[v] \in Making /\ cur'[v] = cur[v]
           \/ <<cur[v].id, cur[v].retry>> \notin outFiles'
    BY <1>1, StageOfWorker
  <2>2. UNCHANGED <<jobType, jobPath>> /\ \A j \in Jobs : Exists(j) => Exists(j)'
    BY DEF rowVars, Exists
  <2> QED
    BY <1>1, <2>1, <2>2, LeakKept
<1> QED
  BY <1>2, <1>3, <1>4, <1>5

\* A worker that returns: its statement changed the row it held, or none.
LEMMA ReturnReleases ==
    ASSUME ReleaseInv, Calm' => Calm, NEW w \in Workers,
           PromoteJob(w) \/ DeleteJob(w) \/ RetryLater(w)
    PROVE  FilesKnown' /\ HandsEmpty' /\ RawReleased' /\ NoLeakWithoutFaults'
<1> USE DEF ReleaseInv
<1> DEFINE j == cur[w].id
<1>1. /\ TypeOK /\ phase' = [phase EXCEPT ![w] = "free"] /\ phase[w] # "free"
      /\ cur' = [cur EXCEPT ![w] = NoTask] /\ UNCHANGED fileVars
  BY DEF PromoteJob, DeleteJob, RetryLater, Return, ClaimInv
<1>2. /\ j \in Jobs /\ Exists(j) /\ jobState[j] = "active" /\ jobType[j] = StageOf(w)
      /\ jobPath[j] = cur[w].path
      /\ \A v \in Workers : v # w /\ phase[v] # "free" => cur[v].id # j
  BY <1>1, Holder
<1>3. \A k \in Jobs : k # j => RowKept(k)
  BY <1>1, OthersKept
<1>4. jobTrack' = jobTrack /\ jobState'[j] # "absent"
  <2>1. jobState \in [Jobs -> RowStates]
    BY <1>1 DEF TypeOK, StoreTypeOK
  <2> QED
    BY <1>2, <2>1 DEF PromoteJob, DeleteJob, RetryLater, Update, Delete, SetError, rowVars
<1>5. FilesKnown'
  BY <1>1, <1>3, <1>4, FilesKept DEF fileVars, RowKept
<1>6. /\ phase'[w] = "free"
      /\ \A v \in Workers \ {w} : phase'[v] = phase[v] /\ cur'[v] = cur[v]
  BY <1>1 DEF TypeOK
<1>7. HandsEmpty'
  BY <1>1, <1>6, HandsKept DEF fileVars
<1>8. CASE jobState'[j] # "gone"
  <2>1. RawReleased'
    BY <1>1, <1>3, <1>8, RawKept DEF fileVars, RowKept
  <2>2. CASE UNCHANGED <<jobType, jobPath>> /\ phase[w] \notin Making
    <3>1. jobState'[j] \in {"idle", "active"}
      BY <1>1, <1>2, <1>8, <2>2 DEF PromoteJob, DeleteJob, RetryLater, Return, Delete, SetError,
         rowVars, Making, TypeOK, StoreTypeOK
    <3>2. \A k \in Jobs : Exists(k) => Exists(k)'
      BY <1>3, <3>1 DEF Exists, RowKept
    <3>3. \A v \in TranscodingWorkers : phase[v] \in Making =>
             phase'[v] \in Making /\ cur'[v] = cur[v]
      BY <1>6, <2>2, StageOfWorker
    <3>4. NoLeakWithoutFaults'
      BY <1>1, <2>2, <3>2, <3>3, LeakKept DEF fileVars
    <3> QED
      BY <1>5, <1>7, <2>1, <3>4
  <2>3. CASE PromoteJob(w)
    <3> SUFFICES ASSUME Calm' PROVE NoLeakWithoutFaults'
      BY <1>5, <1>7, <2>1 DEF NoLeakWithoutFaults, Calm
    <3>1. Update(j, "upload", cur[w].retry, 0) /\ phase[w] = "update"
      BY <1>1, <2>3, CalmAnswers DEF PromoteJob, Return
    <3>2. w \in TranscodingWorkers /\ j \notin rawFiles /\ jobType[j] = "transcoding"
      BY <1>2, <3>1, StageOfWorker DEF ClaimInv, InExecute, HandsEmpty
    <3>3. /\ \A f \in outFiles : Owned(f[1], f[2])
          /\ \A k \in rawFiles : Exists(k) /\ jobType[k] = "transcoding"
      BY DEF NoLeakWithoutFaults, Calm
    <3>4. \A k \in rawFiles' : Exists(k)' /\ jobType'[k] = "transcoding"
      BY <1>1, <1>3, <3>2, <3>3 DEF fileVars, RowKept, Exists, TypeOK, FilesTypeOK
    <3>t. /\ jobState \in [Jobs -> RowStates] /\ jobType \in [Jobs -> Stages]
          /\ jobPath \in [Jobs -> Nat]
      BY <1>1 DEF TypeOK, StoreTypeOK
    <3>5. /\ jobState'[j] = "idle" /\ jobType'[j] = "upload" /\ jobPath'[j] = cur[w].retry
      BY <1>2, <3>t, <3>1 DEF Update
    <3>6. \A f \in outFiles' : Owned(f[1], f[2])'
      <4> SUFFICES ASSUME NEW f \in outFiles PROVE Owned(f[1], f[2])'
        BY <1>1 DEF fileVars
      <4>1. f[1] \in Jobs /\ Owned(f[1], f[2])
        BY <1>1, <3>3 DEF TypeOK, FilesTypeOK
      <4>2. CASE Exists(f[1]) /\ jobType[f[1]] = "upload" /\ jobPath[f[1]] = f[2]
        BY <1>3, <3>2, <4>1, <4>2 DEF Owned, Exists, RowKept
      <4>3. ASSUME NEW v \in TranscodingWorkers, cur[v].id = f[1], cur[v].retry = f[2],
                   phase[v] \in Making
            PROVE  Owned(f[1], f[2])'
        <5>1. CASE v = w
          BY <3>5, <4>3, <5>1 DEF Owned, Exists
        <5>2. CASE v # w
          BY <1>6, <4>3, <5>2, StageOfWorker DEF Owned, Making
        <5> QED
          BY <5>1, <5>2
      <4> QED
        BY <4>1, <4>2, <4>3 DEF Owned, Making
    <3> QED
      BY <3>4, <3>6 DEF NoLeakWithoutFaults
  <2> QED
    BY <2>2, <2>3 DEF PromoteJob, DeleteJob, RetryLater, Return, Delete, SetError, rowVars, Making
<1>9. CASE jobState'[j] = "gone"
  <2>1. Delete(j) /\ phase[w] = "delete"
    BY <1>1, <1>2, <1>9 DEF PromoteJob, DeleteJob, RetryLater, Update, SetError, Return, rowVars,
       TypeOK, StoreTypeOK
  <2>2. j \notin rawFiles /\ <<j, cur[w].path>> \notin outFiles
    BY <2>1 DEF HandsEmpty
  <2>3. RawReleased'
    BY <1>1, <1>3, <2>2, RawKept DEF fileVars, RowKept
  <2> SUFFICES ASSUME Calm' PROVE NoLeakWithoutFaults'
    BY <1>5, <1>7, <2>3 DEF NoLeakWithoutFaults, Calm
  <2>4. /\ \A f \in outFiles : Owned(f[1], f[2])
        /\ \A k \in rawFiles : Exists(k) /\ jobType[k] = "transcoding"
    BY DEF NoLeakWithoutFaults, Calm
  <2>5. \A k \in rawFiles' : Exists(k)' /\ jobType'[k] = "transcoding"
    BY <1>1, <1>3, <2>2, <2>4 DEF fileVars, RowKept, Exists, TypeOK, FilesTypeOK
  <2>6. \A f \in outFiles' : Owned(f[1], f[2])'
    <3> SUFFICES ASSUME NEW f \in outFiles PROVE Owned(f[1], f[2])'
      BY <1>1 DEF fileVars
    <3>1. f[1] \in Jobs /\ f = <<f[1], f[2]>> /\ Owned(f[1], f[2])
      BY <1>1, <2>4 DEF TypeOK, FilesTypeOK
    <3>2. CASE Exists(f[1]) /\ jobType[f[1]] = "upload" /\ jobPath[f[1]] = f[2]
      BY <1>2, <1>3, <2>2, <3>1, <3>2 DEF Owned, Exists, RowKept
    <3>3. ASSUME NEW v \in TranscodingWorkers, cur[v].id = f[1], cur[v].retry = f[2],
                 phase[v] \in Making
          PROVE  Owned(f[1], f[2])'
      BY <1>6, <2>1, <3>3, StageOfWorker DEF Owned, Making
    <3> QED
      BY <3>1, <3>2, <3>3 DEF Owned, Making
  <2> QED
    BY <2>5, <2>6 DEF NoLeakWithoutFaults
<1> QED
  BY <1>8, <1>9

\* A step of a worker inside Execute.
LEMMA ExecuteReleases ==
    ASSUME ReleaseInv, Calm' => Calm, NEW w \in Workers, Execute(w)
    PROVE  FilesKnown' /\ HandsEmpty' /\ RawReleased' /\ NoLeakWithoutFaults'
<1> DEFINE j == cur[w].id
<1>t. TypeOK /\ FilesKnown
  BY DEF ReleaseInv, ClaimInv
<1>h. phase[w] # "free" => /\ j \in Jobs /\ cur[w].retry > 0 /\ Exists(j)
                           /\ jobState[j] = "active"
                           /\ StageOf(w) = "transcoding" => cur[w].path = 0
                           /\ \A v \in Workers : v # w /\ phase[v] # "free" => cur[v].id # j
  BY Holder DEF ReleaseInv
<1>s. phase[w] \in Making => w \in TranscodingWorkers
  BY StageOfWorker DEF ReleaseInv, ClaimInv, InExecute, Making
<1>1. CASE SkipTranscoding(w) \/ FfmpegDone(w)
  BY <1>1, MoveReleases DEF SkipTranscoding, FfmpegDone, fileVars, Making
<1>2. CASE OpenUpload(w) \/ UploadFails(w) \/ FinishUpload(w)
  <2>1. w \in UploadWorkers => w \notin TranscodingWorkers
    BY PipelineAssumption
  <2>2. phase[w] \notin Making
    BY <1>2, <1>s, <2>1 DEF OpenUpload, UploadFails, FinishUpload, Move, Making
  <2> QED
    BY <1>2, <2>2, MoveReleases DEF OpenUpload, UploadFails, FinishUpload, fileVars
<1>3. CASE StartFfmpeg(w)
  <2>1. /\ phase[w] = "start" /\ jobTrack[j] = "media" /\ w \in TranscodingWorkers
        /\ UNCHANGED <<rowVars, rawFiles>>
        /\ outFiles' \subseteq outFiles \cup {<<j, cur[w].retry>>}
    BY <1>3 DEF StartFfmpeg, Move
  <2>2. /\ phase'[w] = "ffmpeg" /\ cur' = cur
        /\ \A v \in Workers \ {w} : phase'[v] = phase[v]
    BY <1>3, <1>t DEF StartFfmpeg, Move, TypeOK
  <2>3. FilesKnown'
    BY <1>h, <1>t, <2>1 DEF FilesKnown, rowVars
  <2>4. HandsEmpty'
    <3> SUFFICES ASSUME NEW v \in Workers
                 PROVE  /\ phase'[v] \in {"update", "delete"} => cur[v].id \notin rawFiles
                        /\ phase'[v] = "delete" => <<cur[v].id, cur[v].path>> \notin outFiles'
      BY <2>1, <2>2 DEF HandsEmpty
    <3>1. CASE v = w
      BY <2>2, <3>1
    <3>2. CASE v # w
      BY <1>h, <2>1, <2>2, <3>2 DEF ReleaseInv, HandsEmpty
    <3> QED
      BY <3>1, <3>2
  <2>5. RawReleased'
    BY <2>1 DEF ReleaseInv, RawReleased, rowVars
  <2>6. ASSUME Calm'
        PROVE  /\ \A f \in outFiles' : Owned(f[1], f[2])'
               /\ \A k \in rawFiles' : Exists(k)' /\ jobType'[k] = "transcoding"
    <3>1. /\ \A f \in outFiles : Owned(f[1], f[2])
          /\ \A k \in rawFiles : Exists(k) /\ jobType[k] = "transcoding"
      BY <2>6 DEF ReleaseInv, NoLeakWithoutFaults, Calm
    <3>2. \A k \in rawFiles' : Exists(k)' /\ jobType'[k] = "transcoding"
      BY <2>1, <3>1 DEF rowVars, Exists
    <3>3. ASSUME NEW f \in outFiles PROVE Owned(f[1], f[2])'
      <4>1. CASE Exists(f[1]) /\ jobType[f[1]] = "upload" /\ jobPath[f[1]] = f[2]
        BY <2>1, <4>1 DEF Owned, Exists, rowVars
      <4>2. ASSUME NEW v \in TranscodingWorkers, cur[v].id = f[1], cur[v].retry = f[2],
                   phase[v] \in Making
            PROVE  Owned(f[1], f[2])'
        BY <2>1, <2>2, <4>2, StageOfWorker DEF Owned, Making
      <4> QED
        BY <3>1, <3>3, <4>1, <4>2 DEF Owned, Making
    <3>4. ASSUME NEW f \in outFiles' PROVE Owned(f[1], f[2])'
      <4>1. CASE f \in outFiles
        BY <3>3, <4>1
      <4>2. CASE f = <<j, cur[w].retry>>
        <5>1. f[1] = j /\ f[2] = cur[w].retry
          BY <4>2
        <5> QED
          BY <2>1, <2>2, <5>1 DEF Owned
      <4> QED
        BY <2>1, <3>4, <4>1, <4>2
    <3> QED
      BY <3>2, <3>4
  <2> QED
    BY <2>3, <2>4, <2>5, <2>6 DEF NoLeakWithoutFaults, Calm
<1>4. CASE FfmpegFails(w)
  <2>1. /\ Move(w, {"ffmpeg"}, "failed") /\ UNCHANGED rowVars
        /\ DeleteFile(j, cur[w].retry)
    BY <1>4 DEF FfmpegFails
  <2>2. /\ rawFiles' \subseteq rawFiles /\ outFiles' \subseteq outFiles
        /\ <<j, cur[w].retry>> \notin outFiles'
    BY <1>t, <2>1, FilesRemoved
  <2> QED
    BY <2>1, <2>2, MoveReleases
<1>5. CASE ReleaseSources(w)
  <2>1. /\ Move(w, {"release"}, "update") /\ UNCHANGED rowVars
        /\ DeleteFile(j, cur[w].path)
    BY <1>5 DEF ReleaseSources
  <2>2. /\ rawFiles' \subseteq rawFiles /\ outFiles' \subseteq outFiles
        /\ j \notin rawFiles' /\ <<j, cur[w].path>> \notin outFiles'
    BY <1>t, <2>1, FilesRemoved
  <2> QED
    BY <2>1, <2>2, MoveReleases DEF Making
<1>6. CASE CleanupFiles(w)
  <2>1. /\ Move(w, {"failed", "cleanup"}, "delete") /\ UNCHANGED rowVars
        /\ DeleteFile(j, cur[w].path)
    BY <1>6 DEF CleanupFiles
  <2>2. /\ rawFiles' \subseteq rawFiles /\ outFiles' \subseteq outFiles
        /\ j \notin rawFiles' /\ <<j, cur[w].path>> \notin outFiles'
    BY <1>t, <2>1, FilesRemoved
  <2>3. phase[w] \notin Making
    BY <2>1 DEF Move, Making
  <2> QED
    BY <2>1, <2>2, <2>3, MoveReleases
<1>7. CASE PromoteJob(w) \/ DeleteJob(w) \/ RetryLater(w)
  BY <1>7, ReturnReleases
<1> QED
  BY <1>1, <1>2, <1>3, <1>4, <1>5, <1>6, <1>7 DEF Execute

\* Every step of the pipeline.
LEMMA NextReleaseInv ==
    ASSUME ReleaseInv, [Next]_vars
    PROVE  ReleaseInv'
<1> DEFINE Goal == FilesKnown' /\ HandsEmpty' /\ RawReleased' /\ NoLeakWithoutFaults'
<1>0. ClaimInv' /\ RowsConsistent'
  BY NextClaimInv, NextRowsConsistent DEF ReleaseInv
<1>t. /\ TypeOK /\ FilesKnown /\ HandsEmpty /\ RawReleased /\ NoLeakWithoutFaults
  BY DEF ReleaseInv, ClaimInv
<1>c. Calm' => Calm
  BY <1>t, CalmBefore
<1>k. ASSUME rawFiles' \subseteq rawFiles, outFiles' \subseteq outFiles,
             UNCHANGED <<jobTrack, jobType, jobPath>>,
             \A j \in Jobs : /\ jobState[j] # "absent" => jobState'[j] # "absent"
                             /\ jobState'[j] = "gone" => jobState[j] = "gone"
                             /\ Exists(j) => Exists(j)',
             \A w \in Workers : \/ phase'[w] = phase[w] /\ cur'[w] = cur[w]
                                \/ phase'[w] \notin {"update", "delete"} /\ phase[w] \notin Making
                                \/ phase'[w] \notin {"update", "delete"} /\ ~ Calm'
      PROVE  Goal
  <2>1. \A w \in TranscodingWorkers : phase[w] \in Making =>
           (phase'[w] \in Making /\ cur'[w] = cur[w]) \/ ~ Calm'
    BY <1>k, StageOfWorker
  <2>2. FilesKnown'
    BY <1>t, <1>k, FilesKept
  <2>3. HandsEmpty'
    BY <1>t, <1>k, HandsKept
  <2>4. RawReleased'
    BY <1>t, <1>k, RawKept
  <2>5. NoLeakWithoutFaults'
    BY <1>t, <1>k, <1>c, <2>1, LeakKept
  <2> QED
    BY <2>2, <2>3, <2>4, <2>5
<1>1. ASSUME NEW j \in Jobs, NEW track \in TrackKinds,
             SubmitRecording(j, track) \/ SubmitFails(j, track)
      PROVE  Goal
  <2>1. /\ jobState[j] = "absent" /\ jobType[j] = "transcoding"
        /\ UNCHANGED <<jobType, jobPath, outFiles, cur, phase>>
        /\ rawFiles' = IF track = "none" THEN rawFiles ELSE rawFiles \cup {j}
        /\ jobTrack' = [jobTrack EXCEPT ![j] = track]
        /\ \/ jobState' = [jobState EXCEPT ![j] = "idle"]
           \/ jobState' = [jobState EXCEPT ![j] = "refused"] /\ DbRefuses
    BY <1>1 DEF SubmitRecording, SubmitFails, Captured, NextId, Create, ReleaseInv, RowsConsistent
  <2>2. jobTrack'[j] = track /\ jobState'[j] \in {"idle", "refused"}
        /\ \A k \in Jobs \ {j} : jobState'[k] = jobState[k] /\ jobTrack'[k] = jobTrack[k]
    BY <1>t, <2>1 DEF TypeOK, StoreTypeOK
  <2>3. FilesKnown'
    BY <1>t, <2>1, <2>2 DEF FilesKnown, TypeOK, FilesTypeOK
  <2>4. \A w \in Workers : phase[w] # "free" => cur[w].id \in Jobs \ {j}
    BY <2>1, Holder DEF ReleaseInv
  <2>5. HandsEmpty'
    BY <1>t, <2>1, <2>4 DEF HandsEmpty
  <2>6. RawReleased'
    BY <1>t, <2>1, <2>2 DEF RawReleased
  <2>7. ASSUME Calm' PROVE NoLeakWithoutFaults'
    <3>1. jobState'[j] = "idle"
      BY <1>t, <2>1, <2>7, CalmAnswers DEF TypeOK, StoreTypeOK
    <3>2. /\ \A f \in outFiles : Owned(f[1], f[2])
          /\ \A k \in rawFiles : Exists(k) /\ jobType[k] = "transcoding"
      BY <1>t, <1>c, <2>7 DEF NoLeakWithoutFaults, Calm
    <3>3. \A k \in Jobs : Exists(k) => Exists(k)'
      BY <2>1, <2>2 DEF Exists
    <3>4. \A f \in outFiles' : Owned(f[1], f[2])'
      BY <1>t, <2>1, <3>2, <3>3, OwnersKept
    <3>5. \A k \in rawFiles' : Exists(k)' /\ jobType'[k] = "transcoding"
      BY <1>t, <2>1, <3>1, <3>2, <3>3 DEF Exists, TypeOK, FilesTypeOK
    <3> QED
      BY <3>4, <3>5 DEF NoLeakWithoutFaults
  <2>8. NoLeakWithoutFaults'
    BY <2>7 DEF NoLeakWithoutFaults, Calm
  <2> QED
    BY <2>3, <2>5, <2>6, <2>8
<1>2. ASSUME NEW j \in Jobs, DropRecording(j)
      PROVE  Goal
  <2>1. rawFiles' \subseteq rawFiles /\ outFiles' \subseteq outFiles
    BY <1>2, <1>t, FilesRemoved DEF DropRecording
  <2> QED
    BY <1>2, <1>k, <2>1 DEF DropRecording, rowVars, Exists
<1>3. ASSUME NEW st \in Stages, Poll(st)
      PROVE  Goal
  <2>1. PICK S \in SUBSET IdleOf(st) : Fetch(S)
    BY <1>3 DEF Poll
  <2>2. UNCHANGED <<jobTrack, jobType, jobPath, fileVars, cur, phase>>
    BY <1>3, <2>1 DEF Poll, Fetch
  <2>3. \A j \in Jobs : /\ jobState[j] # "absent" => jobState'[j] # "absent"
                        /\ jobState'[j] = "gone" => jobState[j] = "gone"
                        /\ Exists(j) => Exists(j)'
    BY <2>1 DEF Fetch, Exists
  <2> QED
    BY <1>k, <2>2, <2>3 DEF fileVars
<1>4. ASSUME NEW st \in Stages, Exec(st)
      PROVE  Goal
  BY <1>4, <1>k DEF Exec, fileVars, rowVars, Exists
<1>5. ASSUME NEW w \in Workers, HandOver(w) \/ Take(w)
      PROVE  Goal
  <2>1. /\ phase[w] = "free" /\ phase'[w] = "start"
        /\ \A v \in Workers \ {w} : phase'[v] = phase[v] /\ cur'[v] = cur[v]
    BY <1>5, <1>t DEF HandOver, Take, TypeOK
  <2>2. UNCHANGED <<rowVars, fileVars>>
    BY <1>5 DEF HandOver, Take
  <2> QED
    BY <1>k, <2>1, <2>2 DEF fileVars, rowVars, Exists, Making
<1>6. ASSUME NEW w \in Workers, Execute(w)
      PROVE  Goal
  BY <1>6, <1>c, ExecuteReleases
<1>7. ASSUME CancelContext PROVE Goal
  BY <1>7, <1>k DEF CancelContext, fileVars, rowVars, memVars, Exists
<1>8. ASSUME ProcessEnds PROVE Goal
  <2>1. ~ Calm' /\ UNCHANGED <<rowVars, fileVars>> /\ \A w \in Workers : phase'[w] = "free"
    BY <1>8 DEF ProcessEnds, Calm
  <2> QED
    BY <1>k, <2>1 DEF fileVars, rowVars, Exists
<1>9. ASSUME StartProcess PROVE Goal
  <2>1. UNCHANGED <<jobTrack, jobType, jobPath, fileVars, cur, phase>>
    BY <1>9 DEF StartProcess, Reset, rowVars, memVars
  <2>2. \A j \in Jobs : /\ jobState[j] # "absent" => jobState'[j] # "absent"
                        /\ jobState'[j] = "gone" => jobState[j] = "gone"
                        /\ Exists(j) => Exists(j)'
    BY <1>9 DEF StartProcess, Reset, rowVars, Exists
  <2> QED
    BY <1>k, <2>1, <2>2 DEF fileVars
<1>10. ASSUME UNCHANGED vars PROVE Goal
  BY <1>10, <1>k DEF vars, fileVars, rowVars, memVars, Exists
<1>11. Goal
  BY <1>1, <1>2, <1>3, <1>4, <1>5, <1>6, <1>7, <1>8, <1>9, <1>10 DEF Next
<1> QED
  BY <1>0, <1>11 DEF ReleaseInv

\* There is no file at the start.
LEMMA InitReleaseInv == Init => ReleaseInv
<1>1. Init => RowsConsistent /\ FilesKnown /\ HandsEmpty /\ RawReleased /\ NoLeakWithoutFaults
  BY DEF Init, StoreInit, FilesInit, RowsConsistent, FilesKnown, HandsEmpty, RawReleased,
     NoLeakWithoutFaults
<1> QED
  BY <1>1, InitClaimInv DEF ReleaseInv

\* When cleanup has deleted a row, the raw track files of its recording are gone: no
\* crash, refused statement or restart lets DeleteJob come before DeleteFile.
THEOREM RowsTakeTracks == Spec => []RawReleased
<1>1. ReleaseInv /\ [Next]_vars => ReleaseInv'
  BY NextReleaseInv
<1>2. ReleaseInv => RawReleased
  BY DEF ReleaseInv
<1> QED
  BY <1>1, <1>2, InitReleaseInv, PTL DEF Spec

\* Until the first refused statement or the end of the process, every output and every
\* raw file in the temporary directory has a row or a worker that will delete it.
THEOREM FilesOwned == Spec => []NoLeakWithoutFaults
<1>1. ReleaseInv /\ [Next]_vars => ReleaseInv'
  BY NextReleaseInv
<1>2. ReleaseInv => NoLeakWithoutFaults
  BY DEF ReleaseInv
<1> QED
  BY <1>1, <1>2, InitReleaseInv, PTL DEF Spec

-----------------------------------------------------------------------------
(* Sending.                                                                *)

\* The job a worker executes is in no batch and no channel, of either pool.
LEMMA HeldByNobodyElse ==
    ASSUME ClaimInv, NEW w \in Workers, phase[w] # "free",
           NEW st \in Stages, NEW t \in batch[st] \cup Queued(st)
    PROVE  t.id # cur[w].id
<1>1. w \in Busy /\ Claims(cur[w], StageOf(w)) /\ Claims(t, st)
  BY DEF Busy, ClaimInv, SingleClaim, ClaimsHold
<1>2. CASE st = StageOf(w)
  BY <1>1, <1>2 DEF ClaimInv, SingleClaim, HeldOnce
<1>3. CASE st # StageOf(w)
  BY <1>1, <1>3 DEF Claims
<1> QED
  BY <1>2, <1>3

\* What is held is a job of the table.
LEMMA HeldAreJobs ==
    ASSUME ClaimInv
    PROVE  \A st \in Stages : \A t \in batch[st] \cup Queued(st) :
              t \in Tasks /\ t.id \in Jobs
<1>1. \A st \in Stages : \A t \in batch[st] \cup Queued(st) : t \in Tasks
  BY DEF ClaimInv, TypeOK, Queued
<1> QED
  BY <1>1 DEF Tasks

\* The jobs of a channel that lost its head or got one more.
LEMMA QueuedMoves ==
    ASSUME NEW q \in Seq(Tasks), NEW t \in Tasks
    PROVE  /\ {Append(q, t)[i] : i \in 1 .. Len(Append(q, t))}
                \subseteq {q[i] : i \in 1 .. Len(q)} \cup {t}
           /\ q # <<>> => /\ Head(q) \in {q[i] : i \in 1 .. Len(q)}
                          /\ {Tail(q)[i] : i \in 1 .. Len(Tail(q))}
                                \subseteq {q[i] : i \in 1 .. Len(q)}
<1>1. Len(q) \in Nat /\ Len(Append(q, t)) = Len(q) + 1
  OBVIOUS
<1>2. \A i \in 1 .. Len(q) + 1 : Append(q, t)[i] = IF i = Len(q) + 1 THEN t ELSE q[i]
  OBVIOUS
<1>3. ASSUME q # <<>>
      PROVE  /\ 1 \in 1 .. Len(q) /\ Head(q) = q[1] /\ Len(Tail(q)) = Len(q) - 1
             /\ \A i \in 1 .. Len(q) - 1 : Tail(q)[i] = q[i + 1] /\ i + 1 \in 1 .. Len(q)
  BY <1>3
<1>4. \A i \in 1 .. Len(q) + 1 : i = Len(q) + 1 \/ i \in 1 .. Len(q)
  BY <1>1
<1> QED
  BY <1>1, <1>2, <1>3, <1>4

\* A step that sends nothing, starts no process and hands nothing to anybody but what
\* was idle or held by one who may still send it.
LEMMA UnsentKept ==
    ASSUME SentInv, UNCHANGED <<sent, restarts>>,
           \A j \in Jobs : jobState'[j] \in {"absent", "idle"} =>
              \/ jobState[j] \in {"absent", "idle"}
              \/ sent[j] <= restarts,
           \A st \in Stages : batch'[st] \cup Queued(st)' \subseteq batch[st] \cup Queued(st),
           \A w \in Workers : phase'[w] \notin {"free", "cleanup", "delete"} =>
              \/ phase[w] \notin {"free", "cleanup", "delete"} /\ cur'[w] = cur[w]
              \/ sent[cur'[w].id] <= restarts
    PROVE  Unsent' /\ SentOncePerLife'
<1>1. (\A j \in Jobs : jobState[j] \in {"absent", "idle"} => sent[j] <= restarts)'
  BY DEF SentInv, Unsent
<1>2. (\A st \in Stages : \A t \in batch[st] \cup Queued(st) : sent[t.id] <= restarts)'
  BY DEF SentInv, Unsent
<1>3. (\A w \in Workers : phase[w] \notin {"free", "cleanup", "delete"}
                          => sent[cur[w].id] <= restarts)'
  BY DEF SentInv, Unsent
<1>4. SentOncePerLife'
  BY DEF SentInv, SentOncePerLife
<1> QED
  BY <1>1, <1>2, <1>3, <1>4 DEF Unsent

\* A step of a worker inside Execute.
LEMMA ExecuteSends ==
    ASSUME SentInv, NEW w \in Workers, Execute(w)
    PROVE  Unsent' /\ SentOncePerLife'
<1> DEFINE j == cur[w].id
<1>t. /\ ClaimInv /\ phase \in [Workers -> Phases] /\ cur \in [Workers -> Tasks \cup {NoTask}]
      /\ jobState \in [Jobs -> RowStates] /\ sent \in [Jobs -> Nat] /\ restarts \in Nat
  BY DEF SentInv, ClaimInv, TypeOK, StoreTypeOK
<1>b. phase[w] # "free"
  BY DEF Execute, SkipTranscoding, StartFfmpeg, FfmpegDone, FfmpegFails,
     ReleaseSources, PromoteJob, OpenUpload, UploadFails, FinishUpload, CleanupFiles,
     DeleteJob, RetryLater, Move, Return
<1>h. /\ j \in Jobs /\ jobState[j] = "active"
      /\ \A v \in Workers : v # w /\ phase[v] # "free" => cur[v].id # j
  BY <1>b, Holder DEF SentInv
<1>r. restarts' = restarts /\ UNCHANGED <<batch, queue>>
  BY DEF Execute, SkipTranscoding, StartFfmpeg, FfmpegDone, FfmpegFails,
     ReleaseSources, PromoteJob, OpenUpload, UploadFails, FinishUpload, CleanupFiles,
     DeleteJob, RetryLater, Move, Return, DbAnswers, DbRefuses, faultVars
<1>q. \A st \in Stages : batch'[st] = batch[st] /\ Queued(st)' = Queued(st)
  BY <1>r DEF Queued
<1>1. CASE FinishUpload(w)
  <2>1. /\ phase[w] = "sending" /\ cur' = cur /\ UNCHANGED rowVars
        /\ sent' = [sent EXCEPT ![j] = @ + 1] /\ phase'[w] = "cleanup"
        /\ \A v \in Workers \ {w} : phase'[v] = phase[v]
    BY <1>1, <1>t DEF FinishUpload, Move
  <2>2. sent'[j] = sent[j] + 1 /\ \A k \in Jobs \ {j} : sent'[k] = sent[k]
    BY <1>h, <1>t, <2>1
  <2>3. sent[j] <= restarts
    BY <2>1 DEF SentInv, Unsent
  <2>4. SentOncePerLife'
    BY <1>h, <1>r, <1>t, <2>2, <2>3 DEF SentInv, SentOncePerLife
  <2>5. (\A k \in Jobs : jobState[k] \in {"absent", "idle"} => sent[k] <= restarts)'
    BY <1>h, <1>r, <2>1, <2>2 DEF SentInv, Unsent, rowVars
  <2>6. (\A st \in Stages : \A t \in batch[st] \cup Queued(st) : sent[t.id] <= restarts)'
    <3> SUFFICES ASSUME NEW st \in Stages, NEW t \in batch[st] \cup Queued(st)
                 PROVE  sent'[t.id] <= restarts
      BY <1>q, <1>r
    <3>1. t.id \in Jobs \ {j}
      BY <1>b, <1>t, HeldByNobodyElse, HeldAreJobs
    <3>2. sent[t.id] <= restarts
      BY DEF SentInv, Unsent
    <3> QED
      BY <2>2, <3>1, <3>2
  <2>7. (\A v \in Workers : phase[v] \notin {"free", "cleanup", "delete"}
                            => sent[cur[v].id] <= restarts)'
    <3> SUFFICES ASSUME NEW v \in Workers, phase'[v] \notin {"free", "cleanup", "delete"}
                 PROVE  sent'[cur[v].id] <= restarts
      BY <1>r, <2>1
    <3>1. v # w /\ phase'[v] = phase[v]
      BY <2>1
    <3>2. cur[v].id \in Jobs \ {j}
      BY <1>h, <3>1, Holder DEF SentInv
    <3>3. sent[cur[v].id] <= restarts
      BY <3>1 DEF SentInv, Unsent
    <3> QED
      BY <2>2, <3>2, <3>3
  <2> QED
    BY <2>4, <2>5, <2>6, <2>7 DEF Unsent
<1>2. CASE ~ FinishUpload(w) /\ UNCHANGED rowVars
  <2>1. sent' = sent
    BY <1>2 DEF Execute, SkipTranscoding, StartFfmpeg, FfmpegDone, FfmpegFails,
       ReleaseSources, PromoteJob, OpenUpload, UploadFails, CleanupFiles,
       DeleteJob, RetryLater, sentVars
  <2>2. \A v \in Workers \ {w} : phase'[v] = phase[v] /\ cur'[v] = cur[v]
    BY <1>2, <1>t DEF Execute, SkipTranscoding, StartFfmpeg, FfmpegDone, FfmpegFails,
       ReleaseSources, PromoteJob, OpenUpload, UploadFails, CleanupFiles,
       DeleteJob, RetryLater, Move, Return
  <2>3. phase'[w] \in {"free", "delete"} \/
        (phase[w] \notin {"free", "cleanup", "delete"} /\ cur'[w] = cur[w])
    BY <1>2, <1>t DEF Execute, SkipTranscoding, StartFfmpeg, FfmpegDone, FfmpegFails,
       ReleaseSources, PromoteJob, OpenUpload, UploadFails, CleanupFiles,
       DeleteJob, RetryLater, Move, Return
  <2> QED
    BY <1>2, <1>r, <1>q, <2>1, <2>2, <2>3, UnsentKept DEF rowVars
<1>3. CASE (PromoteJob(w) \/ DeleteJob(w) \/ RetryLater(w)) /\ ~ UNCHANGED rowVars
  <2>1. /\ sent' = sent /\ phase'[w] = "free"
        /\ \A v \in Workers \ {w} : phase'[v] = phase[v] /\ cur'[v] = cur[v]
    BY <1>3, <1>t DEF PromoteJob, DeleteJob, RetryLater, Return, sentVars
  <2>2. \A k \in Jobs : k # j => jobState'[k] = jobState[k]
    BY <1>3, <1>t, OthersKept DEF RowKept, ClaimInv
  <2>3. jobState'[j] \in {"absent", "idle"} => sent[j] <= restarts
    <3>1. CASE DeleteJob(w)
      BY <1>3, <1>h, <1>t, <3>1 DEF DeleteJob, Delete, Exists, rowVars
    <3>2. CASE PromoteJob(w) \/ RetryLater(w)
      BY <3>2 DEF PromoteJob, RetryLater, Return, SentInv, Unsent
    <3> QED
      BY <1>3, <3>1, <3>2
  <2> QED
    BY <1>r, <1>q, <2>1, <2>2, <2>3, UnsentKept
<1> QED
  BY <1>1, <1>2, <1>3 DEF Execute, SkipTranscoding, StartFfmpeg, FfmpegDone, FfmpegFails,
     ReleaseSources, OpenUpload, UploadFails, CleanupFiles

\* Every step of the pipeline.
LEMMA NextSentInv ==
    ASSUME SentInv, [Next]_vars
    PROVE  SentInv'
<1> DEFINE Goal == Unsent' /\ SentOncePerLife'
<1>0. ClaimInv' /\ RowsConsistent'
  BY NextClaimInv, NextRowsConsistent DEF SentInv
<1>t. /\ ClaimInv /\ TypeOK /\ phase \in [Workers -> Phases]
      /\ jobState \in [Jobs -> RowStates] /\ sent \in [Jobs -> Nat] /\ restarts \in Nat
      /\ batch \in [Stages -> SUBSET Tasks] /\ queue \in [Stages -> Seq(Tasks)]
  BY DEF SentInv, ClaimInv, TypeOK, StoreTypeOK
<1>k. ASSUME UNCHANGED <<sent, restarts, batch, queue, cur, phase>>,
             \A j \in Jobs : jobState'[j] \in {"absent", "idle"} =>
                jobState[j] \in {"absent", "idle"}
      PROVE  Goal
  <2>1. \A st \in Stages : batch'[st] = batch[st] /\ Queued(st)' = Queued(st)
    BY <1>k DEF Queued
  <2> QED
    BY <1>k, <2>1, UnsentKept
<1>1. ASSUME NEW j \in Jobs, NEW track \in TrackKinds,
             SubmitRecording(j, track) \/ SubmitFails(j, track)
      PROVE  Goal
  <2>1. /\ UNCHANGED <<sent, restarts, batch, queue, cur, phase>>
        /\ jobState[j] = "absent"
    BY <1>1 DEF SubmitRecording, SubmitFails, Captured, NextId, sentVars, DbAnswers, DbRefuses,
       faultVars
  <2>2. \A k \in Jobs \ {j} : jobState'[k] = jobState[k]
    BY <1>1, <1>t DEF SubmitRecording, SubmitFails, Create
  <2> QED
    BY <1>k, <2>1, <2>2
<1>2. ASSUME NEW j \in Jobs, DropRecording(j)
      PROVE  Goal
  BY <1>2, <1>k DEF DropRecording, rowVars, faultVars, sentVars
<1>3. ASSUME NEW st \in Stages, Poll(st)
      PROVE  Goal
  <2> DEFINE task(j) == [id |-> j, retry |-> jobRetry[j] + 1, path |-> jobPath[j]]
  <2>1. PICK S \in SUBSET IdleOf(st) :
           /\ Fetch(S)
           /\ \/ batch' = [batch EXCEPT ![st] = {task(j) : j \in S}]
              \/ UNCHANGED batch
    BY <1>3 DEF Poll
  <2>2. UNCHANGED <<sent, restarts, queue, cur, phase>>
    BY <1>3 DEF Poll, sentVars, DbAnswers, DbRefuses, faultVars
  <2>3. \A j \in S : j \in Jobs /\ jobState[j] = "idle" /\ sent[j] <= restarts
    BY DEF IdleOf, SentInv, Unsent
  <2>4. (\A j \in Jobs : jobState[j] \in {"absent", "idle"} => sent[j] <= restarts)'
    BY <2>1, <2>2 DEF Fetch, SentInv, Unsent
  <2>5. \A x \in Stages : Queued(x)' = Queued(x)
    BY <2>2 DEF Queued
  <2>6. \A x \in Stages : \A t \in batch'[x] : t \in batch[x] \/ t.id \in S
    BY <1>t, <2>1
  <2>7. (\A x \in Stages : \A t \in batch[x] \cup Queued(x) : sent[t.id] <= restarts)'
    BY <2>2, <2>3, <2>5, <2>6 DEF SentInv, Unsent
  <2>8. (\A w \in Workers : phase[w] \notin {"free", "cleanup", "delete"}
                            => sent[cur[w].id] <= restarts)'
    BY <2>2 DEF SentInv, Unsent
  <2>9. SentOncePerLife'
    BY <2>2 DEF SentInv, SentOncePerLife
  <2> QED
    BY <2>4, <2>7, <2>8, <2>9 DEF Unsent
<1>4. ASSUME NEW st \in Stages, Exec(st)
      PROVE  Goal
  <2>1. PICK t \in batch[st] : /\ batch' = [batch EXCEPT ![st] = @ \ {t}]
                               /\ queue' = [queue EXCEPT ![st] = Append(@, t)]
    BY <1>4 DEF Exec
  <2>2. UNCHANGED <<sent, restarts, cur, phase, jobState>>
    BY <1>4 DEF Exec, sentVars, faultVars, rowVars
  <2>3. t \in Tasks /\ queue'[st] = Append(queue[st], t) /\ batch'[st] \subseteq batch[st]
    BY <1>t, <2>1
  <2>4. Queued(st)' \subseteq Queued(st) \cup {t}
    BY <1>t, <2>3, QueuedMoves DEF Queued
  <2>5. \A x \in Stages \ {st} : batch'[x] = batch[x] /\ Queued(x)' = Queued(x)
    BY <1>t, <2>1 DEF Queued
  <2>6. \A x \in Stages : batch'[x] \cup Queued(x)' \subseteq batch[x] \cup Queued(x)
    BY <2>3, <2>4, <2>5
  <2> QED
    BY <2>2, <2>6, UnsentKept
<1>5. ASSUME NEW w \in Workers, HandOver(w) \/ Take(w)
      PROVE  Goal
  <2> DEFINE st == StageOf(w)
  <2>s. st \in Stages
    BY DEF StageOf, Stages
  <2>1. /\ UNCHANGED <<sent, restarts, jobState>>
        /\ phase[w] = "free" /\ \A v \in Workers \ {w} : phase'[v] = phase[v] /\ cur'[v] = cur[v]
    BY <1>5, <1>t DEF HandOver, Take, sentVars, faultVars, rowVars, TypeOK
  <2>2. /\ cur'[w] \in batch[st] \cup Queued(st)
        /\ \A x \in Stages : batch'[x] \cup Queued(x)' \subseteq batch[x] \cup Queued(x)
    <3>1. CASE HandOver(w)
      <4>1. /\ cur'[w] \in batch[st] /\ queue' = queue
            /\ \A x \in Stages : batch'[x] \subseteq batch[x]
        BY <1>t, <3>1 DEF HandOver, TypeOK
      <4> QED
        BY <4>1 DEF Queued
    <3>2. CASE Take(w)
      <4>1. /\ queue[st] # <<>> /\ cur'[w] = Head(queue[st]) /\ batch' = batch
            /\ queue' = [queue EXCEPT ![st] = Tail(@)]
        BY <1>t, <3>2 DEF Take, TypeOK
      <4>2. queue[st] \in Seq(Tasks) /\ queue'[st] = Tail(queue[st])
        BY <1>t, <2>s, <4>1
      <4>3. Head(queue[st]) \in Tasks
        BY <4>1, <4>2
      <4>4. Queued(st)' \subseteq Queued(st) /\ Head(queue[st]) \in Queued(st)
        BY <4>1, <4>2, <4>3, QueuedMoves DEF Queued
      <4>5. \A x \in Stages \ {st} : Queued(x)' = Queued(x)
        BY <1>t, <4>1 DEF Queued
      <4> QED
        BY <4>1, <4>4, <4>5
    <3> QED
      BY <1>5, <3>1, <3>2
  <2>3. sent[cur'[w].id] <= restarts
    BY <2>s, <2>2 DEF SentInv, Unsent
  <2> QED
    BY <2>1, <2>2, <2>3, UnsentKept
<1>6. ASSUME NEW w \in Workers, Execute(w)
      PROVE  Goal
  BY <1>6, ExecuteSends
<1>7. ASSUME CancelContext PROVE Goal
  BY <1>7, <1>k DEF CancelContext, sentVars, memVars, rowVars
<1>8. ASSUME ProcessEnds PROVE Goal
  <2>1. /\ UNCHANGED <<sent, restarts, jobState>>
        /\ \A w \in Workers : phase'[w] = "free"
        /\ \A st \in Stages : batch'[st] = {} /\ queue'[st] = <<>>
    BY <1>8 DEF ProcessEnds, sentVars, rowVars
  <2>2. \A st \in Stages : Queued(st)' = {}
    BY <2>1 DEF Queued
  <2> QED
    BY <2>1, <2>2, UnsentKept
<1>9. ASSUME StartProcess PROVE Goal
  <2>1. /\ sent' = sent /\ restarts' = restarts + 1
        /\ (\A st \in Stages : batch[st] = {} /\ queue[st] = <<>>)'
        /\ (\A w \in Workers : phase[w] = "free")'
    BY <1>9 DEF StartProcess, memVars, sentVars, SentInv, ClaimInv, MemoryLost
  <2>2. \A st \in Stages : Queued(st)' = {}
    BY <2>1 DEF Queued
  <2>3. \A j \in Jobs : sent'[j] <= restarts'
    BY <1>t, <2>1 DEF SentInv, SentOncePerLife
  <2>4. SentOncePerLife'
    BY <1>t, <2>1, <2>3 DEF SentOncePerLife
  <2> QED
    BY <2>1, <2>2, <2>3, <2>4 DEF Unsent
<1>10. ASSUME UNCHANGED vars PROVE Goal
  BY <1>10, <1>k DEF vars, rowVars, memVars, faultVars, sentVars
<1>11. Goal
  BY <1>1, <1>2, <1>3, <1>4, <1>5, <1>6, <1>7, <1>8, <1>9, <1>10 DEF Next
<1> QED
  BY <1>0, <1>11 DEF SentInv

\* The uploader sends a recording to the end at most once in one life of the process:
\* after CloseSend the worker can only clean up, and a row whose deletion was refused
\* stays active and out of reach of Fetch until a restart resets it.
THEOREM SentOnce == Spec => []SentOncePerLife
<1>1. Init => SentInv
  <2>1. Init => RowsConsistent
    BY DEF Init, StoreInit, RowsConsistent
  <2>2. Init => Unsent /\ SentOncePerLife
    BY DEF Init, StoreInit, Unsent, SentOncePerLife, Queued
  <2> QED
    BY <2>1, <2>2, InitClaimInv DEF SentInv
<1>2. SentInv /\ [Next]_vars => SentInv'
  BY NextSentInv
<1>3. SentInv => SentOncePerLife
  BY DEF SentInv
<1> QED
  BY <1>1, <1>2, <1>3, PTL DEF Spec
=============================================================================
