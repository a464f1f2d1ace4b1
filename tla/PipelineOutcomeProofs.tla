----------------------- MODULE PipelineOutcomeProofs ------------------------
(***************************************************************************)
(* What becomes of a recording: the transcoded file stays on disk until it *)
(* was sent or given up (UploadKeepsOutput), and the pipeline implements   *)
(* the life cycle of JobLifecycle.                                         *)
(***************************************************************************)
EXTENDS PipelineClaimProofs

OutcomeInv == ClaimInv /\ RowsConsistent /\ HandsFull /\ UploadKeepsOutput

\* A worker inside Execute: the facts the steps below use.
LEMMA Holder ==
    ASSUME ClaimInv, RowsConsistent, NEW w \in Workers, phase[w] # "free"
    PROVE  /\ cur[w].id \in Jobs /\ cur[w].retry \in Nat /\ cur[w].path \in Nat
           /\ cur[w].retry > 0
           /\ Exists(cur[w].id)
           /\ jobState[cur[w].id] = "active"
           /\ jobType[cur[w].id] = StageOf(w)
           /\ jobRetry[cur[w].id] = cur[w].retry
           /\ jobPath[cur[w].id] = cur[w].path
           /\ StageOf(w) = "transcoding" => cur[w].path = 0
           /\ StageOf(w) = "upload" => cur[w].path # 0
           /\ \A v \in Workers : v # w /\ phase[v] # "free" => cur[v].id # cur[w].id
<1>1. /\ cur[w] \in Tasks /\ cur[w].id \in Jobs
      /\ jobState[cur[w].id] = "active"
      /\ jobType[cur[w].id] = StageOf(w)
      /\ jobRetry[cur[w].id] = cur[w].retry
      /\ jobPath[cur[w].id] = cur[w].path
  BY HolderKnowsRow
<1>2. cur[w].retry > 0 /\ (StageOf(w) = "transcoding" <=> cur[w].path = 0)
  BY <1>1 DEF RowsConsistent
<1>3. \A v \in Workers : v # w /\ phase[v] # "free" => cur[v].id # cur[w].id
  BY DEF ClaimInv, SingleClaim, HeldOnce, Busy
<1> QED
  BY <1>1, <1>2, <1>3 DEF Exists, Tasks

\* Workers of the two pools are told apart by StageOf.
LEMMA StageOfWorker ==
    /\ \A w \in TranscodingWorkers : w \in Workers /\ StageOf(w) = "transcoding"
    /\ \A w \in UploadWorkers : w \in Workers /\ StageOf(w) = "upload"
    /\ \A w \in Workers : w \in TranscodingWorkers \/ w \in UploadWorkers
BY PipelineAssumption DEF StageOf, Workers

\* A step that changes none of the rows and removes no output keeps both.
LEMMA OutcomeKept ==
    ASSUME HandsFull, UploadKeepsOutput, outFiles \subseteq outFiles',
           UNCHANGED <<rowVars, sent>>,
           \A w \in Workers : \/ phase'[w] = phase[w] /\ cur'[w] = cur[w]
                              \/ phase'[w] \notin {"release", "update", "cleanup", "delete"}
    PROVE  HandsFull' /\ UploadKeepsOutput'
<1>1. HandsFull'
  BY StageOfWorker DEF HandsFull, rowVars
<1>2. UploadKeepsOutput'
  BY DEF UploadKeepsOutput, Exists, rowVars
<1> QED
  BY <1>1, <1>2

\* The same for a worker that goes on, given what its new phase promises.
LEMMA OutcomeMove ==
    ASSUME ClaimInv, HandsFull, UploadKeepsOutput, NEW w \in Workers, NEW from, NEW to,
           Move(w, from, to), UNCHANGED <<rowVars, sent>>,
           outFiles \subseteq outFiles',
           /\ w \in TranscodingWorkers /\ to \in {"release", "update"}
           /\ jobTrack[cur[w].id] = "media"
           => <<cur[w].id, cur[w].retry>> \in outFiles',
           to = "cleanup" => sent[cur[w].id] > 0,
           to = "delete" => \/ cur[w].retry >= MaxRetry[StageOf(w)]
                            \/ StageOf(w) = "upload" /\ sent[cur[w].id] > 0
    PROVE  HandsFull' /\ UploadKeepsOutput'
<1>1. /\ phase'[w] = to /\ cur' = cur
      /\ \A v \in Workers \ {w} : phase'[v] = phase[v]
  BY DEF Move, ClaimInv, TypeOK
<1>2. HandsFull'
  BY <1>1, StageOfWorker DEF HandsFull, rowVars
<1>3. UploadKeepsOutput'
  BY DEF UploadKeepsOutput, Exists, rowVars
<1> QED
  BY <1>2, <1>3

\* DeleteFile for the job a worker holds touches no other recording's output.
LEMMA OwnFilesOnly ==
    ASSUME NEW j, NEW path, DeleteFile(j, path)
    PROVE  /\ \A k, p : <<k, p>> \in outFiles /\ <<k, p>> # <<j, path>>
                        => <<k, p>> \in outFiles'
BY DEF DeleteFile, fileVars

\* A step of a worker inside Execute.
LEMMA ExecuteOutcome ==
    ASSUME OutcomeInv, NEW w \in Workers, Execute(w)
    PROVE  HandsFull' /\ UploadKeepsOutput'
<1> USE DEF OutcomeInv
<1> DEFINE j == cur[w].id
<1>b. phase[w] # "free"
  BY DEF Execute, SkipTranscoding, StartFfmpeg, FfmpegDone, FfmpegFails,
     ReleaseSources, PromoteJob, OpenUpload, UploadFails, FinishUpload, CleanupFiles,
     DeleteJob, RetryLater, Move, Return
<1>h. /\ j \in Jobs /\ cur[w].retry \in Nat /\ cur[w].retry > 0
      /\ Exists(j) /\ jobState[j] = "active" /\ jobType[j] = StageOf(w)
      /\ jobRetry[j] = cur[w].retry /\ jobPath[j] = cur[w].path
      /\ StageOf(w) = "transcoding" => cur[w].path = 0
      /\ StageOf(w) = "upload" => cur[w].path # 0
      /\ \A v \in Workers : v # w /\ phase[v] # "free" => cur[v].id # j
  BY <1>b, Holder
<1>s. /\ phase[w] \in {"ffmpeg", "release", "update"} => w \in TranscodingWorkers
      /\ phase[w] \in {"sending", "cleanup"} => w \in UploadWorkers
  BY StageOfWorker DEF ClaimInv, InExecute
<1>t. /\ phase \in [Workers -> Phases]
      /\ cur \in [Workers -> Tasks \cup {NoTask}]
      /\ jobState \in [Jobs -> RowStates] /\ jobType \in [Jobs -> Stages]
      /\ jobRetry \in [Jobs -> Nat] /\ jobPath \in [Jobs -> Nat]
      /\ sent \in [Jobs -> Nat]
  BY DEF ClaimInv, TypeOK, StoreTypeOK
<1>1. CASE SkipTranscoding(w)
  BY <1>1, OutcomeMove DEF SkipTranscoding, fileVars, sentVars
<1>2. CASE StartFfmpeg(w)
  BY <1>2, OutcomeMove DEF StartFfmpeg, sentVars
<1>3. CASE FfmpegDone(w)
  BY <1>3, OutcomeMove DEF FfmpegDone, fileVars, sentVars
<1>4. CASE FfmpegFails(w)
  <2>1. /\ phase' = [phase EXCEPT ![w] = "failed"] /\ phase[w] = "ffmpeg" /\ cur' = cur
        /\ UNCHANGED <<rowVars, sent>>
    BY <1>4 DEF FfmpegFails, Move, sentVars
  <2>2. \A k, p : <<k, p>> \in outFiles /\ k # j => <<k, p>> \in outFiles'
    BY <1>4, OwnFilesOnly DEF FfmpegFails
  <2>3. StageOf(w) = "transcoding"
    BY <1>s, <2>1, StageOfWorker
  <2>4. UploadKeepsOutput'
    BY <1>h, <2>1, <2>2, <2>3 DEF UploadKeepsOutput, Exists, rowVars
  <2>5. HandsFull'
    BY <1>h, <1>t, <2>1, <2>2, StageOfWorker DEF HandsFull, rowVars
  <2> QED
    BY <2>4, <2>5
<1>5. CASE ReleaseSources(w)
  <2>1. /\ phase' = [phase EXCEPT ![w] = "update"] /\ phase[w] = "release" /\ cur' = cur
        /\ UNCHANGED <<rowVars, sent>>
    BY <1>5 DEF ReleaseSources, Move, sentVars
  <2>2. cur[w].path = 0
    BY <1>h, <1>s, <2>1, StageOfWorker
  <2>3. \A k, p : <<k, p>> \in outFiles /\ p # 0 => <<k, p>> \in outFiles'
    BY <1>5, <2>2, OwnFilesOnly DEF ReleaseSources
  <2>4. UploadKeepsOutput'
    BY <2>1, <2>3 DEF UploadKeepsOutput, Exists, rowVars, RowsConsistent
  <2>5. HandsFull'
    <3>1. \A v \in TranscodingWorkers : phase[v] \in {"release", "update"} => cur[v].retry > 0
      BY Holder, StageOfWorker
    <3> QED
      BY <1>t, <2>1, <2>3, <3>1, StageOfWorker DEF HandsFull, rowVars
  <2> QED
    BY <2>4, <2>5
<1>6. CASE PromoteJob(w)
  <2>1. /\ phase' = [phase EXCEPT ![w] = "free"] /\ phase[w] = "update"
        /\ cur' = [cur EXCEPT ![w] = NoTask]
        /\ UNCHANGED <<outFiles, sent>>
    BY <1>6 DEF PromoteJob, Return, sentVars, fileVars
  <2>2. jobTrack' = jobTrack
    BY <1>6 DEF PromoteJob, Update, rowVars
  <2>3. HandsFull'
    BY <1>t, <2>1, <2>2, StageOfWorker DEF HandsFull
  <2>4. CASE UNCHANGED rowVars
    BY <2>1, <2>3, <2>4 DEF UploadKeepsOutput, Exists, rowVars
  <2>5. CASE Update(j, "upload", cur[w].retry, 0)
    <3>1. jobTrack[j] = "media" => <<j, cur[w].retry>> \in outFiles
      BY <1>s, <2>1 DEF HandsFull
    <3>2. jobPath'[j] = cur[w].retry /\ \A k \in Jobs \ {j} :
             /\ jobState'[k] = jobState[k] /\ jobType'[k] = jobType[k]
             /\ jobPath'[k] = jobPath[k] /\ jobRetry'[k] = jobRetry[k]
      BY <1>h, <1>t, <2>5 DEF Update
    <3>3. UploadKeepsOutput'
      BY <2>1, <2>2, <3>1, <3>2 DEF UploadKeepsOutput, Exists
    <3> QED
      BY <2>3, <3>3
  <2> QED
    BY <1>6, <2>4, <2>5 DEF PromoteJob
<1>7. CASE OpenUpload(w)
  BY <1>7, OutcomeMove DEF OpenUpload, fileVars, sentVars
<1>8. CASE UploadFails(w)
  BY <1>8, OutcomeMove DEF UploadFails, fileVars, sentVars
<1>9. CASE FinishUpload(w)
  <2>1. /\ phase' = [phase EXCEPT ![w] = "cleanup"] /\ phase[w] = "sending" /\ cur' = cur
        /\ UNCHANGED <<rowVars, outFiles>> /\ sent' = [sent EXCEPT ![j] = @ + 1]
    BY <1>9 DEF FinishUpload, Move, fileVars
  <2>2. sent'[j] > 0 /\ \A k \in Jobs : sent'[k] >= sent[k]
    BY <1>h, <1>t, <2>1
  <2>3. \A v \in Workers : phase[v] # "free" => cur[v].id \in Jobs
    BY Holder
  <2>4. HandsFull'
    <3>1. (\A v \in TranscodingWorkers :
             /\ phase[v] \in {"release", "update"}
             /\ jobTrack[cur[v].id] = "media"
             => <<cur[v].id, cur[v].retry>> \in outFiles)'
      BY <1>t, <2>1, StageOfWorker DEF HandsFull, rowVars
    <3>2. (\A v \in Workers : phase[v] = "cleanup" => sent[cur[v].id] > 0)'
      BY <1>t, <2>1, <2>2, <2>3 DEF HandsFull
    <3>3. (\A v \in Workers : phase[v] = "delete" =>
             \/ cur[v].retry >= MaxRetry[StageOf(v)]
             \/ StageOf(v) = "upload" /\ sent[cur[v].id] > 0)'
      BY <1>t, <2>1, <2>2, <2>3 DEF HandsFull
    <3> QED
      BY <3>1, <3>2, <3>3 DEF HandsFull
  <2>5. UploadKeepsOutput'
    BY <1>t, <2>1, <2>2 DEF UploadKeepsOutput, Exists, rowVars
  <2> QED
    BY <2>4, <2>5
<1>10. CASE CleanupFiles(w)
  <2>1. /\ phase' = [phase EXCEPT ![w] = "delete"] /\ cur' = cur
        /\ UNCHANGED <<rowVars, sent>> /\ CleanupDue(w)
    BY <1>10 DEF CleanupFiles, Move, sentVars
  <2>2. \A k, p : <<k, p>> \in outFiles /\ k # j => <<k, p>> \in outFiles'
    BY <1>10, OwnFilesOnly DEF CleanupFiles
  <2>3. \/ cur[w].retry >= MaxRetry[StageOf(w)]
        \/ StageOf(w) = "upload" /\ sent[j] > 0
    BY <1>s, <2>1, StageOfWorker DEF CleanupDue, HandsFull
  <2>4. UploadKeepsOutput'
    <3>1. MaxRetry["upload"] \in Nat
      BY PipelineAssumption DEF Stages
    <3> QED
      BY <1>h, <1>t, <2>1, <2>2, <2>3, <3>1 DEF UploadKeepsOutput, Exists, rowVars
  <2>5. HandsFull'
    BY <1>h, <1>t, <2>1, <2>2, <2>3, StageOfWorker DEF HandsFull, rowVars
  <2> QED
    BY <2>4, <2>5
<1>11. CASE DeleteJob(w) \/ RetryLater(w)
  <2>1. /\ phase' = [phase EXCEPT ![w] = "free"]
        /\ cur' = [cur EXCEPT ![w] = NoTask]
        /\ UNCHANGED <<outFiles, sent>>
    BY <1>11 DEF DeleteJob, RetryLater, Return, sentVars, fileVars
  <2>2. /\ UNCHANGED <<jobTrack, jobType, jobPath, jobRetry>>
        /\ \A k \in Jobs : jobState'[k] \in {"idle", "active"} => Exists(k)
    BY <1>11, <1>t DEF DeleteJob, RetryLater, Delete, SetError, rowVars, Exists
  <2>3. HandsFull'
    BY <1>t, <2>1, <2>2, StageOfWorker DEF HandsFull
  <2>4. UploadKeepsOutput'
    BY <2>1, <2>2 DEF UploadKeepsOutput, Exists
  <2> QED
    BY <2>3, <2>4
<1> QED
  BY <1>1, <1>2, <1>3, <1>4, <1>5, <1>6, <1>7, <1>8, <1>9, <1>10, <1>11 DEF Execute

\* Every step of the pipeline.
LEMMA NextOutcomeInv ==
    ASSUME OutcomeInv, [Next]_vars
    PROVE  OutcomeInv'
<1> USE DEF OutcomeInv
<1>0. ClaimInv' /\ RowsConsistent'
  BY NextClaimInv, NextRowsConsistent
<1>t. /\ phase \in [Workers -> Phases] /\ cur \in [Workers -> Tasks \cup {NoTask}]
      /\ jobState \in [Jobs -> RowStates] /\ jobType \in [Jobs -> Stages]
      /\ jobRetry \in [Jobs -> Nat] /\ jobTrack \in [Jobs -> TrackKinds]
  BY DEF ClaimInv, TypeOK, StoreTypeOK
<1>1. ASSUME NEW j \in Jobs, NEW track \in TrackKinds,
             SubmitRecording(j, track) \/ SubmitFails(j, track)
      PROVE  HandsFull' /\ UploadKeepsOutput'
  <2>1. /\ jobState[j] = "absent" /\ jobType[j] = "transcoding"
        /\ UNCHANGED <<jobType, jobRetry, jobPath, outFiles, cur, phase, sent>>
        /\ \A k \in Jobs \ {j} : jobState'[k] = jobState[k] /\ jobTrack'[k] = jobTrack[k]
    BY <1>1, <1>t DEF SubmitRecording, SubmitFails, Captured, NextId, Create, sentVars,
       RowsConsistent
  <2>2. \A w \in Workers : phase[w] # "free" => cur[w].id \in Jobs \ {j}
    BY <2>1, Holder
  <2>3. HandsFull'
    BY <2>1, <2>2, StageOfWorker DEF HandsFull
  <2>4. UploadKeepsOutput'
    BY <2>1 DEF UploadKeepsOutput, Exists
  <2> QED
    BY <2>3, <2>4
<1>2. ASSUME NEW j \in Jobs, DropRecording(j)
      PROVE  HandsFull' /\ UploadKeepsOutput'
  <2>1. UNCHANGED <<rowVars, cur, phase, sent>>
    BY <1>2 DEF DropRecording, sentVars
  <2>2. \A k, p : <<k, p>> \in outFiles /\ p # 0 => <<k, p>> \in outFiles'
    BY <1>2, OwnFilesOnly DEF DropRecording
  <2>3. \A w \in TranscodingWorkers : phase[w] \in {"release", "update"} => cur[w].retry # 0
    BY Holder, StageOfWorker
  <2>4. HandsFull'
    BY <2>1, <2>2, <2>3 DEF HandsFull, rowVars
  <2>5. UploadKeepsOutput'
    BY <2>1, <2>2 DEF UploadKeepsOutput, Exists, rowVars, RowsConsistent
  <2> QED
    BY <2>4, <2>5
<1>3. ASSUME NEW st \in Stages, Poll(st)
      PROVE  HandsFull' /\ UploadKeepsOutput'
  <2>1. PICK S \in SUBSET IdleOf(st) : Fetch(S)
    BY <1>3 DEF Poll
  <2>2. UNCHANGED <<jobTrack, jobType, jobPath, outFiles, cur, phase, sent>>
    BY <1>3 DEF Poll, Fetch, fileVars, sentVars
  <2>3. \A j \in Jobs : /\ jobRetry'[j] >= jobRetry[j]
                        /\ jobState'[j] \in {"idle", "active"} => Exists(j)
    BY <1>t, <2>1 DEF Fetch, IdleOf, Exists
  <2>4. HandsFull'
    BY <2>2 DEF HandsFull
  <2>5. UploadKeepsOutput'
    <3>1. MaxRetry["upload"] \in Nat /\ jobRetry' \in [Jobs -> Nat]
      BY <1>0, PipelineAssumption DEF Stages, ClaimInv, TypeOK, StoreTypeOK
    <3> QED
      BY <1>t, <2>2, <2>3, <3>1 DEF UploadKeepsOutput, Exists
  <2> QED
    BY <2>4, <2>5
<1>4. ASSUME NEW st \in Stages, Exec(st)
      PROVE  HandsFull' /\ UploadKeepsOutput'
  BY <1>4, OutcomeKept DEF Exec, fileVars, sentVars
<1>5. ASSUME NEW w \in Workers, HandOver(w) \/ Take(w)
      PROVE  HandsFull' /\ UploadKeepsOutput'
  BY <1>t, <1>5, OutcomeKept DEF HandOver, Take, fileVars, sentVars
<1>6. ASSUME NEW w \in Workers, Execute(w)
      PROVE  HandsFull' /\ UploadKeepsOutput'
  BY <1>6, ExecuteOutcome
<1>7. CASE CancelContext
  BY <1>0, <1>7, OutcomeKept DEF CancelContext, fileVars, sentVars, memVars
<1>8. CASE ProcessEnds
  BY <1>0, <1>8, OutcomeKept DEF ProcessEnds, fileVars, sentVars
<1>9. CASE StartProcess
  <2>1. UNCHANGED <<jobTrack, jobType, jobPath, jobRetry, outFiles, cur, phase, sent>>
    BY <1>9 DEF StartProcess, Reset, rowVars, fileVars, memVars, sentVars
  <2>2. \A j \in Jobs : jobState'[j] \in {"idle", "active"} => Exists(j)
    BY <1>9 DEF StartProcess, Reset, rowVars, Exists
  <2> QED
    BY <1>0, <2>1, <2>2 DEF HandsFull, UploadKeepsOutput, Exists
<1>10. CASE UNCHANGED vars
  BY <1>0, <1>10, OutcomeKept DEF vars, fileVars, sentVars, memVars
<1>11. HandsFull' /\ UploadKeepsOutput'
  BY <1>1, <1>2, <1>3, <1>4, <1>5, <1>6, <1>7, <1>8, <1>9, <1>10 DEF Next
<1> QED
  BY <1>0, <1>11

\* Nothing was transcoded or sent at the start.
LEMMA InitOutcomeInv == Init => OutcomeInv
<1>1. Init => RowsConsistent /\ HandsFull /\ UploadKeepsOutput
  BY StageOfWorker DEF Init, StoreInit, RowsConsistent, HandsFull, UploadKeepsOutput, Exists
<1> QED
  BY <1>1, InitClaimInv DEF OutcomeInv

\* The file an upload job names is on disk until the job sent it or used up its
\* attempts.
THEOREM OutputsKept == Spec => []UploadKeepsOutput
<1>1. OutcomeInv /\ [Next]_vars => OutcomeInv'
  BY NextOutcomeInv
<1>2. OutcomeInv => UploadKeepsOutput
  BY DEF OutcomeInv
<1> QED
  BY <1>1, <1>2, InitOutcomeInv, PTL DEF Spec

-----------------------------------------------------------------------------
(* Refinement.                                                             *)

\* A step that changes neither the mapped columns nor what was sent stutters.
LEMMA StepStutters ==
    ASSUME UNCHANGED <<rowVars, sent>>
    PROVE  UNCHANGED Lifecycle!lifeVars
BY DEF Lifecycle!lifeVars, StageNow, TriesNow, SentNow, Exists, rowVars

\* Every step of the pipeline is a step of the life cycle, or stutters.
LEMMA StepRefines ==
    ASSUME OutcomeInv, OutcomeInv', [Next]_vars
    PROVE  [Lifecycle!LifeNext]_(Lifecycle!lifeVars)
<1> USE DEF OutcomeInv
<1>t. /\ jobState \in [Jobs -> RowStates] /\ jobType \in [Jobs -> Stages]
      /\ jobRetry \in [Jobs -> Nat] /\ sent \in [Jobs -> Nat]
  BY DEF ClaimInv, TypeOK, StoreTypeOK
<1>1. ASSUME NEW j \in Jobs, NEW track \in TrackKinds,
             SubmitRecording(j, track) \/ SubmitFails(j, track)
      PROVE  Lifecycle!Accept(j) \/ Lifecycle!Refuse(j)
  <2>1. /\ jobState[j] = "absent" /\ jobType[j] = "transcoding" /\ jobRetry[j] = 0
        /\ UNCHANGED <<jobType, jobRetry, sent>>
    BY <1>1 DEF SubmitRecording, SubmitFails, Captured, NextId, Create, sentVars,
       RowsConsistent
  <2>2. \/ jobState' = [jobState EXCEPT ![j] = "idle"]
        \/ jobState' = [jobState EXCEPT ![j] = "refused"]
    BY <1>1 DEF SubmitRecording, SubmitFails, Create
  <2>3. SentNow' = SentNow /\ StageNow[j] = "new"
    BY <2>1 DEF SentNow, StageNow
  <2>4. TriesNow' = TriesNow
    BY <1>t, <2>1, <2>2 DEF TriesNow, Exists
  <2>5. CASE jobState' = [jobState EXCEPT ![j] = "idle"]
    <3>1. StageNow' = [StageNow EXCEPT ![j] = "transcoding"]
      BY <1>t, <2>1, <2>5 DEF StageNow, Exists
    <3> QED
      BY <2>3, <2>4, <3>1 DEF Lifecycle!Accept
  <2>6. CASE jobState' = [jobState EXCEPT ![j] = "refused"]
    <3>1. StageNow' = [StageNow EXCEPT ![j] = "settled"]
      BY <1>t, <2>1, <2>6 DEF StageNow, Exists
    <3> QED
      BY <2>3, <2>4, <3>1 DEF Lifecycle!Refuse
  <2> QED
    BY <2>2, <2>5, <2>6
<1>2. ASSUME NEW st \in Stages, Poll(st)
      PROVE  \E S \in SUBSET Jobs : Lifecycle!Attempt(S, st)
  <2>1. PICK S \in SUBSET IdleOf(st) : Fetch(S)
    BY <1>2 DEF Poll
  <2>2. S \subseteq Jobs /\ \A j \in S : jobState[j] = "idle" /\ jobType[j] = st
    BY DEF IdleOf
  <2>3. SentNow' = SentNow
    BY <1>2 DEF Poll, sentVars, SentNow
  <2>4. StageNow' = StageNow
    BY <1>t, <2>1, <2>2 DEF Fetch, StageNow, Exists
  <2>5. TriesNow' = [j \in Jobs |-> IF j \in S THEN TriesNow[j] + 1 ELSE TriesNow[j]]
    BY <1>t, <2>1, <2>2 DEF Fetch, TriesNow, Exists
  <2>6. \A j \in S : StageNow[j] = st
    BY <2>2 DEF StageNow, Exists
  <2> QED
    BY <2>2, <2>3, <2>4, <2>5, <2>6 DEF Lifecycle!Attempt
<1>3. ASSUME NEW w \in Workers, PromoteJob(w), ~ UNCHANGED rowVars
      PROVE  Lifecycle!Promote(cur[w].id)
  <2> DEFINE j == cur[w].id
  <2>1. Update(j, "upload", cur[w].retry, 0) /\ phase[w] = "update" /\ sent' = sent
    BY <1>3 DEF PromoteJob, Return, sentVars
  <2>2. w \in TranscodingWorkers
    BY <2>1, StageOfWorker DEF ClaimInv, InExecute
  <2>3. /\ j \in Jobs /\ Exists(j) /\ jobType[j] = "transcoding" /\ jobRetry[j] > 0
        /\ jobState[j] = "active"
    BY <2>1, <2>2, Holder, StageOfWorker
  <2> HIDE DEF j
  <2>4. StageNow' = [StageNow EXCEPT ![j] = "upload"]
    BY <1>t, <2>1, <2>3 DEF Update, StageNow, Exists
  <2>5. TriesNow' = [TriesNow EXCEPT ![j] = 0]
    BY <1>t, <2>1, <2>3 DEF Update, TriesNow, Exists
  <2>6. SentNow' = SentNow /\ StageNow[j] = "transcoding" /\ TriesNow[j] > 0
    BY <2>1, <2>3 DEF SentNow, StageNow, TriesNow, Exists
  <2>7. Lifecycle!Promote(j)
    BY <2>4, <2>5, <2>6 DEF Lifecycle!Promote
  <2> QED
    BY <2>7 DEF j
<1>4. ASSUME NEW w \in Workers, FinishUpload(w)
      PROVE  Lifecycle!Deliver(cur[w].id)
  <2> DEFINE j == cur[w].id
  <2>1. /\ phase[w] = "sending" /\ UNCHANGED rowVars
        /\ sent' = [sent EXCEPT ![j] = @ + 1]
    BY <1>4 DEF FinishUpload, Move
  <2>2. w \in UploadWorkers
    BY <2>1, StageOfWorker DEF ClaimInv, InExecute
  <2>3. j \in Jobs /\ Exists(j) /\ jobType[j] = "upload" /\ jobRetry[j] > 0
    BY <2>1, <2>2, Holder, StageOfWorker
  <2> HIDE DEF j
  <2>4. StageNow' = StageNow /\ TriesNow' = TriesNow
    BY <2>1 DEF StageNow, TriesNow, Exists, rowVars
  <2>5. SentNow' = [SentNow EXCEPT ![j] = TRUE]
    <3>1. sent'[j] > 0 /\ \A k \in Jobs : k # j => sent'[k] = sent[k]
      BY <1>t, <2>1, <2>3
    <3>2. \A k \in Jobs : (sent'[k] > 0) = IF k = j THEN TRUE ELSE (sent[k] > 0)
      BY <3>1
    <3>3. [k \in Jobs |-> sent'[k] > 0]
          = [k \in Jobs |-> IF k = j THEN TRUE ELSE (sent[k] > 0)]
      BY <3>2, Zenon
    <3>4. [[k \in Jobs |-> sent[k] > 0] EXCEPT ![j] = TRUE]
          = [k \in Jobs |-> IF k = j THEN TRUE ELSE (sent[k] > 0)]
      BY Zenon
    <3> QED
      BY <3>3, <3>4, Zenon DEF SentNow
  <2>6. StageNow[j] = "upload" /\ TriesNow[j] > 0
    BY <2>3 DEF StageNow, TriesNow, Exists
  <2>7. Lifecycle!Deliver(j)
    BY <2>4, <2>5, <2>6 DEF Lifecycle!Deliver
  <2> QED
    BY <2>7 DEF j
<1>5. ASSUME NEW w \in Workers, DeleteJob(w), ~ UNCHANGED rowVars
      PROVE  Lifecycle!Settle(cur[w].id)
  <2> DEFINE j == cur[w].id
  <2>1. Delete(j) /\ phase[w] = "delete" /\ sent' = sent
    BY <1>5 DEF DeleteJob, Return, sentVars
  <2>2. /\ j \in Jobs /\ Exists(j) /\ jobType[j] = StageOf(w) /\ jobRetry[j] > 0
        /\ jobRetry[j] = cur[w].retry /\ jobState[j] = "active"
    BY <2>1, Holder
  <2>3. \/ jobRetry[j] >= MaxRetry[jobType[j]]
        \/ jobType[j] = "upload" /\ sent[j] > 0
    BY <2>1, <2>2 DEF HandsFull
  <2> HIDE DEF j
  <2>4. /\ StageNow[j] = jobType[j] /\ TriesNow[j] = jobRetry[j]
        /\ SentNow[j] = (sent[j] > 0)
    BY <2>2 DEF StageNow, TriesNow, SentNow, Exists
  <2>5. StageNow' = [StageNow EXCEPT ![j] = "settled"] /\ SentNow' = SentNow
    BY <1>t, <2>1, <2>2 DEF Delete, StageNow, SentNow, Exists
  <2>6. TriesNow' = [TriesNow EXCEPT ![j] = 0]
    BY <1>t, <2>1, <2>2 DEF Delete, TriesNow, Exists
  <2>7. jobType[j] \in {"transcoding", "upload"}
    BY <1>t, <2>2 DEF Stages
  <2>8. Lifecycle!Settle(j)
    BY <2>2, <2>3, <2>4, <2>5, <2>6, <2>7 DEF Lifecycle!Settle
  <2> QED
    BY <2>8 DEF j
<1>6. ASSUME NEW w \in Workers, RetryLater(w)
      PROVE  UNCHANGED Lifecycle!lifeVars
  <2>1. sent' = sent /\ UNCHANGED <<jobType, jobRetry>>
    BY <1>6 DEF RetryLater, SetError, rowVars, sentVars
  <2>2. \A j \in Jobs : (jobState'[j] \in {"idle", "active"} <=> Exists(j))
                        /\ (jobState'[j] = "absent" <=> jobState[j] = "absent")
    BY <1>6, <1>t DEF RetryLater, SetError, rowVars, Exists
  <2> QED
    BY <2>1, <2>2 DEF Lifecycle!lifeVars, StageNow, TriesNow, SentNow, Exists
<1>7. ASSUME StartProcess
      PROVE  UNCHANGED Lifecycle!lifeVars
  <2>1. sent' = sent /\ UNCHANGED <<jobType, jobRetry>>
    BY <1>7 DEF StartProcess, Reset, rowVars, sentVars
  <2>2. \A j \in Jobs : (jobState'[j] \in {"idle", "active"} <=> Exists(j))
                        /\ (jobState'[j] = "absent" <=> jobState[j] = "absent")
    BY <1>7 DEF StartProcess, Reset, rowVars, Exists
  <2> QED
    BY <2>1, <2>2 DEF Lifecycle!lifeVars, StageNow, TriesNow, SentNow, Exists
<1>8. ASSUME UNCHANGED <<rowVars, sent>>
      PROVE  UNCHANGED Lifecycle!lifeVars
  BY <1>8, StepStutters
<1>9. ASSUME NEW w \in Workers, Execute(w)
      PROVE  [Lifecycle!LifeNext]_(Lifecycle!lifeVars)
  <2>1. CASE UNCHANGED <<rowVars, sent>>
    BY <1>8, <2>1
  <2>2. CASE PromoteJob(w) /\ ~ UNCHANGED <<rowVars, sent>>
    <3>1. cur[w].id \in Jobs /\ ~ UNCHANGED rowVars
      BY <2>2, Holder DEF PromoteJob, Return, sentVars
    <3> QED
      BY <1>3, <2>2, <3>1 DEF Lifecycle!LifeNext
  <2>3. CASE FinishUpload(w)
    <3>1. cur[w].id \in Jobs
      BY <2>3, Holder DEF FinishUpload, Move
    <3> QED
      BY <1>4, <2>3, <3>1 DEF Lifecycle!LifeNext
  <2>4. CASE DeleteJob(w) /\ ~ UNCHANGED <<rowVars, sent>>
    <3>1. cur[w].id \in Jobs /\ ~ UNCHANGED rowVars
      BY <2>4, Holder DEF DeleteJob, Return, sentVars
    <3> QED
      BY <1>5, <2>4, <3>1 DEF Lifecycle!LifeNext
  <2>5. CASE RetryLater(w)
    BY <1>6, <2>5
  <2> QED
    BY <1>9, <2>1, <2>2, <2>3, <2>4, <2>5 DEF Execute, SkipTranscoding, StartFfmpeg,
       FfmpegDone, FfmpegFails, ReleaseSources, OpenUpload, UploadFails, CleanupFiles, sentVars
<1>10. ASSUME NEW j \in Jobs, NEW track \in TrackKinds,
              SubmitRecording(j, track) \/ SubmitFails(j, track)
       PROVE  Lifecycle!LifeNext
  BY <1>1, <1>10 DEF Lifecycle!LifeNext
<1>11. ASSUME NEW st \in Stages, Poll(st)
       PROVE  Lifecycle!LifeNext
  BY <1>2, <1>11 DEF Lifecycle!LifeNext, Stages
<1>12. CASE UNCHANGED <<rowVars, sent>>
  BY <1>8, <1>12
<1> QED
  BY <1>7, <1>9, <1>10, <1>11, <1>12 DEF Next, DropRecording, Exec, HandOver, Take,
     CancelContext, ProcessEnds, vars, sentVars

\* A recording leaves the pipeline only delivered or tried as often as its stage
\* allows, and only an attempt moves it on: JobPipeline implements JobLifecycle.
THEOREM PipelineRefinesLifecycle == Spec => ImplementsLifecycle
<1>1. Init => Lifecycle!LifeInit
  <2> SUFFICES ASSUME Init PROVE Lifecycle!LifeInit
    OBVIOUS
  <2>1. \A j \in Jobs : jobState[j] = "absent" /\ sent[j] = 0
    BY DEF Init, StoreInit
  <2>2. StageNow = [j \in Jobs |-> "new"] /\ TriesNow = [j \in Jobs |-> 0]
    BY <2>1 DEF StageNow, TriesNow, Exists
  <2>3. \A j \in Jobs : (sent[j] > 0) = FALSE
    BY <2>1
  <2>4. SentNow = [j \in Jobs |-> FALSE]
    BY <2>3, Zenon DEF SentNow
  <2> QED
    BY <2>2, <2>4 DEF Lifecycle!LifeInit
<1>2. OutcomeInv /\ [Next]_vars => OutcomeInv'
  BY NextOutcomeInv
<1>3. OutcomeInv /\ OutcomeInv' /\ [Next]_vars => [Lifecycle!LifeNext]_(Lifecycle!lifeVars)
  BY StepRefines
<1> QED
  BY <1>1, <1>2, <1>3, InitOutcomeInv, PTL DEF Spec, ImplementsLifecycle, Lifecycle!Spec
=============================================================================
