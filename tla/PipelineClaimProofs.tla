------------------------ MODULE PipelineClaimProofs ------------------------
(***************************************************************************)
(* Type correctness of JobPipeline, and that no recording is worked on     *)
(* twice, none more often than configured, and none forgotten: TypeOK,     *)
(* SingleClaim, AttemptBound and NoRowForgotten hold in every behaviour,   *)
(* for every number of recordings, workers, retries, restarts and database *)
(* errors.                                                                 *)
(***************************************************************************)
EXTENDS JobPipeline, TLAPS

\* DeleteFile only removes files, whichever path it is given.
LEMMA DeleteFileType ==
    ASSUME FilesTypeOK, NEW j, NEW path, DeleteFile(j, path)
    PROVE  FilesTypeOK'
BY DEF FilesTypeOK, DeleteFile, fileVars

\* Every statement on the table keeps its columns well typed.
LEMMA StatementType ==
    ASSUME StoreTypeOK, NEW j \in Jobs, NEW S \in SUBSET Jobs,
           NEW type \in Stages, NEW path \in Nat, NEW retry \in Nat
    PROVE  /\ Create(j) /\ jobTrack' \in [Jobs -> TrackKinds] => StoreTypeOK'
           /\ Fetch(S) => StoreTypeOK'
           /\ SetError(j) => StoreTypeOK'
           /\ Update(j, type, path, retry) => StoreTypeOK'
           /\ Delete(j) => StoreTypeOK'
           /\ Reset => StoreTypeOK'
<1> USE DEF StoreTypeOK, RowStates
<1>1. Create(j) /\ jobTrack' \in [Jobs -> TrackKinds] => StoreTypeOK'
  BY DEF Create
<1>2. Fetch(S) => StoreTypeOK'
  BY DEF Fetch
<1>3. SetError(j) => StoreTypeOK'
  BY DEF SetError
<1>4. Update(j, type, path, retry) => StoreTypeOK'
  BY DEF Update
<1>5. Delete(j) => StoreTypeOK'
  BY DEF Delete
<1>6. Reset => StoreTypeOK'
  BY DEF Reset
<1> QED
  BY <1>1, <1>2, <1>3, <1>4, <1>5, <1>6

FaultTypeOK ==
    /\ proc \in {"up", "stopping", "down"}
    /\ restarts \in 0 .. MaxRestarts
    /\ proc # "up" => restarts < MaxRestarts
    /\ dbErrors \in 0 .. MaxDbErrors

\* So does an answer or a refusal of the database for the fault counters.
LEMMA AnswerType ==
    ASSUME FaultTypeOK, DbAnswers \/ DbRefuses
    PROVE  FaultTypeOK'
BY PipelineAssumption DEF FaultTypeOK, DbAnswers, DbRefuses, faultVars

\* The initial state is well typed.
LEMMA InitTypeOK == Init => TypeOK
BY PipelineAssumption DEF Init, TypeOK, StoreInit, FilesInit, StoreTypeOK, FilesTypeOK,
   RowStates, Stages, TrackKinds, Phases, Workers

\* A step of a worker inside Execute preserves the types.
LEMMA ExecuteTypeOK ==
    ASSUME TypeOK, NEW w \in Workers, phase[w] # "free" => cur[w] \in Tasks, Execute(w)
    PROVE  TypeOK'
<1> USE DEF TypeOK, FaultTypeOK
<1>h. phase[w] # "free" => cur[w] \in Tasks
  OBVIOUS
<1>1. ASSUME NEW from, NEW to \in Phases, Move(w, from, to)
      PROVE  /\ phase' \in [Workers -> Phases]
             /\ UNCHANGED <<batch, queue, cur, dropping>>
  BY <1>1 DEF Move
<1>2. ASSUME NEW from, Return(w, from)
      PROVE  /\ phase' \in [Workers -> Phases]
             /\ cur' \in [Workers -> Tasks \cup {NoTask}]
             /\ UNCHANGED <<batch, queue, dropping>>
  BY <1>2 DEF Return, Phases
<1>m. ASSUME UNCHANGED <<rowVars, fileVars, faultVars, sentVars>>
      PROVE  /\ StoreTypeOK' /\ FilesTypeOK' /\ FaultTypeOK'
             /\ sent' \in [Jobs -> Nat] /\ stored' \subseteq Jobs
  BY <1>m DEF rowVars, fileVars, faultVars, sentVars, StoreTypeOK, FilesTypeOK
<1>r. ASSUME UNCHANGED rowVars PROVE StoreTypeOK'
  BY <1>r DEF rowVars, StoreTypeOK
<1>f. ASSUME UNCHANGED <<fileVars, sentVars>>
      PROVE  FilesTypeOK' /\ sent' \in [Jobs -> Nat] /\ stored' \subseteq Jobs
  BY <1>f DEF fileVars, sentVars, FilesTypeOK
<1>g. ASSUME UNCHANGED <<faultVars, sentVars>>
      PROVE  FaultTypeOK' /\ sent' \in [Jobs -> Nat] /\ stored' \subseteq Jobs
  BY <1>g DEF faultVars, sentVars
<1>3. CASE SkipTranscoding(w)
  BY <1>1, <1>m, <1>3 DEF SkipTranscoding, Phases
<1>4. CASE StartFfmpeg(w)
  <2>1. cur[w] \in Tasks
    BY <1>h, <1>4 DEF StartFfmpeg, Move
  <2>2. FilesTypeOK'
    BY <1>4, <2>1 DEF StartFfmpeg, FilesTypeOK, Tasks
  <2> QED
    BY <1>1, <1>r, <1>g, <1>4, <2>2 DEF StartFfmpeg, Phases
<1>5. CASE FfmpegDone(w)
  BY <1>1, <1>m, <1>5 DEF FfmpegDone, Phases
<1>6. CASE FfmpegFails(w)
  BY <1>1, <1>r, <1>g, <1>6, DeleteFileType DEF FfmpegFails, Phases
<1>7. CASE ReleaseSources(w)
  BY <1>1, <1>r, <1>g, <1>7, DeleteFileType DEF ReleaseSources, Phases
<1>8. CASE PromoteJob(w)
  <2>1. cur[w].id \in Jobs /\ cur[w].retry \in Nat
    BY <1>h, <1>8 DEF PromoteJob, Return, Tasks
  <2>2. StoreTypeOK'
    BY <1>r, <1>8, <2>1, StatementType DEF PromoteJob, Stages
  <2> QED
    BY <1>2, <1>f, <1>8, <2>2, AnswerType DEF PromoteJob
<1>9. CASE OpenUpload(w)
  BY <1>1, <1>m, <1>9 DEF OpenUpload, Phases
<1>10. CASE UploadFails(w)
  BY <1>1, <1>m, <1>10 DEF UploadFails, Phases
<1>11. CASE FinishUpload(w)
  <2>1. cur[w].id \in Jobs
    BY <1>h, <1>11 DEF FinishUpload, Move, Tasks
  <2>2. sent' \in [Jobs -> Nat] /\ stored' \subseteq Jobs
    BY <1>11, <2>1 DEF FinishUpload
  <2>3. StoreTypeOK' /\ FilesTypeOK' /\ FaultTypeOK'
    BY <1>11 DEF FinishUpload, rowVars, fileVars, faultVars, StoreTypeOK, FilesTypeOK
  <2> QED
    BY <1>1, <1>11, <2>2, <2>3 DEF FinishUpload, Phases
<1>12. CASE CleanupFiles(w)
  BY <1>1, <1>r, <1>g, <1>12, DeleteFileType DEF CleanupFiles, Phases
<1>13. CASE DeleteJob(w)
  <2>1. cur[w].id \in Jobs
    BY <1>h, <1>13 DEF DeleteJob, Return, Tasks
  <2>2. StoreTypeOK'
    BY <1>r, <1>13, <2>1, StatementType DEF DeleteJob, Stages
  <2> QED
    BY <1>2, <1>f, <1>13, <2>2, AnswerType DEF DeleteJob
<1>14. CASE RetryLater(w)
  <2>1. cur[w].id \in Jobs
    BY <1>h, <1>14 DEF RetryLater, Return, Tasks
  <2>2. StoreTypeOK'
    BY <1>r, <1>14, <2>1, StatementType DEF RetryLater, Stages
  <2> QED
    BY <1>2, <1>f, <1>14, <2>2, AnswerType DEF RetryLater
<1> QED
  BY <1>3, <1>4, <1>5, <1>6, <1>7, <1>8, <1>9, <1>10, <1>11, <1>12, <1>13, <1>14
     DEF Execute

\* A step of a worker leaves it, and every other worker, where Execute takes it.
LEMMA ExecuteInExecute ==
    ASSUME TypeOK, InExecute, NEW w \in Workers, Execute(w)
    PROVE  InExecute'
<1> USE PipelineAssumption DEF InExecute, Busy, Workers
<1>0. phase \in [Workers -> Phases] /\ cur \in [Workers -> Tasks \cup {NoTask}]
  BY DEF TypeOK
<1>1. ASSUME NEW from, "free" \notin from, NEW to, Move(w, from, to),
             w \in TranscodingWorkers => to \notin {"sending", "cleanup"},
             w \in UploadWorkers => to \notin {"ffmpeg", "release", "update"}
      PROVE  InExecute'
  BY <1>0, <1>1 DEF Move
<1>2. ASSUME NEW from, Return(w, from)
      PROVE  InExecute'
  BY <1>0, <1>2 DEF Return
<1>3. CASE SkipTranscoding(w) \/ StartFfmpeg(w) \/ FfmpegDone(w) \/ FfmpegFails(w)
           \/ ReleaseSources(w)
  BY <1>0, <1>1, <1>3 DEF SkipTranscoding, StartFfmpeg, FfmpegDone, FfmpegFails,
     ReleaseSources, Move
<1>4. CASE OpenUpload(w) \/ UploadFails(w) \/ FinishUpload(w) \/ CleanupFiles(w)
  BY <1>0, <1>1, <1>4 DEF OpenUpload, UploadFails, FinishUpload, CleanupFiles, Move
<1>5. CASE PromoteJob(w) \/ DeleteJob(w) \/ RetryLater(w)
  BY <1>2, <1>5 DEF PromoteJob, DeleteJob, RetryLater
<1> QED
  BY <1>3, <1>4, <1>5 DEF Execute

\* TypeOK needs to know that a busy worker holds a job, and no more.
LEMMA NextTypeOK ==
    ASSUME TypeOK, InExecute, [Next]_vars
    PROVE  TypeOK' /\ InExecute'
<1> USE DEF TypeOK, FaultTypeOK
<1>r. ASSUME UNCHANGED rowVars PROVE StoreTypeOK'
  BY <1>r DEF rowVars, StoreTypeOK
<1>f. ASSUME UNCHANGED fileVars PROVE FilesTypeOK'
  BY <1>f DEF fileVars, FilesTypeOK
<1>k. ASSUME UNCHANGED <<cur, phase>> PROVE InExecute'
  BY <1>k DEF InExecute, Busy
<1>1. ASSUME NEW j \in Jobs, NEW track \in TrackKinds,
             SubmitRecording(j, track) \/ SubmitFails(j, track)
      PROVE  TypeOK' /\ InExecute'
  <2>1. Captured(j, track)
    BY <1>1 DEF SubmitRecording, SubmitFails
  <2>2. /\ jobTrack' \in [Jobs -> TrackKinds]
        /\ FilesTypeOK'
        /\ UNCHANGED <<batch, queue, cur, phase, sent, stored>>
    BY <2>1 DEF Captured, StoreTypeOK, FilesTypeOK, sentVars
  <2>3. StoreTypeOK'
    <3>1. CASE Create(j)
      BY <2>2, <3>1 DEF Create, StoreTypeOK, RowStates
    <3>2. CASE /\ jobState' = [jobState EXCEPT ![j] = "refused"]
               /\ UNCHANGED <<jobType, jobRetry, jobPath>>
      BY <2>2, <3>2 DEF StoreTypeOK, RowStates
    <3> QED
      BY <1>1, <3>1, <3>2 DEF SubmitRecording, SubmitFails
  <2>4. FaultTypeOK' /\ dropping' \subseteq Jobs
    BY <1>1, AnswerType DEF SubmitRecording, SubmitFails
  <2> QED
    BY <1>k, <2>2, <2>3, <2>4
<1>2. ASSUME NEW j \in Jobs, DropRecording(j)
      PROVE  TypeOK' /\ InExecute'
  BY <1>r, <1>k, <1>2, DeleteFileType DEF DropRecording, faultVars, sentVars
<1>3. ASSUME NEW st \in Stages, Poll(st)
      PROVE  TypeOK' /\ InExecute'
  <2>1. PICK S \in SUBSET IdleOf(st) :
          /\ Fetch(S)
          /\ \/ /\ DbAnswers
                /\ batch' = [batch EXCEPT ![st] =
                      {[id |-> j, retry |-> jobRetry[j] + 1, path |-> jobPath[j]] : j \in S}]
             \/ DbRefuses /\ UNCHANGED batch
    BY <1>3 DEF Poll
  <2>2. S \subseteq Jobs
    BY DEF IdleOf
  <2>3. StoreTypeOK'
    BY <2>1, <2>2 DEF Fetch, StoreTypeOK, RowStates
  <2>4. batch' \in [Stages -> SUBSET Tasks]
    <3>1. {[id |-> j, retry |-> jobRetry[j] + 1, path |-> jobPath[j]] : j \in S} \subseteq Tasks
      BY <2>2 DEF Tasks, StoreTypeOK
    <3> QED
      BY <2>1, <3>1
  <2>5. FaultTypeOK'
    BY <2>1, AnswerType
  <2> QED
    BY <1>f, <1>k, <1>3, <2>3, <2>4, <2>5 DEF Poll, sentVars
<1>4. ASSUME NEW st \in Stages, Exec(st)
      PROVE  TypeOK' /\ InExecute'
  <2>1. batch' \in [Stages -> SUBSET Tasks] /\ queue' \in [Stages -> Seq(Tasks)]
    BY <1>4 DEF Exec
  <2> QED
    BY <1>r, <1>f, <1>k, <1>4, <2>1 DEF Exec, faultVars, sentVars
<1>5. ASSUME NEW w \in Workers, HandOver(w) \/ Take(w)
      PROVE  TypeOK' /\ InExecute'
  <2>1. StageOf(w) \in Stages
    BY DEF StageOf, Stages
  <2>2. PICK t \in Tasks : /\ cur' = [cur EXCEPT ![w] = t]
                           /\ phase' = [phase EXCEPT ![w] = "start"]
                           /\ batch' \in [Stages -> SUBSET Tasks]
                           /\ queue' \in [Stages -> Seq(Tasks)]
    <3>1. CASE HandOver(w)
      BY <2>1, <3>1 DEF HandOver
    <3>2. CASE Take(w)
      <4>1. Head(queue[StageOf(w)]) \in Tasks /\ Tail(queue[StageOf(w)]) \in Seq(Tasks)
        BY <2>1, <3>2 DEF Take
      <4> QED
        BY <2>1, <3>2, <4>1 DEF Take
    <3> QED
      BY <1>5, <3>1, <3>2
  <2>3. /\ phase' \in [Workers -> Phases]
        /\ cur' \in [Workers -> Tasks \cup {NoTask}]
        /\ InExecute'
    BY <2>2 DEF Phases, InExecute, Busy, Workers
  <2> QED
    BY <1>r, <1>f, <1>5, <2>2, <2>3 DEF HandOver, Take, faultVars, sentVars
<1>6. ASSUME NEW w \in Workers, Execute(w)
      PROVE  TypeOK' /\ InExecute'
  BY <1>6, ExecuteTypeOK, ExecuteInExecute DEF InExecute, Busy
<1>7. CASE CancelContext
  BY <1>r, <1>f, <1>k, <1>7 DEF CancelContext, memVars, sentVars
<1>8. CASE ProcessEnds
  <2>1. /\ batch' \in [Stages -> SUBSET Tasks]
        /\ queue' \in [Stages -> Seq(Tasks)]
        /\ cur' \in [Workers -> Tasks \cup {NoTask}]
        /\ phase' \in [Workers -> Phases]
        /\ dropping' \subseteq Jobs
        /\ InExecute'
    BY <1>8 DEF ProcessEnds, Phases, InExecute, Busy, Workers
  <2> QED
    BY <1>r, <1>f, <1>8, <2>1 DEF ProcessEnds, sentVars
<1>9. CASE StartProcess
  <2>1. StoreTypeOK'
    BY <1>r, <1>9 DEF StartProcess, Reset, StoreTypeOK, RowStates
  <2>2. FaultTypeOK'
    BY <1>9, PipelineAssumption DEF StartProcess
  <2> QED
    BY <1>f, <1>k, <1>9, <2>1, <2>2 DEF StartProcess, memVars, sentVars
<1>10. CASE UNCHANGED vars
  BY <1>r, <1>f, <1>k, <1>10 DEF vars, memVars, faultVars, sentVars
<1> QED
  BY <1>1, <1>2, <1>3, <1>4, <1>5, <1>6, <1>7, <1>8, <1>9, <1>10 DEF Next

\* Every variable keeps its type in every behaviour of the pipeline, with any
\* numbers of recordings, workers, retries, restarts and database errors.
THEOREM TypeCorrect == Spec => []TypeOK
<1>1. Init => TypeOK /\ InExecute
  BY InitTypeOK DEF Init, InExecute, Busy, Workers
<1>2. TypeOK /\ InExecute /\ [Next]_vars => (TypeOK /\ InExecute)'
  BY NextTypeOK
<1> QED
  BY <1>1, <1>2, PTL DEF Spec

-----------------------------------------------------------------------------
(* Claims.                                                                 *)

\* What the proof of SingleClaim carries along.
ClaimInv == TypeOK /\ InExecute /\ MemoryLost /\ SingleClaim

RowKept(j) ==
    /\ jobState'[j] = jobState[j]
    /\ jobType'[j]  = jobType[j]
    /\ jobRetry'[j] = jobRetry[j]
    /\ jobPath'[j]  = jobPath[j]

\* A step that leaves the memory and every active row alone keeps the claims.
LEMMA ClaimsKept ==
    ASSUME TypeOK, InExecute, SingleClaim, UNCHANGED <<batch, queue, cur, phase>>,
           \A j \in Jobs : jobState[j] = "active" => RowKept(j)
    PROVE  SingleClaim'
<1> USE DEF SingleClaim
<1>1. HeldOnce'
  BY DEF HeldOnce, Queued, Busy
<1>2. \A st \in Stages : \A t \in batch[st] \cup Queued(st) : t \in Tasks
  BY DEF TypeOK, Queued
<1>3. \A t \in Tasks, st \in Stages : Claims(t, st) => Claims(t, st)'
  BY DEF Claims, RowKept, Tasks
<1>4. ClaimsHold'
  <2>1. (\A st \in Stages : \A t \in batch[st] \cup Queued(st) : Claims(t, st))'
    BY <1>2, <1>3 DEF ClaimsHold, Queued
  <2>2. (\A w \in Busy : Claims(cur[w], StageOf(w)))'
    BY <1>3 DEF ClaimsHold, Busy, InExecute, StageOf, Stages
  <2> QED
    BY <2>1, <2>2 DEF ClaimsHold
<1> QED
  BY <1>1, <1>4

\* So does a step of a worker that goes on executing its job.
LEMMA ClaimsMove ==
    ASSUME TypeOK, SingleClaim, NEW w \in Workers, NEW from, NEW to,
           Move(w, from, to), "free" \notin from, to # "free", UNCHANGED rowVars
    PROVE  SingleClaim'
<1>1. Busy' = Busy
  BY DEF Busy, Move, TypeOK
<1>2. UNCHANGED <<batch, queue, cur>>
  BY DEF Move
<1> QED
  BY <1>1, <1>2 DEF SingleClaim, ClaimsHold, HeldOnce, Claims, Queued, rowVars

\* A worker that returns may have changed the row it held: nobody else holds it.
LEMMA ClaimsReturn ==
    ASSUME TypeOK, InExecute, SingleClaim, NEW w \in Workers, NEW from,
           Return(w, from), from # "free",
           \A j \in Jobs : j # cur[w].id => RowKept(j)
    PROVE  SingleClaim'
<1> USE DEF SingleClaim
<1>1. Busy' = Busy \ {w} /\ w \in Busy /\ \A v \in Busy \ {w} : cur'[v] = cur[v]
  BY DEF Busy, Return, TypeOK
<1>2. UNCHANGED <<batch, queue>>
  BY DEF Return
<1>3. HeldOnce'
  BY <1>1, <1>2 DEF HeldOnce, Queued
<1>4. \A t \in Tasks, st \in Stages : t.id # cur[w].id /\ Claims(t, st) => Claims(t, st)'
  BY DEF Claims, RowKept, Tasks
<1>5. (\A v \in Busy : Claims(cur[v], StageOf(v)))'
  <2>1. \A v \in Busy \ {w} : cur[v].id # cur[w].id
    BY <1>1 DEF HeldOnce
  <2>2. \A v \in Busy \ {w} : cur[v] \in Tasks /\ StageOf(v) \in Stages
    BY DEF InExecute, StageOf, Stages
  <2> QED
    BY <1>1, <1>4, <2>1, <2>2 DEF ClaimsHold
<1>6. (\A st \in Stages : \A t \in batch[st] \cup Queued(st) : Claims(t, st))'
  <2> SUFFICES ASSUME NEW st \in Stages, NEW t \in batch[st] \cup Queued(st)
               PROVE  Claims(t, st)'
    BY <1>2 DEF Queued
  <2>1. t \in Tasks /\ Claims(t, st)
    BY DEF TypeOK, Queued, ClaimsHold
  <2>2. t.id # cur[w].id
    <3>1. CASE st = StageOf(w)
      BY <1>1, <3>1 DEF HeldOnce
    <3>2. CASE st # StageOf(w)
      BY <1>1, <2>1, <3>2 DEF ClaimsHold, Claims
    <3> QED
      BY <3>1, <3>2
  <2> QED
    BY <1>4, <2>1, <2>2
<1> QED
  BY <1>3, <1>5, <1>6 DEF ClaimsHold

\* A job goes from the batch into the channel.
LEMMA ClaimsExec ==
    ASSUME TypeOK, SingleClaim, NEW st \in Stages, Exec(st)
    PROVE  SingleClaim'
<1> USE DEF SingleClaim
<1>1. PICK t \in batch[st] : /\ batch' = [batch EXCEPT ![st] = @ \ {t}]
                             /\ queue' = [queue EXCEPT ![st] = Append(@, t)]
  BY DEF Exec
<1>2. UNCHANGED <<rowVars, cur, phase>>
  BY DEF Exec
<1> DEFINE q == queue[st]
<1>3. q \in Seq(Tasks) /\ t \in Tasks
  BY DEF TypeOK
<1>4. queue' [st] = Append(q, t) /\ batch'[st] = batch[st] \ {t}
  BY <1>1 DEF TypeOK
<1>5. Len(Append(q, t)) = Len(q) + 1
  BY <1>3
<1>6. Append(q, t)[Len(q) + 1] = t /\ \A i \in 1 .. Len(q) : Append(q, t)[i] = q[i]
  BY <1>3
<1>7. Queued(st)' = Queued(st) \cup {t}
  <2>1. Queued(st)' = {Append(q, t)[i] : i \in 1 .. Len(q) + 1}
    BY <1>4, <1>5 DEF Queued
  <2>2. Len(q) \in Nat /\ 1 .. Len(q) + 1 = (1 .. Len(q)) \cup {Len(q) + 1}
    BY <1>3
  <2> QED
    BY <1>6, <2>1, <2>2 DEF Queued
<1>8. \A x \in Stages \ {st} : batch'[x] = batch[x] /\ queue'[x] = queue[x]
                               /\ Queued(x)' = Queued(x)
  BY <1>1 DEF TypeOK, Queued
<1>9. ClaimsHold'
  <2>1. (\A w \in Busy : Claims(cur[w], StageOf(w)))'
    BY <1>2 DEF ClaimsHold, Claims, Busy, rowVars
  <2>2. \A x \in Stages : batch'[x] \cup Queued(x)' \subseteq batch[x] \cup Queued(x)
    BY <1>4, <1>7, <1>8
  <2> QED
    BY <1>2, <2>1, <2>2 DEF ClaimsHold, Claims, rowVars
<1>10. HeldOnce'
  <2>1. \A x \in Stages : \A a, b \in batch'[x] : a.id = b.id => a = b
    BY <1>4, <1>8 DEF HeldOnce
  <2>2. \A x \in Stages : \A a \in batch'[x], b \in Queued(x)' : a.id # b.id
    BY <1>4, <1>7, <1>8 DEF HeldOnce
  <2>3. \A x \in Stages : \A i, k \in 1 .. Len(queue'[x]) :
           queue'[x][i].id = queue'[x][k].id => i = k
    <3>1. \A i \in 1 .. Len(q) : q[i] \in Queued(st) /\ q[i].id # t.id
      BY DEF HeldOnce, Queued
    <3>2. \A i, k \in 1 .. Len(q) + 1 :
             Append(q, t)[i].id = Append(q, t)[k].id => i = k
      <4> SUFFICES ASSUME NEW i \in 1 .. Len(q) + 1, NEW k \in 1 .. Len(q) + 1,
                          Append(q, t)[i].id = Append(q, t)[k].id
                   PROVE  i = k
        OBVIOUS
      <4>1. Len(q) \in Nat
        BY <1>3
      <4>2. CASE i \in 1 .. Len(q) /\ k \in 1 .. Len(q)
        BY <1>6, <4>2 DEF HeldOnce
      <4>3. CASE i = Len(q) + 1 \/ k = Len(q) + 1
        BY <1>6, <3>1, <4>1, <4>3
      <4> QED
        BY <4>1, <4>2, <4>3
    <3> QED
      BY <1>4, <1>5, <1>8, <3>2 DEF HeldOnce
  <2>4. (\A w \in Busy : \A u \in batch[StageOf(w)] \cup Queued(StageOf(w)) :
            cur[w].id # u.id)'
    <3>1. \A x \in Stages : batch'[x] \cup Queued(x)' \subseteq batch[x] \cup Queued(x)
      BY <1>4, <1>7, <1>8
    <3>2. \A w \in Busy : StageOf(w) \in Stages
      BY DEF StageOf, Stages
    <3> QED
      BY <1>2, <3>1, <3>2 DEF HeldOnce, Busy
  <2>5. (\A v, w \in Busy : cur[v].id = cur[w].id => v = w)'
    BY <1>2 DEF HeldOnce, Busy
  <2> QED
    BY <2>1, <2>2, <2>3, <2>4, <2>5 DEF HeldOnce
<1> QED
  BY <1>9, <1>10

\* A free worker w gets job t, which its pool held and holds no more.
LEMMA ClaimsTaken ==
    ASSUME TypeOK, InExecute, SingleClaim, NEW w \in Workers, phase[w] = "free",
           NEW t \in batch[StageOf(w)] \cup Queued(StageOf(w)),
           cur' = [cur EXCEPT ![w] = t], phase' = [phase EXCEPT ![w] = "start"],
           UNCHANGED rowVars,
           \A x \in Stages : /\ batch'[x] \subseteq batch[x]
                             /\ Queued(x)' \subseteq Queued(x),
           \A u \in batch'[StageOf(w)] \cup Queued(StageOf(w))' : u.id # t.id,
           \A x \in Stages : \A i, k \in 1 .. Len(queue'[x]) :
              queue'[x][i].id = queue'[x][k].id => i = k
    PROVE  SingleClaim'
<1> USE DEF SingleClaim
<1>1. /\ Busy' = Busy \cup {w} /\ w \notin Busy
      /\ cur'[w] = t /\ \A v \in Busy : cur'[v] = cur[v]
  BY DEF Busy, TypeOK
<1>2. \A v \in Workers : StageOf(v) \in Stages
  BY DEF StageOf, Stages
<1>3. t \in Tasks /\ Claims(t, StageOf(w))
  BY <1>2 DEF TypeOK, Queued, ClaimsHold
<1>4. \A u, x : Claims(u, x)' = Claims(u, x)
  BY DEF Claims, rowVars
<1>5. ClaimsHold'
  <2>1. (\A v \in Busy : Claims(cur[v], StageOf(v)))'
    BY <1>1, <1>3 DEF ClaimsHold, Claims, rowVars
  <2>2. (\A x \in Stages : \A u \in batch[x] \cup Queued(x) : Claims(u, x))'
    BY DEF ClaimsHold, Claims, rowVars
  <2> QED
    BY <2>1, <2>2 DEF ClaimsHold
<1>6. \A v \in Busy : cur[v].id # t.id
  <2> SUFFICES ASSUME NEW v \in Busy PROVE cur[v].id # t.id
    OBVIOUS
  <2>1. v \in Workers /\ cur[v] \in Tasks /\ Claims(cur[v], StageOf(v))
    BY DEF Busy, InExecute, ClaimsHold
  <2>2. CASE StageOf(v) = StageOf(w)
    BY <2>2 DEF HeldOnce
  <2>3. CASE StageOf(v) # StageOf(w)
    BY <1>3, <2>1, <2>3 DEF Claims
  <2> QED
    BY <2>2, <2>3
<1>7. HeldOnce'
  <2>1. (\A x \in Stages : \A a, b \in batch[x] : a.id = b.id => a = b)'
    BY DEF HeldOnce
  <2>2. (\A x \in Stages : \A a \in batch[x], b \in Queued(x) : a.id # b.id)'
    BY DEF HeldOnce
  <2>3. (\A v \in Busy : \A u \in batch[StageOf(v)] \cup Queued(StageOf(v)) :
            cur[v].id # u.id)'
    <3>1. \A u \in batch'[StageOf(w)] \cup Queued(StageOf(w))' : cur'[w].id # u.id
      BY <1>1
    <3>2. \A v \in Busy : \A u \in batch'[StageOf(v)] \cup Queued(StageOf(v))' :
             cur'[v].id # u.id
      BY <1>1, <1>2 DEF HeldOnce, Busy
    <3> QED
      BY <1>1, <3>1, <3>2
  <2>4. (\A v, x \in Busy : cur[v].id = cur[x].id => v = x)'
    BY <1>1, <1>6 DEF HeldOnce
  <2> QED
    BY <2>1, <2>2, <2>3, <2>4 DEF HeldOnce
<1> QED
  BY <1>5, <1>7

\* The job comes from the batch of a listener that waits, or from the channel.
LEMMA ClaimsPool ==
    ASSUME TypeOK, InExecute, SingleClaim, NEW w \in Workers, HandOver(w) \/ Take(w)
    PROVE  SingleClaim'
<1> DEFINE st == StageOf(w)
           q  == queue[st]
<1>0. st \in Stages
  BY DEF StageOf, Stages
<1>1. phase[w] = "free" /\ phase' = [phase EXCEPT ![w] = "start"] /\ UNCHANGED rowVars
  BY DEF HandOver, Take
<1>2. CASE HandOver(w)
  <2>1. PICK t \in batch[st] : /\ batch' = [batch EXCEPT ![st] = @ \ {t}]
                               /\ cur' = [cur EXCEPT ![w] = t]
    BY <1>2 DEF HandOver
  <2>2. UNCHANGED queue
    BY <1>2 DEF HandOver
  <2>3. \A x \in Stages : batch'[x] \subseteq batch[x] /\ Queued(x)' = Queued(x)
    BY <2>1, <2>2 DEF TypeOK, Queued
  <2>4. batch'[st] = batch[st] \ {t}
    BY <1>0, <2>1 DEF TypeOK
  <2>5. \A u \in batch'[st] \cup Queued(st)' : u.id # t.id
    BY <1>0, <2>3, <2>4 DEF SingleClaim, HeldOnce
  <2>6. \A x \in Stages : \A i, k \in 1 .. Len(queue'[x]) :
           queue'[x][i].id = queue'[x][k].id => i = k
    BY <2>2 DEF SingleClaim, HeldOnce
  <2> HIDE DEF st
  <2> QED
    BY <1>1, <2>1, <2>3, <2>5, <2>6, ClaimsTaken DEF st
<1>3. CASE Take(w)
  <2>1. q \in Seq(Tasks) /\ q # <<>>
    BY <1>0, <1>3 DEF Take, TypeOK
  <2>2. Len(q) \in Nat /\ Len(q) > 0 /\ Head(q) = q[1] /\ Len(Tail(q)) = Len(q) - 1
    BY <2>1
  <2>3. \A i \in 1 .. Len(Tail(q)) : Tail(q)[i] = q[i + 1]
    BY <2>1
  <2>4. /\ cur' = [cur EXCEPT ![w] = Head(q)]
        /\ queue' = [queue EXCEPT ![st] = Tail(q)]
        /\ UNCHANGED batch
    BY <1>3 DEF Take
  <2>5. queue'[st] = Tail(q) /\ \A x \in Stages \ {st} : queue'[x] = queue[x]
    BY <1>0, <2>4 DEF TypeOK
  <2>6. Head(q) \in Queued(st)
    BY <2>2 DEF Queued
  <2>7. Queued(st)' = {q[i + 1] : i \in 1 .. Len(q) - 1}
    BY <2>2, <2>3, <2>5 DEF Queued
  <2>8. \A x \in Stages : batch'[x] = batch[x] /\ Queued(x)' \subseteq Queued(x)
    <3>1. \A i \in 1 .. Len(q) - 1 : i + 1 \in 1 .. Len(q)
      BY <2>2
    <3>2. Queued(st)' \subseteq Queued(st)
      BY <2>7, <3>1 DEF Queued
    <3> QED
      BY <2>4, <2>5, <3>2 DEF Queued
  <2>9. \A u \in batch'[st] \cup Queued(st)' : u.id # Head(q).id
    <3>1. \A u \in batch[st] : u.id # Head(q).id
      BY <1>0, <2>6 DEF SingleClaim, HeldOnce
    <3>2. \A i \in 1 .. Len(q) - 1 : q[i + 1].id # q[1].id
      <4> SUFFICES ASSUME NEW i \in 1 .. Len(q) - 1 PROVE q[i + 1].id # q[1].id
        OBVIOUS
      <4>1. i + 1 \in 1 .. Len(q) /\ 1 \in 1 .. Len(q) /\ i + 1 # 1
        BY <2>2
      <4> QED
        BY <1>0, <4>1 DEF SingleClaim, HeldOnce
    <3> QED
      BY <2>2, <2>4, <2>7, <3>1, <3>2
  <2>10. \A x \in Stages : \A i, k \in 1 .. Len(queue'[x]) :
            queue'[x][i].id = queue'[x][k].id => i = k
    <3>1. \A i, k \in 1 .. Len(Tail(q)) : Tail(q)[i].id = Tail(q)[k].id => i = k
      <4> SUFFICES ASSUME NEW i \in 1 .. Len(Tail(q)), NEW k \in 1 .. Len(Tail(q)),
                          Tail(q)[i].id = Tail(q)[k].id
                   PROVE  i = k
        OBVIOUS
      <4>1. q[i + 1].id = q[k + 1].id /\ i + 1 \in 1 .. Len(q) /\ k + 1 \in 1 .. Len(q)
        BY <2>2, <2>3
      <4>2. i + 1 = k + 1
        BY <1>0, <4>1 DEF SingleClaim, HeldOnce
      <4> QED
        BY <2>2, <4>2
    <3> QED
      BY <2>5, <3>1 DEF SingleClaim, HeldOnce
  <2> HIDE DEF st, q
  <2> QED
    BY <1>1, <2>4, <2>6, <2>8, <2>9, <2>10, ClaimsTaken DEF st
<1> QED
  BY <1>2, <1>3

\* A tick of a listener whose batch was empty.
LEMMA ClaimsPoll ==
    ASSUME TypeOK, InExecute, SingleClaim, NEW st \in Stages, Poll(st)
    PROVE  SingleClaim'
<1> DEFINE task(j) == [id |-> j, retry |-> jobRetry[j] + 1, path |-> jobPath[j]]
<1>1. PICK S \in SUBSET IdleOf(st) :
          /\ Fetch(S)
          /\ \/ batch' = [batch EXCEPT ![st] = {task(j) : j \in S}]
             \/ UNCHANGED batch
  BY DEF Poll
<1>2. batch[st] = {} /\ UNCHANGED <<queue, cur, phase>>
  BY DEF Poll
<1>3. S \subseteq Jobs /\ \A j \in S : jobState[j] = "idle" /\ jobType[j] = st
  BY DEF IdleOf
<1>4. \A j \in Jobs : jobState[j] = "active" => j \notin S /\ RowKept(j)
  BY <1>1, <1>3 DEF Fetch, RowKept, TypeOK, StoreTypeOK
<1>5. CASE UNCHANGED batch
  BY <1>2, <1>4, <1>5, ClaimsKept
<1>6. CASE batch' = [batch EXCEPT ![st] = {task(j) : j \in S}]
  <2>1. batch'[st] = {task(j) : j \in S} /\ \A x \in Stages \ {st} : batch'[x] = batch[x]
    BY <1>6 DEF TypeOK
  <2>2. \A t \in batch'[st] : t.id \in S /\ t = task(t.id)
    BY <2>1
  <2>3. \A x \in Stages : \A t \in batch[x] \cup Queued(x) :
           t \in Tasks /\ jobState[t.id] = "active" /\ t.id \notin S
    <3> SUFFICES ASSUME NEW x \in Stages, NEW t \in batch[x] \cup Queued(x)
                 PROVE  t \in Tasks /\ jobState[t.id] = "active" /\ t.id \notin S
      OBVIOUS
    <3>1. t \in Tasks
      BY DEF TypeOK, Queued
    <3>2. jobState[t.id] = "active"
      BY DEF SingleClaim, ClaimsHold, Claims
    <3> QED
      BY <1>3, <3>1, <3>2
  <2>4. \A w \in Busy : cur[w] \in Tasks /\ jobState[cur[w].id] = "active"
                        /\ cur[w].id \notin S
    BY <1>4 DEF InExecute, SingleClaim, ClaimsHold, Claims, Tasks
  <2>5. \A t \in Tasks, x \in Stages : Claims(t, x) => Claims(t, x)'
    BY <1>4 DEF Claims, RowKept, Tasks
  <2>6. \A t \in batch'[st] : Claims(t, st)'
    BY <1>1, <1>3, <2>2 DEF Claims, Fetch, TypeOK, StoreTypeOK
  <2>7. \A w \in Workers : StageOf(w) \in Stages
    BY DEF StageOf, Stages
  <2>8. Busy' = Busy /\ \A x \in Stages : Queued(x)' = Queued(x)
    BY <1>2 DEF Busy, Queued
  <2>9. ClaimsHold'
    <3>1. \A x \in Stages : \A t \in batch'[x] \cup Queued(x)' : Claims(t, x)'
      BY <2>1, <2>3, <2>5, <2>6, <2>8 DEF SingleClaim, ClaimsHold
    <3>2. (\A w \in Busy : Claims(cur[w], StageOf(w)))'
      BY <1>2, <2>4, <2>5, <2>7, <2>8 DEF SingleClaim, ClaimsHold, Busy
    <3> QED
      BY <3>1, <3>2 DEF ClaimsHold
  <2>10. HeldOnce'
    <3> HIDE DEF task
    <3>1. \A x \in Stages : \A t, u \in batch'[x] : t.id = u.id => t = u
      BY <2>1, <2>2 DEF SingleClaim, HeldOnce
    <3>2. \A x \in Stages : \A t \in batch'[x], u \in Queued(x)' : t.id # u.id
      BY <2>1, <2>2, <2>3, <2>8 DEF SingleClaim, HeldOnce
    <3>3. \A w \in Busy : \A t \in batch'[StageOf(w)] \cup Queued(StageOf(w))' :
             cur[w].id # t.id
      BY <2>1, <2>2, <2>4, <2>7, <2>8 DEF SingleClaim, HeldOnce, Busy
    <3> QED
      BY <1>2, <2>8, <3>1, <3>2, <3>3 DEF SingleClaim, HeldOnce
  <2> QED
    BY <2>9, <2>10 DEF SingleClaim
<1> QED
  BY <1>1, <1>5, <1>6

\* The memory of a process that is not running holds nothing.
LEMMA NothingHeld ==
    ASSUME \A st \in Stages : batch[st] = {} /\ queue[st] = <<>>,
           \A w \in Workers : phase[w] = "free"
    PROVE  SingleClaim
<1>1. Busy = {} /\ \A st \in Stages : Queued(st) = {} /\ Len(queue[st]) = 0
  BY DEF Busy, Queued
<1> QED
  BY <1>1 DEF SingleClaim, ClaimsHold, HeldOnce

\* The statement of a worker that returns touches the row it holds, or none.
LEMMA OthersKept ==
    ASSUME TypeOK, NEW w \in Workers,
           PromoteJob(w) \/ DeleteJob(w) \/ RetryLater(w)
    PROVE  \A j \in Jobs : j # cur[w].id => RowKept(j)
<1> USE DEF TypeOK, StoreTypeOK, RowKept, rowVars
<1>1. CASE PromoteJob(w)
  BY <1>1 DEF PromoteJob, Update
<1>2. CASE DeleteJob(w)
  BY <1>2 DEF DeleteJob, Delete
<1>3. CASE RetryLater(w)
  BY <1>3 DEF RetryLater, SetError
<1> QED
  BY <1>1, <1>2, <1>3

\* Every step of the pipeline keeps the claims exclusive and accurate.
LEMMA NextClaimInv ==
    ASSUME ClaimInv, [Next]_vars
    PROVE  ClaimInv'
<1> USE DEF ClaimInv
<1>0. TypeOK' /\ InExecute'
  BY NextTypeOK
<1>d. ASSUME UNCHANGED <<batch, queue, phase, proc>> PROVE MemoryLost'
  BY <1>d DEF MemoryLost
<1>u. ASSUME proc' # "down" PROVE MemoryLost'
  BY <1>u DEF MemoryLost
<1>1. ASSUME NEW j \in Jobs, NEW track \in TrackKinds,
             SubmitRecording(j, track) \/ SubmitFails(j, track)
      PROVE  ClaimInv'
  <2>1. UNCHANGED <<batch, queue, cur, phase, proc>>
    BY <1>1 DEF SubmitRecording, SubmitFails, Captured, DbAnswers, DbRefuses, faultVars
  <2>2. jobState[j] = "absent"
    BY <1>1 DEF SubmitRecording, SubmitFails, Captured, NextId
  <2>3. \A k \in Jobs : k # j => RowKept(k)
    BY <1>1 DEF SubmitRecording, SubmitFails, Create, RowKept, TypeOK, StoreTypeOK
  <2> QED
    BY <1>0, <1>d, <2>1, <2>2, <2>3, ClaimsKept
<1>2. ASSUME NEW j \in Jobs, DropRecording(j)
      PROVE  ClaimInv'
  BY <1>0, <1>d, <1>2, ClaimsKept DEF DropRecording, RowKept, rowVars, faultVars
<1>3. ASSUME NEW st \in Stages, Poll(st)
      PROVE  ClaimInv'
  <2>1. proc' # "down"
    BY <1>3 DEF Poll, DbAnswers, DbRefuses, faultVars
  <2> QED
    BY <1>0, <1>u, <1>3, <2>1, ClaimsPoll
<1>4. ASSUME NEW st \in Stages, Exec(st)
      PROVE  ClaimInv'
  <2>1. proc' # "down"
    BY <1>4 DEF Exec, MemoryLost, faultVars
  <2> QED
    BY <1>0, <1>u, <1>4, <2>1, ClaimsExec
<1>5. ASSUME NEW w \in Workers, HandOver(w) \/ Take(w)
      PROVE  ClaimInv'
  <2>1. proc' # "down"
    BY <1>5 DEF HandOver, Take, MemoryLost, faultVars, StageOf, Stages
  <2> QED
    BY <1>0, <1>u, <1>5, <2>1, ClaimsPool
<1>6. ASSUME NEW w \in Workers, Execute(w)
      PROVE  ClaimInv'
  <2>1. phase[w] # "free"
    BY <1>6 DEF Execute, SkipTranscoding, StartFfmpeg, FfmpegDone, FfmpegFails,
       ReleaseSources, PromoteJob, OpenUpload, UploadFails, FinishUpload, CleanupFiles,
       DeleteJob, RetryLater, Move, Return
  <2>2. proc # "down"
    BY <2>1 DEF MemoryLost
  <2>3. proc' = proc
    BY <1>6 DEF Execute, SkipTranscoding, StartFfmpeg, FfmpegDone, FfmpegFails,
       ReleaseSources, PromoteJob, OpenUpload, UploadFails, FinishUpload, CleanupFiles,
       DeleteJob, RetryLater, DbAnswers, DbRefuses, faultVars
  <2>4. CASE PromoteJob(w) \/ DeleteJob(w) \/ RetryLater(w)
    <3>1. \E from : from # "free" /\ Return(w, from)
      BY <2>4 DEF PromoteJob, DeleteJob, RetryLater
    <3> QED
      BY <1>0, <1>u, <2>2, <2>3, <2>4, <3>1, OthersKept, ClaimsReturn
  <2>5. CASE ~ (PromoteJob(w) \/ DeleteJob(w) \/ RetryLater(w))
    <3>1. \E from, to : "free" \notin from /\ to # "free" /\ Move(w, from, to)
                        /\ UNCHANGED rowVars
      BY <1>6, <2>5 DEF Execute, SkipTranscoding, StartFfmpeg, FfmpegDone, FfmpegFails,
         ReleaseSources, OpenUpload, UploadFails, FinishUpload, CleanupFiles
    <3> QED
      BY <1>0, <1>u, <2>2, <2>3, <3>1, ClaimsMove
  <2> QED
    BY <2>4, <2>5
<1>7. CASE CancelContext
  BY <1>0, <1>u, <1>7, ClaimsKept DEF CancelContext, RowKept, rowVars, memVars
<1>8. CASE ProcessEnds
  <2>1. /\ (\A st \in Stages : batch[st] = {} /\ queue[st] = <<>>)'
        /\ (\A w \in Workers : phase[w] = "free")'
    BY <1>8 DEF ProcessEnds
  <2>2. SingleClaim'
    <3>1. Busy' = {} /\ \A st \in Stages : Queued(st)' = {} /\ Len(queue[st])' = 0
      BY <2>1 DEF Busy, Queued
    <3> QED
      BY <2>1, <3>1 DEF SingleClaim, ClaimsHold, HeldOnce
  <2> QED
    BY <1>0, <2>1, <2>2 DEF MemoryLost
<1>9. CASE StartProcess
  <2>1. /\ (\A st \in Stages : batch[st] = {} /\ queue[st] = <<>>)'
        /\ (\A w \in Workers : phase[w] = "free")'
    BY <1>9 DEF StartProcess, MemoryLost, memVars
  <2>2. SingleClaim'
    <3>1. Busy' = {} /\ \A st \in Stages : Queued(st)' = {} /\ Len(queue[st])' = 0
      BY <2>1 DEF Busy, Queued
    <3> QED
      BY <2>1, <3>1 DEF SingleClaim, ClaimsHold, HeldOnce
  <2> QED
    BY <1>0, <2>1, <2>2 DEF MemoryLost
<1>10. CASE UNCHANGED vars
  BY <1>0, <1>d, <1>10, ClaimsKept DEF vars, rowVars, memVars, faultVars, RowKept
<1> QED
  BY <1>1, <1>2, <1>3, <1>4, <1>5, <1>6, <1>7, <1>8, <1>9, <1>10 DEF Next

\* Nothing is held at the start.
LEMMA InitClaimInv == Init => ClaimInv
<1> SUFFICES ASSUME Init PROVE ClaimInv
  OBVIOUS
<1>1. TypeOK /\ InExecute /\ MemoryLost
  BY InitTypeOK DEF Init, InExecute, Busy, Workers, MemoryLost
<1>2. SingleClaim
  BY NothingHeld DEF Init
<1> QED
  BY <1>1, <1>2 DEF ClaimInv

\* No two goroutines ever hold the same recording, and what one holds agrees
\* with the row, whatever crashes, restarts and lost answers came before.
THEOREM ClaimsExclusive == Spec => []SingleClaim
<1>1. ClaimInv /\ [Next]_vars => ClaimInv'
  BY NextClaimInv
<1>2. ClaimInv => SingleClaim
  BY DEF ClaimInv
<1> QED
  BY <1>1, <1>2, InitClaimInv, PTL DEF Spec

-----------------------------------------------------------------------------
(* The retry column.                                                       *)

\* A worker inside Execute holds the row's own attempt number.
LEMMA HolderKnowsRow ==
    ASSUME ClaimInv, NEW w \in Workers, phase[w] # "free"
    PROVE  /\ cur[w] \in Tasks /\ cur[w].id \in Jobs
           /\ jobState[cur[w].id] = "active"
           /\ jobType[cur[w].id] = StageOf(w)
           /\ jobRetry[cur[w].id] = cur[w].retry
           /\ jobPath[cur[w].id] = cur[w].path
BY DEF ClaimInv, InExecute, SingleClaim, ClaimsHold, Claims, Busy, Tasks

\* No step begins an attempt too many.
LEMMA NextAttemptBound ==
    ASSUME ClaimInv, RowsConsistent, AttemptBound, [Next]_vars
    PROVE  AttemptBound'
<1> USE PipelineAssumption
<1>t. /\ jobState \in [Jobs -> RowStates] /\ jobType \in [Jobs -> Stages]
      /\ jobRetry \in [Jobs -> Nat] /\ restarts \in Nat
  BY DEF ClaimInv, TypeOK, StoreTypeOK
<1>l. \A st \in Stages : AttemptLimit(st) \in Nat /\ AttemptLimit(st) > 0
                         /\ AttemptLimit(st) >= MaxRetry[st]
  BY DEF AttemptLimit
<1>k. ASSUME UNCHANGED <<rowVars, restarts>> PROVE AttemptBound'
  BY <1>k DEF AttemptBound, Exists, rowVars, AttemptLimit
<1>1. ASSUME NEW j \in Jobs, NEW track \in TrackKinds,
             SubmitRecording(j, track) \/ SubmitFails(j, track)
      PROVE  AttemptBound'
  <2>1. UNCHANGED <<jobType, jobRetry, restarts>>
    BY <1>1 DEF SubmitRecording, SubmitFails, Create, DbAnswers, DbRefuses, faultVars
  <2>2. jobState[j] = "absent" /\ jobRetry[j] = 0
    BY <1>1 DEF SubmitRecording, SubmitFails, Captured, NextId, RowsConsistent
  <2>3. \A k \in Jobs \ {j} : jobState'[k] = jobState[k]
    BY <1>1, <1>t DEF SubmitRecording, SubmitFails, Create
  <2> QED
    BY <1>t, <1>l, <2>1, <2>2, <2>3 DEF AttemptBound, Exists, AttemptLimit
<1>2. ASSUME NEW j \in Jobs, DropRecording(j)
      PROVE  AttemptBound'
  BY <1>k, <1>2 DEF DropRecording, faultVars
<1>3. ASSUME NEW st \in Stages, Poll(st)
      PROVE  AttemptBound'
  <2>1. PICK S \in SUBSET IdleOf(st) : Fetch(S)
    BY <1>3 DEF Poll
  <2>2. restarts' = restarts
    BY <1>3 DEF Poll, DbAnswers, DbRefuses, faultVars
  <2>3. \A j \in S : j \in Jobs /\ jobState[j] = "idle"
    BY DEF IdleOf
  <2> QED
    BY <1>t, <1>l, <2>1, <2>2, <2>3 DEF Fetch, AttemptBound, Exists, AttemptLimit
<1>4. ASSUME NEW st \in Stages, Exec(st)
      PROVE  AttemptBound'
  BY <1>k, <1>4 DEF Exec, faultVars
<1>5. ASSUME NEW w \in Workers, HandOver(w) \/ Take(w)
      PROVE  AttemptBound'
  BY <1>k, <1>5 DEF HandOver, Take, faultVars
<1>6. ASSUME NEW w \in Workers, Execute(w)
      PROVE  AttemptBound'
  <2>r. restarts' = restarts
    BY <1>6 DEF Execute, SkipTranscoding, StartFfmpeg, FfmpegDone, FfmpegFails,
       ReleaseSources, PromoteJob, OpenUpload, UploadFails, FinishUpload, CleanupFiles,
       DeleteJob, RetryLater, DbAnswers, DbRefuses, faultVars
  <2>1. CASE UNCHANGED rowVars
    BY <1>k, <2>r, <2>1
  <2>2. CASE PromoteJob(w) /\ ~ UNCHANGED rowVars
    <3>1. Update(cur[w].id, "upload", cur[w].retry, 0)
      BY <2>2 DEF PromoteJob
    <3>2. cur[w].id \in Jobs
      BY <2>2, HolderKnowsRow DEF PromoteJob, Return
    <3> QED
      BY <1>t, <1>l, <2>r, <3>1, <3>2 DEF Update, AttemptBound, Exists, Stages, AttemptLimit
  <2>3. CASE DeleteJob(w) /\ ~ UNCHANGED rowVars
    <3>1. Delete(cur[w].id)
      BY <2>3 DEF DeleteJob
    <3> QED
      BY <1>t, <2>r, <3>1 DEF Delete, AttemptBound, Exists, AttemptLimit
  <2>4. CASE RetryLater(w) /\ ~ UNCHANGED rowVars
    <3>1. SetError(cur[w].id) /\ phase[w] = "failed" /\ ~ CleanupDue(w)
      BY <2>4 DEF RetryLater, Return
    <3>2. /\ cur[w].id \in Jobs /\ jobType[cur[w].id] = StageOf(w)
          /\ jobRetry[cur[w].id] = cur[w].retry
      BY <3>1, HolderKnowsRow
    <3>3. StageOf(w) \in Stages
      BY DEF StageOf, Stages
    <3>4. jobRetry[cur[w].id] < MaxRetry[StageOf(w)]
      BY <1>t, <3>1, <3>2, <3>3 DEF CleanupDue
    <3> QED
      BY <1>t, <1>l, <2>r, <3>1, <3>2, <3>3, <3>4 DEF SetError, AttemptBound, Exists, AttemptLimit
  <2> QED
    BY <1>6, <2>1, <2>2, <2>3, <2>4 DEF Execute, SkipTranscoding, StartFfmpeg, FfmpegDone,
       FfmpegFails, ReleaseSources, OpenUpload, UploadFails, FinishUpload, CleanupFiles
<1>7. CASE CancelContext \/ ProcessEnds
  BY <1>k, <1>7 DEF CancelContext, ProcessEnds
<1>8. CASE StartProcess
  <2>1. CASE Reset
    BY <1>t, <1>l, <1>8, <2>1 DEF StartProcess, Reset, AttemptBound, Exists, AttemptLimit
  <2>2. CASE UNCHANGED rowVars
    BY <1>t, <1>l, <1>8, <2>2 DEF StartProcess, rowVars, AttemptBound, Exists, AttemptLimit
  <2> QED
    BY <1>8, <2>1, <2>2 DEF StartProcess
<1>9. CASE UNCHANGED vars
  BY <1>k, <1>9 DEF vars, faultVars
<1> QED
  BY <1>1, <1>2, <1>3, <1>4, <1>5, <1>6, <1>7, <1>8, <1>9 DEF Next

\* The columns of a row keep saying the same thing together.
LEMMA NextRowsConsistent ==
    ASSUME ClaimInv, RowsConsistent, [Next]_vars
    PROVE  RowsConsistent'
<1>t. /\ jobState \in [Jobs -> RowStates] /\ jobType \in [Jobs -> Stages]
      /\ jobRetry \in [Jobs -> Nat] /\ jobPath \in [Jobs -> Nat]
  BY DEF ClaimInv, TypeOK, StoreTypeOK
<1>k. ASSUME UNCHANGED rowVars PROVE RowsConsistent'
  BY <1>k DEF RowsConsistent, rowVars
<1>1. ASSUME NEW j \in Jobs, NEW track \in TrackKinds,
             SubmitRecording(j, track) \/ SubmitFails(j, track)
      PROVE  RowsConsistent'
  BY <1>1, <1>t DEF SubmitRecording, SubmitFails, Create, RowsConsistent
<1>2. ASSUME NEW st \in Stages, Poll(st)
      PROVE  RowsConsistent'
  <2>1. PICK S \in SUBSET IdleOf(st) : Fetch(S)
    BY <1>2 DEF Poll
  <2>2. \A j \in S : j \in Jobs /\ jobState[j] = "idle"
    BY DEF IdleOf
  <2> QED
    BY <1>t, <2>1, <2>2 DEF Fetch, RowsConsistent
<1>3. ASSUME NEW w \in Workers, Execute(w)
      PROVE  RowsConsistent'
  <2>1. CASE UNCHANGED rowVars
    BY <1>k, <2>1
  <2>2. CASE PromoteJob(w) /\ ~ UNCHANGED rowVars
    <3>1. Update(cur[w].id, "upload", cur[w].retry, 0)
      BY <2>2 DEF PromoteJob
    <3>2. /\ cur[w].id \in Jobs /\ jobState[cur[w].id] = "active"
          /\ jobRetry[cur[w].id] = cur[w].retry
      BY <2>2, HolderKnowsRow DEF PromoteJob, Return
    <3> QED
      BY <1>t, <3>1, <3>2 DEF Update, RowsConsistent, Exists
  <2>3. CASE (DeleteJob(w) \/ RetryLater(w)) /\ ~ UNCHANGED rowVars
    <3>1. Delete(cur[w].id) \/ SetError(cur[w].id)
      BY <2>3 DEF DeleteJob, RetryLater
    <3> QED
      BY <1>t, <3>1 DEF Delete, SetError, Exists, RowsConsistent
  <2> QED
    BY <1>3, <2>1, <2>2, <2>3 DEF Execute, SkipTranscoding, StartFfmpeg, FfmpegDone,
       FfmpegFails, ReleaseSources, OpenUpload, UploadFails, FinishUpload, CleanupFiles
<1>4. CASE StartProcess
  BY <1>k, <1>t, <1>4 DEF StartProcess, Reset, Exists, RowsConsistent
<1>5. CASE UNCHANGED rowVars
  BY <1>k, <1>5
<1> QED
  BY <1>1, <1>2, <1>3, <1>4, <1>5 DEF Next, DropRecording, Exec, HandOver, Take,
     CancelContext, ProcessEnds, vars

\* A row is attempted at most MaxRetry times in a stage, and once more for every
\* restart: the guard of errorJob counts attempts, not failures it has seen.
THEOREM AttemptsBounded == Spec => []AttemptBound
<1> DEFINE Inv == ClaimInv /\ RowsConsistent /\ AttemptBound
<1>1. Init => Inv
  <2>1. Init => RowsConsistent /\ AttemptBound
    BY DEF Init, StoreInit, RowsConsistent, AttemptBound, Exists
  <2> QED
    BY <2>1, InitClaimInv
<1>2. Inv /\ [Next]_vars => Inv'
  BY NextClaimInv, NextRowsConsistent, NextAttemptBound
<1>3. Inv => AttemptBound
  OBVIOUS
<1> QED
  BY <1>1, <1>2, <1>3, PTL DEF Spec

-----------------------------------------------------------------------------
(* No row is forgotten.                                                    *)

\* A step of a process that stays up lets no recording fall, if it neither makes
\* rows active nor takes them out of anybody's hands without changing them.
LEMMA HoldersKept ==
    ASSUME NoRowForgotten, proc' = "up" => proc = "up", dbErrors' = 0 => dbErrors = 0,
           proc' = "up" /\ dbErrors' = 0 =>
               \A j \in Jobs : jobState'[j] = "active" => /\ jobState[j] = "active"
                                                          /\ InHand(j) => InHand(j)'
    PROVE  NoRowForgotten'
BY DEF NoRowForgotten

\* Exec moves a job from the listener's batch into the channel: it is never in
\* nobody's hands.
LEMMA HandsQueued ==
    ASSUME TypeOK, NEW st \in Stages, Exec(st)
    PROVE  \A j \in Jobs : InHand(j) => InHand(j)'
<1> USE DEF InHand
<1>t. /\ batch \in [Stages -> SUBSET Tasks] /\ queue \in [Stages -> Seq(Tasks)]
      /\ cur \in [Workers -> Tasks \cup {NoTask}] /\ phase \in [Workers -> Phases]
  BY DEF TypeOK
<1>1. PICK t \in batch[st] :
        /\ batch' = [batch EXCEPT ![st] = @ \ {t}]
        /\ queue' = [queue EXCEPT ![st] = Append(@, t)]
  BY DEF Exec
<1>2. t \in Tasks /\ Busy' = Busy /\ cur' = cur
  BY <1>t DEF Exec, Busy
<1>3. queue'[st] = Append(queue[st], t) /\ \A x \in Stages : x # st => queue'[x] = queue[x]
  BY <1>t, <1>1
<1>4. t \in Queued(st)' /\ \A x \in Stages : Queued(x) \subseteq Queued(x)'
  <2>1. /\ Len(queue'[st]) = Len(queue[st]) + 1
        /\ queue'[st][Len(queue[st]) + 1] = t
        /\ \A i \in 1 .. Len(queue[st]) : queue'[st][i] = queue[st][i]
        /\ Len(queue[st]) \in Nat
    BY <1>t, <1>2, <1>3
  <2>2. t \in Queued(st)' /\ Queued(st) \subseteq Queued(st)'
    BY <2>1 DEF Queued
  <2> QED
    BY <1>3, <2>2 DEF Queued
<1>5. \A x \in Stages : batch[x] \subseteq batch'[x] \cup {t} /\ (x # st => batch'[x] = batch[x])
  BY <1>t, <1>1
<1>6. \A x \in Stages : batch[x] \cup Queued(x) \subseteq batch'[x] \cup Queued(x)'
  BY <1>4, <1>5
<1> QED
  BY <1>2, <1>6

\* Nor is one that a worker takes from the listener or from the channel.
LEMMA HandsTaken ==
    ASSUME TypeOK, NEW w \in Workers, HandOver(w) \/ Take(w)
    PROVE  \A j \in Jobs : InHand(j) => InHand(j)'
<1> USE DEF InHand
<1>t. /\ batch \in [Stages -> SUBSET Tasks] /\ queue \in [Stages -> Seq(Tasks)]
      /\ cur \in [Workers -> Tasks \cup {NoTask}] /\ phase \in [Workers -> Phases]
  BY DEF TypeOK
<1>s. StageOf(w) \in Stages
  BY DEF StageOf, Stages
<1>1. CASE HandOver(w)
  <2>1. PICK t \in batch[StageOf(w)] :
          /\ batch' = [batch EXCEPT ![StageOf(w)] = @ \ {t}]
          /\ cur' = [cur EXCEPT ![w] = t]
    BY <1>1 DEF HandOver
  <2>2. Busy' = Busy \cup {w} /\ cur'[w] = t /\ \A v \in Busy : cur'[v] = cur[v]
    BY <1>t, <1>1, <2>1 DEF HandOver, Busy
  <2>3. \A x \in Stages : batch[x] \cup Queued(x) \subseteq batch'[x] \cup Queued(x)' \cup {t}
    BY <1>t, <1>1, <2>1 DEF HandOver, Queued
  <2> QED
    BY <2>2, <2>3
<1>2. CASE Take(w)
  <2> DEFINE q == queue[StageOf(w)]
  <2>1. /\ q \in Seq(Tasks) /\ q # <<>>
        /\ cur' = [cur EXCEPT ![w] = Head(q)]
        /\ queue' = [queue EXCEPT ![StageOf(w)] = Tail(q)]
        /\ batch' = batch
    BY <1>t, <1>s, <1>2 DEF Take
  <2>2. Busy' = Busy \cup {w} /\ cur'[w] = Head(q) /\ \A v \in Busy : cur'[v] = cur[v]
    BY <1>t, <1>2, <2>1 DEF Take, Busy
  <2>3. \A i \in 1 .. Len(q) : q[i] = Head(q) \/ \E k \in 1 .. Len(Tail(q)) : Tail(q)[k] = q[i]
    <3> SUFFICES ASSUME NEW i \in 1 .. Len(q), i # 1
                 PROVE  \E k \in 1 .. Len(Tail(q)) : Tail(q)[k] = q[i]
      BY <2>1
    <3>1. i - 1 \in 1 .. Len(Tail(q)) /\ Tail(q)[i - 1] = q[i]
      BY <2>1
    <3> QED
      BY <3>1
  <2>4. queue'[StageOf(w)] = Tail(q) /\ \A x \in Stages : x # StageOf(w) => queue'[x] = queue[x]
    BY <1>t, <1>s, <2>1
  <2>5. \A x \in Stages : Queued(x) \subseteq Queued(x)' \cup {Head(q)}
    <3>1. Queued(StageOf(w)) \subseteq Queued(StageOf(w))' \cup {Head(q)}
      BY <2>3, <2>4 DEF Queued
    <3> QED
      BY <2>4, <3>1 DEF Queued
  <2> QED
    BY <2>1, <2>2, <2>5
<1> QED
  BY <1>1, <1>2

\* Every step keeps each active row in somebody's hands, until the database fails.
LEMMA NextNoRowForgotten ==
    ASSUME ClaimInv, NoRowForgotten, [Next]_vars
    PROVE  NoRowForgotten'
<1>t. /\ jobState \in [Jobs -> RowStates] /\ dbErrors \in Nat
      /\ phase \in [Workers -> Phases] /\ cur \in [Workers -> Tasks \cup {NoTask}]
      /\ batch \in [Stages -> SUBSET Tasks] /\ proc \in {"up", "stopping", "down"}
  BY PipelineAssumption DEF ClaimInv, TypeOK, StoreTypeOK
<1>m. ASSUME UNCHANGED <<batch, queue, cur, phase>>
      PROVE  \A j \in Jobs : InHand(j) => InHand(j)'
  BY <1>m DEF InHand, Queued, Busy
<1>a. ASSUME DbAnswers \/ DbRefuses
      PROVE  proc' = proc /\ (dbErrors' = 0 => dbErrors = 0)
  BY <1>a, <1>t DEF DbAnswers, DbRefuses, faultVars
<1>n. ASSUME DbRefuses PROVE ~ (proc' = "up" /\ dbErrors' = 0)
  BY <1>n, <1>t DEF DbRefuses
<1>1. ASSUME NEW j \in Jobs, NEW track \in TrackKinds,
             SubmitRecording(j, track) \/ SubmitFails(j, track)
      PROVE  NoRowForgotten'
  <2>1. UNCHANGED <<batch, queue, cur, phase>>
    BY <1>1 DEF SubmitRecording, SubmitFails, Captured
  <2>2. \A k \in Jobs : jobState'[k] = "active" => jobState[k] = "active"
    BY <1>1, <1>t DEF SubmitRecording, SubmitFails, Create
  <2>3. proc' = proc /\ (dbErrors' = 0 => dbErrors = 0)
    BY <1>1, <1>a DEF SubmitRecording, SubmitFails
  <2> QED
    BY <1>m, <2>1, <2>2, <2>3, HoldersKept
<1>2. ASSUME NEW j \in Jobs, DropRecording(j)
      PROVE  NoRowForgotten'
  BY <1>m, <1>2, HoldersKept DEF DropRecording, rowVars, faultVars
<1>3. ASSUME NEW st \in Stages, Poll(st)
      PROVE  NoRowForgotten'
  <2> DEFINE task(j) == [id |-> j, retry |-> jobRetry[j] + 1, path |-> jobPath[j]]
  <2>1. PICK S \in SUBSET IdleOf(st) :
          /\ Fetch(S)
          /\ \/ DbAnswers /\ batch' = [batch EXCEPT ![st] = {task(j) : j \in S}]
             \/ DbRefuses /\ UNCHANGED batch
    BY <1>3 DEF Poll
  <2>2. batch[st] = {} /\ UNCHANGED <<queue, cur, phase>>
    BY <1>3 DEF Poll
  <2>3. CASE DbRefuses
    BY <1>n, <2>3 DEF NoRowForgotten
  <2>4. CASE DbAnswers /\ batch' = [batch EXCEPT ![st] = {task(j) : j \in S}]
    <3>1. \A j \in Jobs : jobState'[j] = "active" => j \in S \/ jobState[j] = "active"
      BY <1>t, <2>1 DEF Fetch
    <3>2. \A j \in S : \E t \in batch'[st] : t.id = j
      <4> SUFFICES ASSUME NEW j \in S PROVE \E t \in batch'[st] : t.id = j
        OBVIOUS
      <4>1. task(j) \in batch'[st] /\ task(j).id = j
        BY <1>t, <2>4
      <4> QED
        BY <4>1
    <3>3. \A x \in Stages : batch[x] \subseteq batch'[x]
      BY <1>t, <2>2, <2>4
    <3>4. \A j \in Jobs : j \in S \/ InHand(j) => InHand(j)'
      BY <2>2, <3>2, <3>3 DEF InHand, Queued, Busy
    <3>5. UNCHANGED <<proc, dbErrors>>
      BY <2>4 DEF DbAnswers, faultVars
    <3> QED
      BY <3>1, <3>4, <3>5 DEF NoRowForgotten
  <2> QED
    BY <2>1, <2>3, <2>4
<1>4. ASSUME NEW st \in Stages, Exec(st)
      PROVE  NoRowForgotten'
  <2>1. \A j \in Jobs : InHand(j) => InHand(j)'
    BY <1>4, HandsQueued DEF ClaimInv
  <2> QED
    BY <1>4, <2>1, HoldersKept DEF Exec, rowVars, faultVars
<1>5. ASSUME NEW w \in Workers, HandOver(w) \/ Take(w)
      PROVE  NoRowForgotten'
  <2>1. \A j \in Jobs : InHand(j) => InHand(j)'
    BY <1>5, HandsTaken DEF ClaimInv
  <2> QED
    BY <1>5, <2>1, HoldersKept DEF HandOver, Take, rowVars, faultVars
<1>6. ASSUME NEW w \in Workers, Execute(w)
      PROVE  NoRowForgotten'
  <2>1. CASE PromoteJob(w) \/ DeleteJob(w) \/ RetryLater(w)
    <3>1. PICK from : from # "free" /\ Return(w, from)
      BY <2>1 DEF PromoteJob, DeleteJob, RetryLater
    <3>2. /\ cur[w].id \in Jobs /\ jobState[cur[w].id] = "active"
      BY <3>1, HolderKnowsRow DEF Return
    <3>3. DbAnswers \/ DbRefuses
      BY <2>1 DEF PromoteJob, DeleteJob, RetryLater
    <3>4. CASE DbRefuses
      BY <1>n, <3>4 DEF NoRowForgotten
    <3>5. CASE DbAnswers /\ ~ DbRefuses
      <4>1. \/ Update(cur[w].id, "upload", cur[w].retry, 0)
            \/ Delete(cur[w].id)
            \/ SetError(cur[w].id)
        BY <2>1, <3>5 DEF PromoteJob, DeleteJob, RetryLater
      <4>2. \A j \in Jobs : jobState'[j] = "active" => j # cur[w].id /\ jobState[j] = "active"
        BY <1>t, <3>2, <4>1 DEF Update, Delete, SetError, Exists
      <4>3. Busy' = Busy \ {w} /\ \A v \in Busy \ {w} : cur'[v] = cur[v]
        BY <1>t, <3>1 DEF Return, Busy
      <4>4. UNCHANGED <<batch, queue>>
        BY <3>1 DEF Return
      <4>5. \A j \in Jobs : j # cur[w].id /\ InHand(j) => InHand(j)'
        BY <4>3, <4>4 DEF InHand, Queued
      <4>6. UNCHANGED <<proc, dbErrors>>
        BY <3>5 DEF DbAnswers, faultVars
      <4> QED
        BY <4>2, <4>5, <4>6, HoldersKept
    <3> QED
      BY <3>3, <3>4, <3>5
  <2>2. CASE ~ (PromoteJob(w) \/ DeleteJob(w) \/ RetryLater(w))
    <3>1. PICK from, to : "free" \notin from /\ to # "free" /\ Move(w, from, to)
      BY <1>6, <2>2 DEF Execute, SkipTranscoding, StartFfmpeg, FfmpegDone, FfmpegFails,
         ReleaseSources, OpenUpload, UploadFails, FinishUpload, CleanupFiles
    <3>2. UNCHANGED <<rowVars, faultVars>>
      BY <1>6, <2>2 DEF Execute, SkipTranscoding, StartFfmpeg, FfmpegDone, FfmpegFails,
         ReleaseSources, OpenUpload, UploadFails, FinishUpload, CleanupFiles
    <3>3. Busy' = Busy /\ UNCHANGED <<batch, queue, cur>>
      BY <1>t, <3>1 DEF Busy, Move
    <3>4. \A j \in Jobs : InHand(j) => InHand(j)'
      BY <3>3 DEF InHand, Queued
    <3> QED
      BY <3>2, <3>4, HoldersKept DEF rowVars, faultVars
  <2> QED
    BY <2>1, <2>2
<1>7. CASE CancelContext \/ ProcessEnds
  BY <1>7 DEF CancelContext, ProcessEnds, NoRowForgotten
<1>8. CASE StartProcess
  <2>1. CASE Reset
    <3>1. \A j \in Jobs : jobState'[j] # "active"
      BY <1>t, <2>1 DEF Reset, Exists
    <3> QED
      BY <3>1 DEF NoRowForgotten
  <2>2. CASE dbErrors' = dbErrors + 1
    BY <1>t, <2>2 DEF NoRowForgotten
  <2> QED
    BY <1>8, <2>1, <2>2 DEF StartProcess
<1>9. CASE UNCHANGED vars
  BY <1>m, <1>9, HoldersKept DEF vars, rowVars, memVars, faultVars
<1> QED
  BY <1>1, <1>2, <1>3, <1>4, <1>5, <1>6, <1>7, <1>8, <1>9 DEF Next

\* Until a statement of the database fails, no row of a running process stays
\* active without a listener, a channel or a worker that holds it, through any
\* number of shutdowns, crashes and restarts: Reset revives what they let fall, and
\* Execute returns only after it changed its row.  Fetch never sees an active row, so
\* one that nobody holds would be lost until the next restart.
THEOREM NothingForgotten == Spec => []NoRowForgotten
<1> DEFINE Inv == ClaimInv /\ NoRowForgotten
<1>1. Init => Inv
  <2>1. Init => NoRowForgotten
    BY DEF Init, StoreInit, NoRowForgotten
  <2> QED
    BY <2>1, InitClaimInv
<1>2. Inv /\ [Next]_vars => Inv'
  BY NextClaimInv, NextNoRowForgotten
<1>3. Inv => NoRowForgotten
  OBVIOUS
<1> QED
  BY <1>1, <1>2, <1>3, PTL DEF Spec
=============================================================================
